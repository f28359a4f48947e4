---------------------------- MODULE HandoffProofs ---------------------------
(***************************************************************************)
(* The properties of the hand-over between a node's threads, as MCHandoff  *)
(* states them, for every capacity, bound and set of producers and values. *)
(* The wake gate, the threads and the single-producer ring are proved      *)
(* here, each from an inductive invariant of its own; the multi-producer   *)
(* ring has a proof module, MpscRingProofs, whose theorems carry over      *)
(* because a behaviour of MCHandoff is one of that ring.                   *)
(***************************************************************************)
EXTENDS MCHandoff, TLAPS

(* A step of MCHandoff is a step, or none, of each part.                   *)
LEMMA StepOfEach ==
    ASSUME [Next]_vars
    PROVE  /\ [Spsc!Next]_spsc /\ [Mpsc!Next]_mpsc
           /\ [Gate!Next]_gate /\ [Node!Next]_node
BY Zenon DEF Next, vars, SpscStep, MpscStep, GateStep, NodeStep, NodeStopped

-----------------------------------------------------------------------------
(* The wake gate.                                                          *)
(* What a producer published, announced and what of it was consumed.       *)
GateCounts ==
    \A p \in Producer :
      /\ announced[p] <= published[p] /\ consumed[p] <= published[p]
      /\ notifying[p] # "bump" => announced[p] = published[p]

(* The waiter count and the mutex tell where the consumer is.              *)
GateWaiting ==
    /\ waiters = IF gConsuming = "poll" THEN 0 ELSE 1
    /\ mutex <=> gConsuming \in {"epoch", "work"}

(* Where an announcement can be that the consumer does not know of: only   *)
(* with a producer that is about to take the mutex.                        *)
GateKnown ==
    \A p \in Producer : notifying[p] # "wake" =>
      /\ gConsuming \in {"recheck", "lock", "asleep"} =>
           announced[p] <= seen[p] \/ announced[p] <= mutexKnows[p]
      /\ gConsuming \in {"epoch", "work"} => announced[p] <= seen[p]
      /\ gConsuming = "asleep" => announced[p] <= consumed[p]

GateInv == Gate!TypeOK /\ GateCounts /\ GateWaiting /\ GateKnown

(* What was seen only grows.                                               *)
LEMMA LaterBounds ==
    ASSUME NEW a \in [Producer -> Nat], NEW b \in [Producer -> Nat]
    PROVE  /\ Gate!Later(a, b) \in [Producer -> Nat]
           /\ \A p \in Producer : a[p] <= Gate!Later(a, b)[p] /\ b[p] <= Gate!Later(a, b)[p]
BY DEF Gate!Later

(* publish and notify() keep the invariant, access by access.              *)
LEMMA ProducerPreserves ==
    ASSUME GateInv, NEW q \in Producer, Gate!Publish(q) \/ Gate!Bump(q) \/ Gate!Wake(q)
    PROVE  GateInv'
<1>1. CASE Gate!Publish(q)
  BY <1>1
     DEF Gate!Publish, GateInv, Gate!TypeOK, GateCounts, GateWaiting, GateKnown, Gate!view,
         Gate!gate
<1>2. CASE Gate!Bump(q)
  <2>1. Gate!TypeOK'
    BY <1>2 DEF Gate!Bump, GateInv, Gate!TypeOK, Gate!view
  <2>2. GateCounts' /\ GateWaiting'
    BY <1>2 DEF Gate!Bump, GateInv, Gate!TypeOK, GateCounts, GateWaiting, Gate!view
  <2>3. GateKnown'
    BY <1>2 DEF Gate!Bump, GateInv, Gate!TypeOK, GateWaiting, GateKnown, Gate!view
  <2> QED BY <2>1, <2>2, <2>3 DEF GateInv
<1>3. CASE Gate!Wake(q)
  <2>1. Gate!TypeOK' /\ GateCounts' /\ GateWaiting'
    BY <1>3
       DEF Gate!Wake, Gate!NotifyAll, GateInv, Gate!TypeOK, GateCounts, GateWaiting, Gate!view,
           Gate!rings
  <2>2. GateKnown'
    BY <1>3
       DEF Gate!Wake, Gate!NotifyAll, GateInv, Gate!TypeOK, GateWaiting, GateKnown, Gate!view,
           Gate!rings
  <2> QED BY <2>1, <2>2 DEF GateInv
<1> QED BY <1>1, <1>2, <1>3

(* waitUntil() and taking an item keep the invariant, access by access.    *)
LEMMA ConsumerPreserves ==
    ASSUME GateInv, Gate!Wait \/ Gate!SpuriousWake \/ Gate!Timeout \/ \E p \in Producer : Gate!Consume(p)
    PROVE  GateInv'
<1> USE DEF Gate!rings, Gate!view, Gate!gate
<1>1. CASE \E p \in Producer : Gate!Consume(p)
  BY <1>1 DEF Gate!Consume, GateInv, Gate!TypeOK, GateCounts, GateWaiting, GateKnown
<1>2. CASE Gate!Register
  <2>1. /\ seen' \in [Producer -> Nat]
        /\ \A p \in Producer : announced[p] <= seen'[p]
    BY <1>2, LaterBounds DEF Gate!Register, GateInv, Gate!TypeOK
  <2>5. waiters' \in 0..1  BY <1>2 DEF Gate!Register, GateInv, GateWaiting
  <2>6. gConsuming' = "recheck" /\ moved' = FALSE  BY <1>2 DEF Gate!Register
  <2>2. Gate!TypeOK'  BY <1>2, <2>1, <2>5, <2>6, Zenon DEF Gate!Register, GateInv, Gate!TypeOK
  <2>3. GateCounts' /\ GateKnown'
    BY <1>2, <2>1 DEF Gate!Register, GateInv, Gate!TypeOK, GateCounts, GateKnown
  <2>4. GateWaiting'  BY <1>2 DEF Gate!Register, GateInv, GateWaiting
  <2> QED BY <2>2, <2>3, <2>4 DEF GateInv
<1>3. CASE Gate!Recheck
  <2>1. PICK reads \in [Producer -> 0..GateItems] :
          /\ Gate!Read(reads)
          /\ gConsuming' = IF Gate!FoundWork(reads) THEN "deregister" ELSE "lock"
    BY <1>3 DEF Gate!Recheck
  <2>2. /\ seen' \in [Producer -> Nat]
        /\ \A p \in Producer : seen[p] <= seen'[p]
    BY <2>1 DEF Gate!Read, GateInv, Gate!TypeOK
  <2>3. gConsuming' \in {"deregister", "lock"} /\ gConsuming = "recheck"
    BY <1>3, <2>1 DEF Gate!Recheck
  <2> QED BY <1>3, <2>2, <2>3
             DEF Gate!Recheck, GateInv, Gate!TypeOK, GateCounts, GateWaiting, GateKnown
<1>4. CASE Gate!Lock
  <2>1. /\ seen' \in [Producer -> Nat]
        /\ \A p \in Producer : seen[p] <= seen'[p] /\ mutexKnows[p] <= seen'[p]
    BY <1>4, LaterBounds DEF Gate!Lock, GateInv, Gate!TypeOK
  <2> QED BY <1>4, <2>1 DEF Gate!Lock, GateInv, Gate!TypeOK, GateCounts, GateWaiting, GateKnown
<1>5. CASE Gate!EpochMoved \/ Gate!EpochSame
  <2>1. Gate!TypeOK'  BY <1>5 DEF Gate!EpochMoved, Gate!EpochSame, GateInv, Gate!TypeOK
  <2>2. GateCounts' /\ GateKnown'
    BY <1>5 DEF Gate!EpochMoved, Gate!EpochSame, GateInv, Gate!TypeOK, GateCounts, GateKnown
  <2>3. GateWaiting'  BY <1>5 DEF Gate!EpochMoved, Gate!EpochSame, GateInv, GateWaiting
  <2> QED BY <2>1, <2>2, <2>3 DEF GateInv
<1>6. CASE Gate!Sleep
  <2>1. PICK reads \in [Producer -> 0..GateItems] :
          /\ Gate!Read(reads)
          /\ gConsuming' = IF Gate!FoundWork(reads) THEN "deregister" ELSE "asleep"
    BY <1>6 DEF Gate!Sleep
  <2>2. /\ seen' \in [Producer -> Nat] /\ seen' = reads
        /\ \A p \in Producer : seen[p] <= seen'[p]
    BY <2>1 DEF Gate!Read, GateInv, Gate!TypeOK
  <2>3. gConsuming' = "asleep" => \A p \in Producer : seen'[p] <= consumed[p]
    BY <2>1, <2>2 DEF Gate!FoundWork, GateInv, Gate!TypeOK
  <2>4. gConsuming' \in {"deregister", "asleep"} /\ gConsuming = "work"
    BY <1>6, <2>1 DEF Gate!Sleep
  <2>5. Gate!TypeOK'  BY <1>6, <2>2, <2>4 DEF Gate!Sleep, GateInv, Gate!TypeOK
  <2>6. GateCounts' /\ GateKnown'
    BY <1>6, <2>2, <2>3, <2>4 DEF Gate!Sleep, GateInv, Gate!TypeOK, GateCounts, GateKnown
  <2>7. GateWaiting'  BY <1>6, <2>4 DEF Gate!Sleep, GateInv, GateWaiting
  <2> QED BY <2>5, <2>6, <2>7 DEF GateInv
<1>7. CASE Gate!SpuriousWake \/ Gate!Timeout \/ Gate!Deregister
  BY <1>7
     DEF Gate!SpuriousWake, Gate!Timeout, Gate!Deregister, GateInv, Gate!TypeOK, GateCounts,
         GateWaiting, GateKnown
<1> QED BY <1>1, <1>2, <1>3, <1>4, <1>5, <1>6, <1>7 DEF Gate!Wait

(* The invariant holds of every behaviour, fair or not.                    *)
LEMMA GateInvHolds == Spec => []GateInv
<1>1. Init => GateInv
  <2> SUFFICES ASSUME Init  PROVE GateInv
    OBVIOUS
  <2>1. Gate!Init /\ Gate!Zero \in [Producer -> Nat] /\ 0 \in 0..1
    BY DEF Init, Gate!Zero
  <2>2. Gate!TypeOK
    BY <2>1, Zenon DEF Gate!Init, Gate!TypeOK
  <2>3. GateCounts /\ GateKnown
    BY <2>1 DEF Gate!Init, Gate!Zero, GateCounts, GateKnown
  <2>4. GateWaiting
    BY <2>1 DEF Gate!Init, GateWaiting
  <2> QED BY <2>2, <2>3, <2>4 DEF GateInv
<1>2. GateInv /\ UNCHANGED gate => GateInv'
  BY DEF gate, GateInv, Gate!TypeOK, GateCounts, GateWaiting, GateKnown
<1>3. GateInv /\ [Next]_vars => GateInv'
  BY <1>2, StepOfEach, ProducerPreserves, ConsumerPreserves DEF Gate!Next
<1> QED BY <1>1, <1>3, PTL DEF Spec

(* notify() and waitUntil() lose no wake-up, whatever the interleaving,    *)
(* the staleness of the loads and the number of producers; the bounded     *)
(* park time is not needed for it.                                         *)
THEOREM NoLostWakeupHolds == Spec => []NoLostWakeup
<1>1. GateInv => NoLostWakeup
  BY DEF GateInv, Gate!TypeOK, GateCounts, GateKnown, NoLostWakeup, Gate!NoLostWakeup
<1> QED BY <1>1, GateInvHolds, PTL

-----------------------------------------------------------------------------
(* The threads of a node.                                                  *)
Label == {"run", "parked", "exited", "drain", "offer", "pump", "free", "stuck", "replies"}

NodeTypes ==
    /\ applyRing \in Seq(Nat) /\ applied \in Seq(Nat)
    /\ raftTx \in Nat /\ applyTx \in Nat
    /\ commitIndex \in Nat /\ lastApplied \in Nat
    /\ pc \in [Node!Thread -> Label] /\ stopping \in {"no", "raft", "apply", "tx", "done"}

(* How many entries of the apply ring the apply thread has applied already *)
(* and not freed.                                                          *)
Taken == IF pc["apply"] = "free" THEN 1 ELSE 0

(* What was applied and what waits in the apply ring are the indices up to *)
(* lastApplied, each once and in order.                                    *)
HandedOver ==
    /\ \A i \in 1..Len(applied) : applied[i] = i
    /\ \A i \in 1..Len(applyRing) : applyRing[i] = lastApplied - Len(applyRing) + i
    /\ Len(applied) + Len(applyRing) - Taken = lastApplied
    /\ Taken <= Len(applyRing)
    /\ lastApplied <= commitIndex

(* A thread's consumer is told to exit after the thread did, and exits     *)
(* with its rings empty.                                                   *)
StopOrder ==
    /\ stopping \in {"apply", "tx", "done"} => pc["raft"] = "exited"
    /\ stopping \in {"tx", "done"} => pc["apply"] = "exited"
    /\ stopping = "done" => pc["tx"] = "exited"
    /\ pc["raft"] = "exited" => stopping # "no"
    /\ pc["apply"] = "exited" => applyRing = <<>> /\ stopping \in {"apply", "tx", "done"}
    /\ pc["tx"] = "exited" => raftTx = 0 /\ applyTx = 0 /\ stopping \in {"tx", "done"}

NodeInv == NodeTypes /\ HandedOver /\ StopOrder

(* The empty rings of a node that start() has just started.                *)
LEMMA InitNodeInv == Node!Init => NodeInv
<1> SUFFICES ASSUME Node!Init PROVE NodeInv
  OBVIOUS
<1>1. pc \in [Node!Thread -> Label] /\ \A t \in Node!Thread : pc[t] = "run"
  BY DEF Node!Init, Label, Node!Thread
<1>2. applied = <<>> /\ applyRing = <<>> /\ lastApplied = 0 /\ commitIndex = 0
  BY Zenon DEF Node!Init
<1>3. raftTx = 0 /\ applyTx = 0 /\ stopping = "no"
  BY Zenon DEF Node!Init
<1>4. NodeTypes
  BY <1>1, <1>2, <1>3 DEF NodeTypes
<1>5. Taken = 0
  BY <1>1 DEF Taken, Node!Thread
<1>6. HandedOver
  BY <1>2, <1>5 DEF HandedOver
<1>7. StopOrder
  BY <1>1, <1>3 DEF StopOrder, Node!Thread
<1> QED
  BY <1>4, <1>6, <1>7 DEF NodeInv

(* Waking a parked thread moves no other thread, and none that exited or   *)
(* holds an entry.                                                         *)
LEMMA WokenMovesOnlyParked ==
    ASSUME NEW t \in Node!Thread, NEW u \in Node!Thread, pc \in [Node!Thread -> Label]
    PROVE  /\ Node!Woken(pc, t) \in [Node!Thread -> Label]
           /\ \A label \in {"exited", "free"} : Node!Woken(pc, t)[u] = label <=> pc[u] = label
BY DEF Node!Woken, Node!Thread, Label

(* A thread that was sent a frame wakes; nothing else changes hands.       *)
LEMMA NotifiedMovesOnlyParked ==
    ASSUME NEW ring, NEW u \in Node!Thread, pc \in [Node!Thread -> Label]
    PROVE  /\ Node!Notified(ring) \in [Node!Thread -> Label]
           /\ \A label \in {"exited", "free"} : Node!Notified(ring)[u] = label <=> pc[u] = label
BY WokenMovesOnlyParked DEF Node!Notified, Node!Thread

(* The producers, enqueue(), enqueueFrame() and propose(), reach only the  *)
(* inbound ring.                                                           *)
LEMMA ProducersKeepInv ==
    ASSUME NodeInv, NEW p \in Node!Pusher, Node!BeginPropose(p) \/ Node!BeginFrame \/ Node!Push(p)
    PROVE  NodeInv'
<1>1. CASE Node!BeginPropose(p) \/ Node!BeginFrame
  <2>1. UNCHANGED <<applyRing, raftTx, applyTx, pc, commitIndex, lastApplied, applied, stopping>>
    BY <1>1, Zenon DEF Node!BeginPropose, Node!BeginFrame, Node!rings, Node!core
  <2> QED
    BY <2>1 DEF NodeInv, NodeTypes, HandedOver, StopOrder, Taken
<1>2. CASE Node!Push(p)
  <2>1. PICK event : Node!PushEvent(p, event)
    BY <1>2 DEF Node!Push
  <2>2. /\ pc' \in [Node!Thread -> Label]
        /\ \A u \in Node!Thread : \A label \in {"exited", "free"} : pc'[u] = label <=> pc[u] = label
    BY <2>1, WokenMovesOnlyParked DEF Node!PushEvent, NodeInv, NodeTypes, Node!Thread
  <2> QED
    BY <2>1, <2>2
       DEF Node!PushEvent, Node!core, NodeInv, NodeTypes, HandedOver, StopOrder, Taken, Node!Thread
<1> QED
  BY <1>1, <1>2

(* Taking an event and ending the drain: the Raft thread has not exited,   *)
(* so the tx thread has not, and the commit index only grows.              *)
LEMMA TakeEventKeepsInv ==
    ASSUME NodeInv, Node!TakeEvent
    PROVE  NodeInv'
<1>1. /\ commitIndex' \in Nat /\ commitIndex' >= commitIndex
      /\ UNCHANGED <<applyRing, applyTx, lastApplied, applied, stopping>>
  BY DEF Node!TakeEvent, NodeInv, NodeTypes
<1>2. raftTx' \in Nat
  BY DEF Node!TakeEvent, Node!Sent, NodeInv, NodeTypes
<1>3. pc["raft"] # "exited"
  BY DEF Node!TakeEvent
<1>4. /\ pc' \in [Node!Thread -> Label]
      /\ pc'["raft"] # "exited"
      /\ \A u \in {"apply", "tx"} : \A label \in {"exited", "free"} : pc'[u] = label <=> pc[u] = label
  <2>1. CASE UNCHANGED pc
    BY <2>1, <1>3 DEF NodeInv, NodeTypes
  <2>2. CASE pc' = [Node!Notified(raftTx) EXCEPT !["raft"] = "offer"]
    BY <2>2, NotifiedMovesOnlyParked DEF NodeInv, NodeTypes, Node!Thread, Label
  <2> QED
    BY <2>1, <2>2 DEF Node!TakeEvent
<1>5. pc["tx"] # "exited"
  BY <1>3 DEF NodeInv, StopOrder
<1>6. NodeTypes'
  BY <1>1, <1>2, <1>4 DEF NodeInv, NodeTypes
<1>7. Taken' = Taken
  BY <1>4 DEF Taken
<1>8. HandedOver'
  BY <1>1, <1>7 DEF NodeInv, NodeTypes, HandedOver, Taken
<1>9. StopOrder'
  BY <1>1, <1>3, <1>4, <1>5 DEF NodeInv, StopOrder, Node!Thread
<1> QED
  BY <1>6, <1>8, <1>9 DEF NodeInv

(* The end of the drain and of an iteration: only the Raft thread moves,   *)
(* and it exits only when told to.                                         *)
LEMMA RaftMovesKeepInv ==
    ASSUME NodeInv, Node!EndDrain \/ Node!EndIteration
    PROVE  NodeInv'
<1>1. UNCHANGED <<applyRing, raftTx, applyTx, commitIndex, lastApplied, applied, stopping>>
  BY Zenon DEF Node!EndDrain, Node!EndIteration, Node!rings, Node!core
<1>2. pc["raft"] \in {"drain", "run"} /\ pc \in [Node!Thread -> Label]
  BY DEF Node!EndDrain, Node!EndIteration, NodeInv, NodeTypes
<1>3. \E label \in Label : Node!Goto("raft", label) /\ (label = "exited" => stopping # "no")
  BY DEF Node!EndDrain, Node!EndIteration, Node!StopFlag, Label
<1>4. PICK label \in Label : Node!Goto("raft", label) /\ (label = "exited" => stopping # "no")
  BY <1>3
<1>5. /\ pc' \in [Node!Thread -> Label] /\ pc'["raft"] = label
      /\ pc'["apply"] = pc["apply"] /\ pc'["tx"] = pc["tx"]
  BY <1>2, <1>4 DEF Node!Goto, Node!Thread
<1>6. UNCHANGED Taken
  BY <1>5 DEF Taken
<1>7. NodeTypes' /\ HandedOver'
  BY <1>1, <1>5, <1>6 DEF NodeInv, NodeTypes, HandedOver, Taken
<1>8. StopOrder'
  BY <1>1, <1>2, <1>4, <1>5 DEF NodeInv, StopOrder
<1> QED
  BY <1>7, <1>8 DEF NodeInv

(* The apply sink: what is handed over follows what was, and a refusal     *)
(* leaves everything where it is.                                          *)
LEMMA OfferKeepsInv ==
    ASSUME NodeInv, NEW from \in {"offer", "pump"}, NEW to \in {"drain", "run"}, Node!Offer(from, to)
    PROVE  NodeInv'
<1>1. /\ UNCHANGED <<raftTx, applyTx, commitIndex, applied, stopping>>
      /\ pc["raft"] \in {"offer", "pump"}
  BY Zenon DEF Node!Offer
<1>2. /\ pc' \in [Node!Thread -> Label]
      /\ pc'["raft"] # "exited"
      /\ \A u \in {"apply", "tx"} : \A label \in {"exited", "free"} : pc'[u] = label <=> pc[u] = label
  <2> DEFINE woken == IF lastApplied + 1 <= commitIndex THEN Node!Woken(pc, "apply") ELSE pc
  <2>1. /\ woken \in [Node!Thread -> Label]
        /\ \A u \in Node!Thread : \A label \in {"exited", "free"} : woken[u] = label <=> pc[u] = label
    BY WokenMovesOnlyParked DEF NodeInv, NodeTypes, Node!Thread
  <2>2. pc' = woken \/ pc' = [woken EXCEPT !["raft"] = to]
    BY DEF Node!Offer
  <2> HIDE DEF woken
  <2> QED
    BY <1>1, <2>1, <2>2 DEF Node!Thread, Label
<1>3. Taken' = Taken
  BY <1>2 DEF Taken
<1>4. pc["apply"] # "exited"
  BY <1>1 DEF NodeInv, StopOrder
<1>5. StopOrder'
  BY <1>1, <1>2, <1>4 DEF NodeInv, StopOrder, Node!Thread
<1>6. CASE UNCHANGED <<applyRing, lastApplied>>
  BY <1>1, <1>2, <1>3, <1>5, <1>6 DEF NodeInv, NodeTypes, HandedOver, Taken
<1>7. CASE /\ lastApplied + 1 <= commitIndex
           /\ applyRing' = Append(applyRing, lastApplied + 1) /\ lastApplied' = lastApplied + 1
  <2>1. NodeTypes'
    BY <1>1, <1>2, <1>7 DEF NodeInv, NodeTypes
  <2>2. HandedOver'
    BY <1>1, <1>3, <1>7 DEF NodeInv, NodeTypes, HandedOver, Taken
  <2> QED
    BY <2>1, <2>2, <1>5 DEF NodeInv
<1> QED
  BY <1>6, <1>7 DEF Node!Offer
(* Applying the head of the ring in place: it is the next index.           *)
LEMMA UseEntryKeepsInv ==
    ASSUME NodeInv, Node!UseEntry
    PROVE  NodeInv'
<1>1. /\ UNCHANGED <<applyRing, raftTx, commitIndex, lastApplied, stopping>>
      /\ pc["apply"] = "run" /\ applyRing # <<>>
  BY Zenon DEF Node!UseEntry
<1>2. Taken = 0 /\ Len(applyRing) > 0 /\ pc["tx"] # "exited"
  BY <1>1 DEF Taken, NodeInv, NodeTypes, StopOrder
<1>3. CASE Node!Goto("apply", "stuck") /\ UNCHANGED <<applied, applyTx>>
  <2>1. pc' \in [Node!Thread -> Label] /\ Taken' = 0
    BY <1>3 DEF Node!Goto, Taken, NodeInv, NodeTypes, Node!Thread, Label
  <2>2. NodeTypes' /\ HandedOver'
    BY <1>1, <1>2, <1>3, <2>1 DEF NodeInv, NodeTypes, HandedOver
  <2>3. StopOrder'
    BY <1>1, <1>3 DEF Node!Goto, NodeInv, NodeTypes, StopOrder, Node!Thread
  <2> QED
    BY <2>2, <2>3 DEF NodeInv
<1>4. CASE /\ applied' = Append(applied, Head(applyRing)) /\ applyTx' = Node!Sent(applyTx)
           /\ pc' = [Node!Notified(applyTx) EXCEPT !["apply"] = "free"]
  <2>1. /\ pc' \in [Node!Thread -> Label] /\ pc'["apply"] = "free"
        /\ \A u \in {"raft", "tx"} : pc'[u] = "exited" <=> pc[u] = "exited"
    BY <1>4, NotifiedMovesOnlyParked DEF NodeInv, NodeTypes, Node!Thread, Label
  <2>2. Taken' = 1
    BY <2>1 DEF Taken
  <2>3. Head(applyRing) = Len(applied) + 1
    BY <1>2 DEF NodeInv, NodeTypes, HandedOver
  <2>4. NodeTypes'
    BY <1>1, <1>4, <2>1, <2>3 DEF Node!Sent, NodeInv, NodeTypes
  <2>5. HandedOver'
    <3>1. \A i \in 1..Len(applied') : applied'[i] = i
      BY <1>4, <2>3 DEF NodeInv, NodeTypes, HandedOver
    <3>2. Len(applied') = Len(applied) + 1
      BY <1>4, <2>3 DEF NodeInv, NodeTypes
    <3>3. Len(applied) + Len(applyRing) - Taken = lastApplied /\ Len(applied) \in Nat /\ Len(applyRing) \in Nat
      BY DEF NodeInv, NodeTypes, HandedOver
    <3>4. (Len(applied) + 1) + Len(applyRing) - 1 = lastApplied
      BY <1>2, <3>3
    <3>5. Len(applied') + Len(applyRing') - Taken' = lastApplied'
      BY <1>1, <2>2, <3>2, <3>4, Zenon
    <3>6. Taken' <= Len(applyRing')
      BY <1>1, <1>2, <2>2, <3>3
    <3> QED
      BY <1>1, <3>1, <3>5, <3>6, Zenon DEF NodeInv, HandedOver
  <2>6. StopOrder'
    BY <1>1, <1>2, <2>1 DEF NodeInv, StopOrder
  <2> QED
    BY <2>4, <2>5, <2>6 DEF NodeInv
<1> QED
  BY <1>3, <1>4, Zenon DEF Node!UseEntry

(* Freeing the slot of an entry that was applied.                          *)
LEMMA FreeEntryKeepsInv ==
    ASSUME NodeInv, Node!FreeEntry
    PROVE  NodeInv'
<1>1. /\ UNCHANGED <<raftTx, applyTx, commitIndex, lastApplied, applied, stopping>>
      /\ pc["apply"] = "free" /\ applyRing' = Tail(applyRing)
      /\ pc' = [pc EXCEPT !["apply"] = "run"]
  BY Zenon DEF Node!FreeEntry, Node!Goto, Node!core
<1>2. Taken = 1 /\ Len(applyRing) > 0
  BY <1>1 DEF Taken, NodeInv, NodeTypes, HandedOver
<1>3. pc' \in [Node!Thread -> Label] /\ Taken' = 0
  BY <1>1 DEF Taken, NodeInv, NodeTypes, Node!Thread, Label
<1>4. NodeTypes' /\ HandedOver'
  <2>1. /\ applyRing' \in Seq(Nat) /\ Len(applyRing') = Len(applyRing) - 1
        /\ \A i \in 1..Len(applyRing') : applyRing'[i] = applyRing[i + 1]
    BY <1>1, <1>2 DEF NodeInv, NodeTypes
  <2>2. \A i \in 1..Len(applyRing') : applyRing'[i] = lastApplied - Len(applyRing') + i
    BY <2>1 DEF NodeInv, NodeTypes, HandedOver
  <2>3. Len(applied) + Len(applyRing') = lastApplied /\ 0 <= Len(applyRing')
    BY <1>2, <2>1 DEF NodeInv, NodeTypes, HandedOver
  <2> QED
    BY <1>1, <1>3, <2>1, <2>2, <2>3 DEF NodeInv, NodeTypes, HandedOver
<1>5. StopOrder'
  BY <1>1 DEF NodeInv, NodeTypes, StopOrder, Node!Thread
<1> QED
  BY <1>4, <1>5 DEF NodeInv

(* An idle consumer exits only with its rings empty and its flag set.      *)
LEMMA IdleKeepsInv ==
    ASSUME NodeInv, NEW t \in {"apply", "tx"}, Node!Idle(t)
    PROVE  NodeInv'
<1>1. /\ UNCHANGED <<applyRing, raftTx, applyTx, commitIndex, lastApplied, applied, stopping>>
      /\ pc[t] = "run"
  BY Zenon DEF Node!Idle, Node!rings, Node!core
<1>2. PICK label \in {"exited", "parked"} : /\ pc' = [pc EXCEPT ![t] = label]
                                            /\ label = "exited" => Node!StopFlag(t)
  BY Zenon DEF Node!Idle, Node!Goto
<1>3. pc' \in [Node!Thread -> Label] /\ UNCHANGED Taken
  BY <1>1, <1>2 DEF Taken, NodeInv, NodeTypes, Node!Thread, Label
<1>4. NodeTypes' /\ HandedOver'
  BY <1>1, <1>3 DEF NodeInv, NodeTypes, HandedOver, Taken
<1>5. IF t = "apply" THEN applyRing = <<>> ELSE raftTx = 0 /\ applyTx = 0
  BY Zenon DEF Node!Idle
<1>6. StopOrder'
  <2>1. pc'[t] = label /\ \A u \in Node!Thread \ {t} : pc'[u] = pc[u]
    BY <1>2 DEF NodeInv, NodeTypes, Node!Thread
  <2>2. CASE t = "apply"
    BY <1>1, <1>2, <1>5, <2>1, <2>2 DEF Node!StopFlag, NodeInv, StopOrder, Node!Thread
  <2>3. CASE t = "tx"
    BY <1>1, <1>2, <1>5, <2>1, <2>3 DEF Node!StopFlag, NodeInv, StopOrder, Node!Thread
  <2> QED
    BY <2>2, <2>3
<1> QED
  BY <1>4, <1>6 DEF NodeInv

(* The tx thread only takes frames out, and does not exit doing so.        *)
LEMMA SendFrameKeepsInv ==
    ASSUME NodeInv, Node!SendFrame
    PROVE  NodeInv'
<1>1. /\ UNCHANGED <<applyRing, commitIndex, lastApplied, applied, stopping>>
      /\ pc["tx"] \in {"run", "replies"}
  BY Zenon DEF Node!SendFrame, Node!core
<1>2. raftTx' \in Nat /\ applyTx' \in Nat
  BY DEF Node!SendFrame, NodeInv, NodeTypes
<1>3. \/ UNCHANGED pc
      \/ \E label \in {"run", "replies"} : pc' = [pc EXCEPT !["tx"] = label]
  BY Zenon DEF Node!SendFrame, Node!Goto
<1>4. pc' \in [Node!Thread -> Label] /\ UNCHANGED Taken
  BY <1>3 DEF Taken, NodeInv, NodeTypes, Node!Thread, Label
<1>5. NodeTypes' /\ HandedOver'
  BY <1>1, <1>2, <1>4 DEF NodeInv, NodeTypes, HandedOver, Taken
<1>6. StopOrder'
  BY <1>1, <1>3 DEF NodeInv, NodeTypes, StopOrder, Node!Thread
<1> QED
  BY <1>5, <1>6 DEF NodeInv

(* stop() goes on to a thread after it joined the one before.              *)
LEMMA StopKeepsInv ==
    ASSUME NodeInv, Node!Stop
    PROVE  NodeInv'
<1>1. UNCHANGED <<applyRing, raftTx, applyTx, commitIndex, lastApplied, applied>>
  BY Zenon DEF Node!Stop, Node!rings, Node!core
<1>2. /\ stopping = "no" => stopping' = "raft"
      /\ stopping = "raft" => stopping' = "apply" /\ pc["raft"] = "exited"
      /\ stopping = "apply" => stopping' = "tx" /\ pc["apply"] = "exited"
      /\ stopping = "tx" => stopping' = "done" /\ pc["tx"] = "exited"
      /\ stopping # "done"
  BY DEF Node!Stop, Node!NextStop
<1>3. /\ pc' \in [Node!Thread -> Label]
      /\ \A u \in Node!Thread : \A label \in {"exited", "free"} : pc'[u] = label <=> pc[u] = label
  <2>1. stopping' \in {"raft", "apply", "tx", "done"}
    BY <1>2 DEF NodeInv, NodeTypes
  <2>2. CASE stopping' = "done"
    BY <2>2, Zenon DEF Node!Stop, NodeInv, NodeTypes
  <2>3. CASE stopping' # "done"
    <3>1. stopping' \in Node!Thread
      BY <2>1, <2>3 DEF Node!Thread
    <3>2. pc' = Node!Woken(pc, stopping')
      BY <2>3, Zenon DEF Node!Stop
    <3> QED
      BY <3>1, <3>2, WokenMovesOnlyParked, Zenon DEF NodeInv, NodeTypes
  <2> QED
    BY <2>2, <2>3
<1>4. UNCHANGED Taken
  BY <1>3 DEF Taken, Node!Thread
<1>5. NodeTypes' /\ HandedOver'
  BY <1>1, <1>2, <1>3, <1>4 DEF NodeInv, NodeTypes, HandedOver, Taken
<1>6. StopOrder'
  BY <1>1, <1>2, <1>3 DEF NodeInv, NodeTypes, StopOrder, Node!Thread
<1> QED
  BY <1>5, <1>6 DEF NodeInv

(* Every step of every thread keeps the invariant, fair or not.            *)
LEMMA NodeInvHolds == Spec => []NodeInv
<1>1. NodeInv /\ [Next]_vars => NodeInv'
  <2> SUFFICES ASSUME NodeInv, [Node!Next]_node PROVE NodeInv'
    BY StepOfEach, Zenon
  <2>1. CASE \E p \in Node!Pusher : Node!BeginPropose(p) \/ Node!BeginFrame \/ Node!Push(p)
    BY <2>1, ProducersKeepInv
  <2>2. CASE Node!RaftThread
    BY <2>2, TakeEventKeepsInv, RaftMovesKeepInv, OfferKeepsInv, Zenon DEF Node!RaftThread
  <2>3. CASE Node!ApplyThread
    BY <2>3, UseEntryKeepsInv, FreeEntryKeepsInv, IdleKeepsInv, Zenon DEF Node!ApplyThread
  <2>4. CASE Node!TxThread
    BY <2>4, SendFrameKeepsInv, IdleKeepsInv, Zenon DEF Node!TxThread
  <2>5. CASE Node!Stop
    BY <2>5, StopKeepsInv
  <2>6. CASE UNCHANGED node
    BY <2>6 DEF node, NodeInv, NodeTypes, HandedOver, StopOrder, Taken
  <2> QED
    BY <2>1, <2>2, <2>3, <2>4, <2>5, <2>6, Zenon DEF Node!Next, Node!Pusher
<1>2. Init => NodeInv
  BY InitNodeInv DEF Init
<1> QED
  BY <1>1, <1>2, PTL DEF Spec

(* Committed entries reach the state machine once each and in index order, *)
(* whatever the apply ring's capacity and however often it refused.        *)
THEOREM AppliedOnceInOrderHolds == Spec => []AppliedOnceInOrder
<1>1. NodeInv => AppliedOnceInOrder
  <2> SUFFICES ASSUME NodeInv PROVE AppliedOnceInOrder
    OBVIOUS
  <2>1. Len(applied) <= lastApplied /\ lastApplied <= commitIndex
    BY DEF NodeInv, NodeTypes, HandedOver, Taken
  <2>2. applied = [i \in 1..Len(applied) |-> i]
    BY DEF NodeInv, NodeTypes, HandedOver
  <2> QED
    BY <2>1, <2>2 DEF AppliedOnceInOrder, Node!AppliedOnceInOrder
<1> QED
  BY <1>1, NodeInvHolds, PTL

(* When stop() has returned, everything handed over was applied and every  *)
(* queued frame was sent: joining the producer before telling the consumer *)
(* to exit is enough.                                                      *)
THEOREM NothingLeftHolds == Spec => []Node!NothingLeft
<1>1. NodeInv => Node!NothingLeft
  BY DEF NodeInv, NodeTypes, HandedOver, StopOrder, Taken, Node!NothingLeft
<1> QED
  BY <1>1, NodeInvHolds, PTL

-----------------------------------------------------------------------------
(* The single-producer ring, and the theorems of the multi-producer one.   *)
MpscProofs == INSTANCE MpscRingProofs WITH MaxItems <- MpscItems, producing <- mProducing,
                  item <- mItem, consuming <- mConsuming, received <- mReceived

(* How the two indices, the copies each side keeps of the other's, and the *)
(* place each side is at bound one another.                                *)
SpscIndices ==
    /\ cachedHead <= head /\ head <= cachedTail /\ cachedTail <= tail
    /\ tail - cachedHead <= Capacity
    /\ producing \in {"fill", "filling", "publish"} => tail - cachedHead < Capacity
    /\ consuming \in {"use", "retire"} => head < cachedTail
    /\ Len(sent) = tail
    /\ Len(received) = IF consuming = "retire" THEN head + 1 ELSE head

(* The slots between the two indices hold what was published.              *)
SpscContents ==
    /\ producing # "idle" => item \in Value
    /\ producing = "publish" => slots[Spsc!Slot(tail)] = item
    /\ \A k \in Nat : head <= k /\ k < tail => slots[Spsc!Slot(k)] = sent[k + 1]

SpscInv == Spsc!RingSizeOK /\ Spsc!TypeOK /\ SpscIndices /\ SpscContents /\ Spsc!FirstInFirstOut

(* Two indices less than a lap apart use different slots of slots_.        *)
LEMMA SlotsDistinct ==
    ASSUME Spsc!RingSizeOK, NEW a \in Nat, NEW b \in Nat, a < b, b - a < Capacity
    PROVE  Spsc!Slot(a) # Spsc!Slot(b)
<1>1. Capacity \in Nat /\ Capacity > 0  BY DEF Spsc!RingSizeOK
<1>2. PICK q \in Int : a = Capacity * q + (a % Capacity)
  <2>1. a \div Capacity \in Int  BY <1>1
  <2>2. a = Capacity * (a \div Capacity) + (a % Capacity)  BY <1>1
  <2> QED BY <2>1, <2>2
<1>3. PICK r \in Int : b = Capacity * r + (b % Capacity)
  <2>1. b \div Capacity \in Int  BY <1>1
  <2>2. b = Capacity * (b \div Capacity) + (b % Capacity)  BY <1>1
  <2> QED BY <2>1, <2>2
<1>4. SUFFICES ASSUME a % Capacity = b % Capacity  PROVE FALSE  BY DEF Spsc!Slot
<1>5. a % Capacity \in Int /\ b % Capacity \in Int  BY <1>1
<1>6. b - a = Capacity * (r - q)  BY <1>1, <1>2, <1>3, <1>4, <1>5
<1>7. r - q >= 1  BY <1>1, <1>6
<1>8. Capacity * (r - q) >= Capacity  BY <1>1, <1>7
<1> QED BY <1>1, <1>6, <1>8

(* An index always names one of the slots.                                 *)
LEMMA SlotInRange ==
    ASSUME Spsc!RingSizeOK, NEW a \in Nat  PROVE Spsc!Slot(a) \in 0..(Capacity - 1)
BY DEF Spsc!RingSizeOK, Spsc!Slot

(* Writing the slot at tail_ leaves every published slot alone.            *)
LEMMA WriteIsPrivate ==
    ASSUME SpscInv, tail - cachedHead < Capacity, NEW v,
           slots' = [slots EXCEPT ![Spsc!Slot(tail)] = v]
    PROVE  /\ \A k \in Nat : head <= k /\ k < tail => slots'[Spsc!Slot(k)] = slots[Spsc!Slot(k)]
           /\ slots'[Spsc!Slot(tail)] = v
<1>0. Spsc!RingSizeOK  BY DEF SpscInv
<1>1. Capacity \in Nat /\ tail \in Nat /\ head \in Nat /\ cachedHead \in Nat /\ cachedHead <= head
  BY DEF SpscInv, Spsc!RingSizeOK, Spsc!TypeOK, SpscIndices
<1>2. DOMAIN slots = 0..(Capacity - 1)  BY DEF SpscInv, Spsc!TypeOK
<1>3. ASSUME NEW k \in Nat, head <= k, k < tail  PROVE slots'[Spsc!Slot(k)] = slots[Spsc!Slot(k)]
  <2>1. Spsc!Slot(k) # Spsc!Slot(tail)  BY <1>0, <1>1, <1>3, SlotsDistinct
  <2>2. Spsc!Slot(k) \in DOMAIN slots  BY <1>0, <1>2, <1>3, SlotInRange
  <2> QED BY <2>1, <2>2
<1>4. Spsc!Slot(tail) \in DOMAIN slots  BY <1>0, <1>1, <1>2, SlotInRange
<1> QED BY <1>3, <1>4

(* The empty ring.                                                         *)
LEMMA SpscInitInv == Spsc!RingSizeOK /\ Spsc!Init => SpscInv
BY DEF Spsc!RingSizeOK, Spsc!Init, SpscInv, Spsc!TypeOK, SpscIndices, SpscContents,
       Spsc!FirstInFirstOut

(* tryPush and tryProduce keep the invariant, access by access.            *)
LEMMA SpscProducerKeepsInv == SpscInv /\ Spsc!Produce => SpscInv'
<1> SUFFICES ASSUME SpscInv, Spsc!Produce  PROVE SpscInv'
  OBVIOUS
<1>0. Capacity \in Nat \ {0}  BY DEF SpscInv, Spsc!RingSizeOK
<1> USE <1>0
<1>1. CASE \E v \in Value : Spsc!BeginProduce(v)
  <2>1. PICK v \in Value : Spsc!BeginProduce(v)  BY <1>1
  <2>2. Spsc!TypeOK' /\ SpscContents' /\ Spsc!FirstInFirstOut'
    BY <2>1
       DEF SpscInv, Spsc!TypeOK, SpscContents, Spsc!FirstInFirstOut, Spsc!BeginProduce,
           Spsc!consumer
  <2>3. producing' \in {"fill", "filling", "publish"} => tail - cachedHead < Capacity
    BY <2>1 DEF SpscInv, Spsc!TypeOK, Spsc!BeginProduce, Spsc!LooksFull
  <2>4. SpscIndices'  BY <2>1, <2>3 DEF SpscInv, SpscIndices, Spsc!BeginProduce, Spsc!consumer
  <2> QED BY <2>2, <2>4 DEF SpscInv, Spsc!RingSizeOK
<1>2. CASE Spsc!RefreshHead
  <2>1. cachedHead' \in Nat /\ cachedHead <= cachedHead' /\ cachedHead' <= head
    BY <1>2 DEF Spsc!RefreshHead, SpscInv, Spsc!TypeOK
  <2>2. Spsc!TypeOK' /\ SpscContents' /\ Spsc!FirstInFirstOut'
    BY <1>2, <2>1
       DEF SpscInv, Spsc!TypeOK, SpscContents, Spsc!FirstInFirstOut, Spsc!RefreshHead,
           Spsc!consumer
  <2>3. SpscIndices'
    <3>1. /\ UNCHANGED <<tail, sent, head, cachedTail, consuming, received>>
          /\ producing' \in {"idle", "fill"}
          /\ producing' = "fill" => ~(tail - cachedHead' >= Capacity)
      BY <1>2 DEF Spsc!RefreshHead, Spsc!LooksFull, Spsc!consumer
    <3>2. tail \in Nat /\ cachedHead \in Nat /\ head \in Nat /\ cachedTail \in Nat
      BY DEF SpscInv, Spsc!TypeOK
    <3>3. tail - cachedHead <= Capacity /\ Capacity \in Nat  BY DEF SpscInv, SpscIndices
    <3>4. \A t, c, d \in Nat : t - c <= Capacity /\ c <= d => t - d <= Capacity
      BY <3>3
    <3>5. tail - cachedHead' <= Capacity  BY <2>1, <3>2, <3>3, <3>4, Zenon
    <3>6. \A t, d \in Nat : ~(t - d >= Capacity) => t - d < Capacity  BY <3>3
    <3>7. producing' \in {"fill", "filling", "publish"} => tail - cachedHead' < Capacity
      BY <2>1, <3>1, <3>2, <3>6
    <3> QED BY <2>1, <3>1, <3>5, <3>7 DEF SpscInv, SpscIndices
  <2> QED BY <2>2, <2>3 DEF SpscInv
<1>3. CASE Spsc!StartFill
  <2>1. UNCHANGED <<tail, cachedHead, item, sent, Spsc!consumer>> /\ producing' = "filling"
    BY <1>3 DEF Spsc!StartFill
  <2>2. tail - cachedHead < Capacity  BY <1>3 DEF Spsc!StartFill, SpscInv, SpscIndices
  <2>3. slots' \in [0..(Capacity - 1) -> Value \cup {Torn}]
    BY <1>3 DEF Spsc!StartFill, SpscInv, Spsc!TypeOK
  <2>4. \A k \in Nat : head <= k /\ k < tail => slots'[Spsc!Slot(k)] = slots[Spsc!Slot(k)]
    BY <1>3, <2>2, WriteIsPrivate DEF Spsc!StartFill
  <2>5. Spsc!TypeOK' /\ SpscIndices' /\ Spsc!FirstInFirstOut'
    BY <1>3, <2>1, <2>3
       DEF Spsc!StartFill, SpscInv, Spsc!TypeOK, SpscIndices, Spsc!FirstInFirstOut, Spsc!consumer
  <2>6. SpscContents'
    BY <1>3, <2>1, <2>4 DEF Spsc!StartFill, SpscInv, SpscContents, Spsc!consumer, Spsc!Slot
  <2> QED BY <2>5, <2>6 DEF SpscInv
<1>4. CASE Spsc!EndFill
  <2>1. UNCHANGED <<tail, cachedHead, item, sent, Spsc!consumer>> /\ producing' = "publish"
    BY <1>4 DEF Spsc!EndFill
  <2>2. tail - cachedHead < Capacity /\ item \in Value
    BY <1>4 DEF Spsc!EndFill, SpscInv, SpscIndices, SpscContents
  <2>3. slots' \in [0..(Capacity - 1) -> Value \cup {Torn}]
    BY <1>4 DEF Spsc!EndFill, SpscInv, Spsc!TypeOK
  <2>4. /\ \A k \in Nat : head <= k /\ k < tail => slots'[Spsc!Slot(k)] = slots[Spsc!Slot(k)]
        /\ slots'[Spsc!Slot(tail)] = item
    BY <1>4, <2>2, WriteIsPrivate DEF Spsc!EndFill
  <2>5. Spsc!TypeOK' /\ SpscIndices' /\ Spsc!FirstInFirstOut'
    BY <1>4, <2>1, <2>3
       DEF Spsc!EndFill, SpscInv, Spsc!TypeOK, SpscIndices, Spsc!FirstInFirstOut, Spsc!consumer
  <2>6. SpscContents'
    BY <1>4, <2>1, <2>2, <2>4 DEF Spsc!EndFill, SpscInv, SpscContents, Spsc!consumer, Spsc!Slot
  <2> QED BY <2>5, <2>6 DEF SpscInv
<1>5. CASE Spsc!Publish
  <2>1. item \in Value  BY <1>5 DEF Spsc!Publish, SpscInv, SpscContents
  <2>2. Spsc!TypeOK' /\ SpscIndices' /\ Spsc!FirstInFirstOut'
    BY <1>5, <2>1
       DEF Spsc!Publish, SpscInv, Spsc!TypeOK, SpscIndices, Spsc!FirstInFirstOut, Spsc!consumer
  <2>3. SpscContents'
    <3>1. tail \in Nat /\ Len(sent) = tail /\ sent \in Seq(Value) /\ head \in Nat
      BY DEF SpscInv, Spsc!TypeOK, SpscIndices
    <3>2. /\ tail' = tail + 1 /\ head' = head /\ slots' = slots /\ producing' = "idle"
          /\ sent' = Append(sent, item)
      BY <1>5 DEF Spsc!Publish, Spsc!consumer
    <3>3. ASSUME NEW k \in Nat, head <= k, k < tail + 1  PROVE slots[Spsc!Slot(k)] = sent'[k + 1]
      <4>1. CASE k = tail
        BY <1>5, <3>1, <3>2, <4>1, <2>1 DEF SpscInv, SpscContents, Spsc!Publish
      <4>2. CASE k < tail
        BY <3>1, <3>2, <3>3, <4>2, <2>1 DEF SpscInv, SpscContents
      <4> QED BY <3>1, <3>3, <4>1, <4>2
    <3> QED BY <3>1, <3>2, <3>3 DEF SpscContents
  <2> QED BY <2>2, <2>3 DEF SpscInv
<1> QED BY <1>1, <1>2, <1>3, <1>4, <1>5 DEF Spsc!Produce

(* tryPop and tryConsume keep the invariant, access by access.             *)
LEMMA SpscConsumerKeepsInv == SpscInv /\ Spsc!Consume => SpscInv'
<1> SUFFICES ASSUME SpscInv, Spsc!Consume  PROVE SpscInv'
  OBVIOUS
<1>0. Capacity \in Nat \ {0}  BY DEF SpscInv, Spsc!RingSizeOK
<1> USE <1>0
<1>1. CASE Spsc!BeginConsume
  BY <1>1
     DEF SpscInv, Spsc!TypeOK, SpscIndices, SpscContents, Spsc!FirstInFirstOut,
         Spsc!BeginConsume, Spsc!LooksEmpty, Spsc!producer
<1>2. CASE Spsc!RefreshTail
  BY <1>2
     DEF SpscInv, Spsc!TypeOK, SpscIndices, SpscContents, Spsc!FirstInFirstOut, Spsc!RefreshTail,
         Spsc!LooksEmpty, Spsc!producer
<1>3. CASE Spsc!HasWork
  BY <1>3
     DEF SpscInv, Spsc!TypeOK, SpscIndices, SpscContents, Spsc!FirstInFirstOut, Spsc!HasWork,
         Spsc!LooksEmpty, Spsc!producer
<1>4. CASE Spsc!Use
  <2>1. head \in Nat /\ head < tail /\ Len(received) = head /\ Len(sent) = tail
    BY <1>4 DEF Spsc!Use, SpscInv, Spsc!TypeOK, SpscIndices
  <2>2. slots[Spsc!Slot(head)] = sent[head + 1]  BY <2>1 DEF SpscInv, SpscContents
  <2>3. sent[head + 1] \in Value  BY <2>1 DEF SpscInv, Spsc!TypeOK
  <2>4. received' = Append(received, sent[head + 1])  BY <1>4, <2>2 DEF Spsc!Use
  <2>5. Spsc!TypeOK' /\ SpscContents'
    BY <1>4, <2>1, <2>3, <2>4 DEF Spsc!Use, SpscInv, Spsc!TypeOK, SpscContents, Spsc!producer
  <2>7. SpscIndices'
    <3>1. Len(received') = head + 1  BY <2>1, <2>3, <2>4 DEF SpscInv, Spsc!TypeOK
    <3> QED BY <1>4, <2>1, <3>1 DEF Spsc!Use, SpscInv, SpscIndices, Spsc!producer
  <2>6. Spsc!FirstInFirstOut'
    BY <1>4, <2>1, <2>4 DEF Spsc!Use, SpscInv, Spsc!TypeOK, Spsc!FirstInFirstOut, Spsc!producer
  <2> QED BY <2>5, <2>6, <2>7 DEF SpscInv, Spsc!RingSizeOK
<1>5. CASE Spsc!Retire
  <2>1. /\ head' = head + 1 /\ consuming = "retire" /\ consuming' = "idle"
        /\ UNCHANGED <<slots, tail, cachedHead, producing, item, sent, cachedTail, received>>
    BY <1>5 DEF Spsc!Retire, Spsc!producer
  <2>2. Spsc!TypeOK' /\ Spsc!FirstInFirstOut'
    BY <2>1 DEF SpscInv, Spsc!TypeOK, Spsc!FirstInFirstOut
  <2>3. head \in Nat /\ head < cachedTail /\ cachedTail \in Nat /\ cachedHead \in Nat
    BY <2>1 DEF SpscInv, Spsc!TypeOK, SpscIndices
  <2>4. SpscIndices'
    BY <2>1, <2>3 DEF SpscInv, SpscIndices
  <2>5. SpscContents'
    BY <2>1, <2>3 DEF SpscInv, SpscContents, Spsc!Slot
  <2> QED BY <2>2, <2>4, <2>5 DEF SpscInv, Spsc!RingSizeOK
<1> QED BY <1>1, <1>2, <1>3, <1>4, <1>5 DEF Spsc!Consume

(* Every ring is at least two cells large, as the constructors round up.   *)
LEMMA RingSizes == Spsc!RingSizeOK /\ MpscProofs!RingSizeOK
BY SizeAssumption DEF Spsc!RingSizeOK, MpscProofs!RingSizeOK

(* The strengthened invariant: index bounds, slot contents and order hold  *)
(* in every state the ring can reach.                                      *)
LEMMA SpscInvHolds == Spec => []SpscInv
<1>1. Init => SpscInv
  BY RingSizes, SpscInitInv DEF Init
<1>2. SpscInv /\ UNCHANGED spsc => SpscInv'
  BY DEF spsc, SpscInv, Spsc!TypeOK, SpscIndices, SpscContents, Spsc!FirstInFirstOut, Spsc!Slot
<1>3. SpscInv /\ [Next]_vars => SpscInv'
  BY <1>2, StepOfEach, SpscProducerKeepsInv, SpscConsumerKeepsInv DEF Spsc!Next
<1> QED BY <1>1, <1>3, PTL DEF Spec

(* A slot is never written while the consumer reads it in place.           *)
LEMMA SpscExclusive == SpscInv => Spsc!NoOverwriteWhileRead
<1> SUFFICES ASSUME SpscInv, consuming = "use", producing \in {"fill", "filling"}
             PROVE  Spsc!Slot(tail) # Spsc!Slot(head)
  BY DEF Spsc!NoOverwriteWhileRead
<1>1. /\ head \in Nat /\ tail \in Nat /\ cachedHead \in Nat /\ cachedTail \in Nat
      /\ head < tail /\ tail - head < Capacity
  BY DEF SpscInv, Spsc!RingSizeOK, Spsc!TypeOK, SpscIndices
<1>2. Spsc!RingSizeOK
  BY DEF SpscInv
<1> QED BY <1>1, <1>2, SlotsDistinct

(* One step of the single-producer ring is one of the queue: publishing an *)
(* index puts its value, retiring a slot takes the first.                  *)
LEMMA SpscStepOfQueue ==
    ASSUME SpscInv, [Spsc!Next]_spsc
    PROVE  [SpscQueue!Next]_(Spsc!queued)
<1>1. /\ Capacity \in Nat /\ head \in Nat /\ tail \in Nat /\ cachedHead \in Nat
      /\ sent \in Seq(Value) /\ Len(sent) = tail /\ head <= tail /\ cachedHead <= head
  <2>1. Capacity \in Nat  BY DEF SpscInv, Spsc!RingSizeOK
  <2>2. head \in Nat /\ tail \in Nat /\ cachedHead \in Nat /\ cachedTail \in Nat /\ sent \in Seq(Value)
    BY DEF SpscInv, Spsc!TypeOK
  <2> QED BY <2>1, <2>2 DEF SpscInv, SpscIndices
<1>2. CASE Spsc!Publish
  <2>1. Spsc!queued' = Append(Spsc!queued, item) /\ item \in Value
    BY <1>1, <1>2, MpscProofs!PutExtends
       DEF Spsc!Publish, Spsc!queued, Spsc!consumer, SpscInv, SpscContents
  <2>2. Len(Spsc!queued) < Capacity
    BY <1>1, <1>2 DEF Spsc!queued, SpscInv, SpscIndices, Spsc!Publish
  <2> QED BY <2>1, <2>2 DEF SpscQueue!Next, SpscQueue!Put
<1>3. CASE Spsc!Retire
  <2>1. head < tail  BY <1>1, <1>3 DEF Spsc!Retire, SpscInv, SpscIndices, Spsc!TypeOK
  <2>2. Spsc!queued # <<>> /\ Spsc!queued' = Tail(Spsc!queued)
    <3>1. head' = head + 1 /\ tail' = tail /\ sent' = sent  BY <1>3 DEF Spsc!Retire, Spsc!producer
    <3>2. Spsc!queued' = SubSeq(sent, head + 2, Len(sent))
      <4>1. head + 1 + 1 = head + 2  BY <1>1
      <4> QED BY <1>1, <3>1, <4>1 DEF Spsc!queued
    <3>3. Spsc!queued = SubSeq(sent, head + 1, Len(sent))  BY <1>1 DEF Spsc!queued
    <3> QED BY <1>1, <2>1, <3>2, <3>3, MpscProofs!TakeDropsFirst
  <2> QED BY <2>2 DEF SpscQueue!Next, SpscQueue!Take
<1>4. CASE UNCHANGED <<sent, head, tail>>
  BY <1>4 DEF Spsc!queued
<1>5. Spsc!Publish \/ Spsc!Retire \/ UNCHANGED <<sent, head, tail>>
  BY DEF Spsc!Next, Spsc!Produce, Spsc!Consume, Spsc!BeginProduce, Spsc!RefreshHead,
         Spsc!StartFill, Spsc!EndFill,
              Spsc!BeginConsume, Spsc!RefreshTail, Spsc!HasWork, Spsc!Use, Spsc!producer, Spsc!consumer, spsc
<1> QED BY <1>2, <1>3, <1>4, <1>5

-----------------------------------------------------------------------------
(* The two rings together.                                                 *)
(* What MCHandoff does to the multi-producer ring is a run of that ring.   *)
LEMMA MpscRuns == Spec => MpscProofs!Spec
<1>1. Init => MpscProofs!Init
  BY DEF Init, Mpsc!Init, MpscProofs!Init, Mpsc!Cell, MpscProofs!Cell
<1>2. Mpsc!Next <=> MpscProofs!Next
  BY DEF Mpsc!cells, Mpsc!local, Mpsc!consumer, Mpsc!vars, Mpsc!CellOf,
         Mpsc!SeqsSoFar, Mpsc!Goto, Mpsc!LoadPos, Mpsc!BeginProduce,
         Mpsc!LoadSeq, Mpsc!TakePosition, Mpsc!Claim, Mpsc!ClaimFails,
         Mpsc!StartFill, Mpsc!EndFill, Mpsc!Publish, Mpsc!Published,
         Mpsc!LookForWork, Mpsc!Use, Mpsc!Recycle, Mpsc!Produce, Mpsc!Consume,
         Mpsc!Next, Mpsc!Cell, MpscProofs!cells, MpscProofs!local,
         MpscProofs!consumer, MpscProofs!vars, MpscProofs!CellOf,
         MpscProofs!SeqsSoFar, MpscProofs!Goto, MpscProofs!LoadPos,
         MpscProofs!BeginProduce, MpscProofs!LoadSeq, MpscProofs!TakePosition,
         MpscProofs!Claim, MpscProofs!ClaimFails, MpscProofs!StartFill,
         MpscProofs!EndFill, MpscProofs!Publish, MpscProofs!Published,
         MpscProofs!LookForWork, MpscProofs!Use, MpscProofs!Recycle,
         MpscProofs!Produce, MpscProofs!Consume, MpscProofs!Next,
         MpscProofs!Cell
<1>3. UNCHANGED mpsc => UNCHANGED MpscProofs!vars
  BY DEF mpsc, MpscProofs!vars, MpscProofs!cells, MpscProofs!local, MpscProofs!consumer
<1>4. [Next]_vars => [MpscProofs!Next]_MpscProofs!vars
  BY <1>2, <1>3, StepOfEach
<1> QED BY <1>1, <1>4, PTL DEF Spec, MpscProofs!Spec

(* tryPop and tryConsume of both rings return what was pushed, in order.   *)
THEOREM FirstInFirstOutHolds == Spec => []FirstInFirstOut
<1>1. SpscInv => Spsc!FirstInFirstOut
  BY DEF SpscInv
<1>2. MpscProofs!Spec => []MpscProofs!FirstInFirstOut
  BY RingSizes, MpscProofs!FirstInFirstOutHolds
<1>3. Spsc!FirstInFirstOut /\ MpscProofs!FirstInFirstOut => FirstInFirstOut
  BY DEF FirstInFirstOut, MpscProofs!FirstInFirstOut, Mpsc!FirstInFirstOut
<1> QED BY <1>1, <1>2, <1>3, SpscInvHolds, MpscRuns, PTL

(* No slot or cell is written while it is read in place, nor by two        *)
(* producers.                                                              *)
THEOREM ExclusiveSlotsHold == Spec => []ExclusiveSlots
<1>1. SpscInv => Spsc!NoOverwriteWhileRead
  BY SpscExclusive
<1>2. MpscProofs!Spec => []MpscProofs!ExclusiveCells
  BY RingSizes, MpscProofs!ExclusiveCellsHold
<1>3. Spsc!NoOverwriteWhileRead /\ MpscProofs!ExclusiveCells => ExclusiveSlots
  BY DEF ExclusiveSlots, MpscProofs!ExclusiveCells, Mpsc!ExclusiveCells, Mpsc!CellOf,
         MpscProofs!CellOf, Mpsc!Owns, MpscProofs!Owns
<1> QED BY <1>1, <1>2, <1>3, SpscInvHolds, MpscRuns, PTL

(* One step of the multi-producer ring is one of the queue: the claim of a *)
(* position puts its value, the recycling of a cell takes the first.       *)
LEMMA MpscStepOfQueue ==
    ASSUME MpscProofs!IInv, [MpscProofs!Next]_MpscProofs!vars
    PROVE  [MpscQueue!Next]_(Mpsc!queued)
<1>1. /\ Capacity \in Nat /\ dequeuePos \in Nat /\ enqueuePos \in Nat /\ claimed \in Seq(Value)
      /\ Len(claimed) = enqueuePos /\ dequeuePos <= enqueuePos
  BY DEF MpscProofs!IInv, MpscProofs!RingSizeOK, MpscProofs!TypeOK, MpscProofs!Positions
<1>2. Mpsc!queued = SubSeq(claimed, dequeuePos + 1, Len(claimed))
  BY <1>1 DEF Mpsc!queued
<1>3. CASE UNCHANGED <<claimed, enqueuePos, dequeuePos>>
  BY <1>3 DEF Mpsc!queued
<1>4. ASSUME NEW v \in Value, claimed' = Append(claimed, v), enqueuePos' = enqueuePos + 1,
             UNCHANGED dequeuePos, enqueuePos < dequeuePos + Capacity
      PROVE  MpscQueue!Put(v)
  <2>1. Mpsc!queued' = SubSeq(Append(claimed, v), dequeuePos + 1, Len(claimed) + 1)
    BY <1>1, <1>4 DEF Mpsc!queued
  <2>2. SubSeq(Append(claimed, v), dequeuePos + 1, Len(claimed) + 1)
          = Append(SubSeq(claimed, dequeuePos + 1, Len(claimed)), v)
    BY <1>1, MpscProofs!PutExtends
  <2>3. Len(Mpsc!queued) < Capacity
    BY <1>1, <1>4 DEF Mpsc!queued
  <2> QED BY <1>2, <2>1, <2>2, <2>3 DEF MpscQueue!Put
<1>5. ASSUME dequeuePos' = dequeuePos + 1, dequeuePos < enqueuePos, UNCHANGED <<claimed, enqueuePos>>
      PROVE  MpscQueue!Take
  <2>1. Mpsc!queued' = SubSeq(claimed, dequeuePos + 2, Len(claimed))
    <3>1. dequeuePos + 1 + 1 = dequeuePos + 2  BY <1>1
    <3> QED BY <1>1, <1>5, <3>1 DEF Mpsc!queued
  <2>2. /\ SubSeq(claimed, dequeuePos + 1, Len(claimed)) # <<>>
        /\ SubSeq(claimed, dequeuePos + 2, Len(claimed)) = Tail(SubSeq(claimed, dequeuePos + 1, Len(claimed)))
    BY <1>1, <1>5, MpscProofs!TakeDropsFirst
  <2> QED BY <1>2, <2>1, <2>2 DEF MpscQueue!Take
<1>6. \/ UNCHANGED <<claimed, enqueuePos, dequeuePos>>
      \/ \E v \in Value :
           /\ claimed' = Append(claimed, v) /\ enqueuePos' = enqueuePos + 1
           /\ UNCHANGED dequeuePos /\ enqueuePos < dequeuePos + Capacity
      \/ /\ dequeuePos' = dequeuePos + 1 /\ dequeuePos < enqueuePos
         /\ UNCHANGED <<claimed, enqueuePos>>
  BY MpscProofs!QueueStep
<1> QED BY <1>3, <1>4, <1>5, <1>6 DEF MpscQueue!Next

(* Both rings implement the bounded queue their users count on.            *)
THEOREM RingsImplementQueue == Spec => ImplementsQueue
<1>1. Init => SpscQueue!Init
  BY DEF Init, Spsc!Init, SpscQueue!Init, Spsc!queued
<1>2. SpscInv /\ [Next]_vars => [SpscQueue!Next]_(Spsc!queued)
  BY StepOfEach, SpscStepOfQueue
<1>4. Spec => SpscQueue!Spec
  BY <1>1, <1>2, SpscInvHolds, PTL DEF Spec, SpscQueue!Spec
<1>5. MpscProofs!Spec => []MpscProofs!IInv
  BY RingSizes, MpscProofs!RingInvHolds
<1>6. MpscProofs!Init => MpscQueue!Init
  BY DEF MpscProofs!Init, MpscQueue!Init, Mpsc!queued
<1>7. MpscProofs!Spec => MpscQueue!Spec
  BY <1>5, <1>6, MpscStepOfQueue, PTL DEF MpscProofs!Spec, MpscQueue!Spec
<1> QED BY <1>4, <1>7, MpscRuns, PTL DEF ImplementsQueue
=============================================================================
