----------------------------- MODULE MCHandoff ------------------------------
(***************************************************************************)
(* The threads of a node (src/src/runtime) for TLC: the structures they    *)
(* hand work over with, and the threads themselves.  The initial state     *)
(* chooses the one that moves.                                             *)
(***************************************************************************)
EXTENDS Integers, Sequences

CONSTANTS Producer, Value, Torn, Capacity, SpscItems, MpscItems, GateItems,
    Proposer, Rx, InboundSize, ApplySize, TxSize, MaxDrain, MaxFrames, MaxCommit

ASSUME SizeAssumption == Capacity \in Nat \ {0, 1} /\ Torn \notin Value

VARIABLES structure,
    slots, tail, cachedHead, producing, item, head, cachedTail, consuming, sent, received,
    seq, value, enqueuePos, dequeuePos, mProducing, pos, mItem, mConsuming, claimed, mReceived,
    published, announced, notifying, consumed, seen, gConsuming, waiters, moved, mutex, mutexKnows,
    inbound, applyRing, raftTx, applyTx, pc, drained, commitIndex, lastApplied, applied,
    nProducing, outcome, frames, stopping

Spsc == INSTANCE SpscRing WITH MaxItems <- SpscItems
Mpsc == INSTANCE MpscRing WITH MaxItems <- MpscItems, producing <- mProducing, item <- mItem,
                               consuming <- mConsuming, received <- mReceived
Gate == INSTANCE WakeGate WITH MaxItems <- GateItems, consuming <- gConsuming
Node == INSTANCE NodeRuntime WITH producing <- nProducing

spsc == <<slots, tail, cachedHead, producing, item, head, cachedTail, consuming, sent, received>>
mpsc == <<seq, value, enqueuePos, dequeuePos, mProducing, pos, mItem, mConsuming, claimed, mReceived>>
gate == <<published, announced, notifying, consumed, seen, gConsuming, waiters, moved, mutex, mutexKnows>>
node == <<inbound, applyRing, raftTx, applyTx, pc, drained, commitIndex, lastApplied, applied,
          nProducing, outcome, frames, stopping>>
vars == <<structure, spsc, mpsc, gate, node>>

Init ==
    /\ structure \in {"spsc", "mpsc", "gate", "node"}
    /\ Spsc!Init /\ Mpsc!Init /\ Gate!Init /\ Node!Init

SpscStep == structure = "spsc" /\ Spsc!Next /\ UNCHANGED <<mpsc, gate, node>>
MpscStep == structure = "mpsc" /\ Mpsc!Next /\ UNCHANGED <<spsc, gate, node>>
GateStep == structure = "gate" /\ Gate!Next /\ UNCHANGED <<spsc, mpsc, node>>
NodeStep == structure = "node" /\ Node!Next /\ UNCHANGED <<spsc, mpsc, gate>>

NodeStopped ==
    /\ structure = "node" /\ (stopping = "done" \/ (stopping = "apply" /\ pc["apply"] = "stuck"))
    /\ UNCHANGED <<spsc, mpsc, gate, node>>

Next == (SpscStep \/ MpscStep \/ GateStep \/ NodeStep \/ NodeStopped) /\ UNCHANGED structure

(* The fairness of WakeGate and of NodeRuntime, each when it is chosen.    *)
OfGate(A) == structure = "gate" /\ A /\ UNCHANGED <<structure, spsc, mpsc, node>>
OfNode(A) == structure = "node" /\ A /\ UNCHANGED <<structure, spsc, mpsc, gate>>
Fairness ==
    /\ WF_vars(OfGate(Gate!Wait))
    /\ \A p \in Producer :
        WF_vars(OfGate(Gate!Bump(p))) /\ SF_vars(OfGate(Gate!Wake(p))) /\ WF_vars(OfGate(Gate!Consume(p)))
    /\ WF_vars(OfNode(Node!RaftThread)) /\ WF_vars(OfNode(Node!ApplyThread))
    /\ WF_vars(OfNode(Node!TxThread)) /\ WF_vars(OfNode(Node!StopGoesOn))
    /\ \A p \in Node!Pusher : WF_vars(OfNode(Node!Push(p)))

Spec == Init /\ [][Next]_vars /\ Fairness

(* tryPop and tryConsume of both rings return what was pushed, in order:   *)
(* nothing lost, repeated, torn or overtaken, however stale the loads.     *)
FirstInFirstOut == Spsc!FirstInFirstOut /\ Mpsc!FirstInFirstOut

(* A slot or cell is never written while it is read in place, nor by two   *)
(* producers.                                                              *)
ExclusiveSlots == Spsc!NoOverwriteWhileRead /\ Mpsc!ExclusiveCells

(* Both rings implement the bounded queue their users count on.            *)
SpscQueue == INSTANCE BoundedQueue WITH queue <- Spsc!queued
MpscQueue == INSTANCE BoundedQueue WITH queue <- Mpsc!queued
ImplementsQueue == SpscQueue!Spec /\ MpscQueue!Spec

(* A consumer asleep in waitUntil() while a ring holds work has a producer *)
(* inside notify() that will wake it.                                      *)
NoLostWakeup == Gate!NoLostWakeup

(* Every item is consumed although no wait ever times out.                 *)
EveryItemConsumed == Gate!EveryItemConsumed

(* Committed entries reach the state machine once each, in index order.    *)
AppliedOnceInOrder == Node!AppliedOnceInOrder

(* The Raft thread never waits for the state machine.                      *)
RaftNeverStalls == Node!RaftNeverStalls

(* The state machine catches up, with no timer to re-offer an entry.       *)
CommittedIsApplied == Node!CommittedIsApplied

(* stop() returns, and leaves nothing between the threads.                 *)
StopDrains == Node!StopDrains
=============================================================================
