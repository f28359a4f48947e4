---------------------------- MODULE NodeRuntime -----------------------------
(***************************************************************************)
(* NodeRuntime (src/src/runtime/node_runtime.cpp): the Raft, apply and tx  *)
(* threads of a node, the rings between them, the threads that feed the    *)
(* inbound ring, and stop().  The rings and the gates are the ones of      *)
(* SpscRing, MpscRing and WakeGate, used through what those modules show:  *)
(* a ring is a bounded queue, and a notify() after a thread last looked    *)
(* for work wakes it.  No timer ever fires here: nothing may rest on one.  *)
(***************************************************************************)
EXTENDS Integers, Sequences

CONSTANTS
    Proposer,       \* threads that call propose()
    Rx,             \* the transport's thread, which calls enqueueFrame()
    InboundSize, ApplySize, TxSize,     \* capacities of the rings
    MaxDrain,       \* kMaxDrainPerTick
    MaxFrames,      \* bound: frames received
    MaxCommit       \* bound: entries committed

Pusher == Proposer \cup {Rx}
Thread == {"raft", "apply", "tx"}

VARIABLES
    inbound, applyRing, raftTx, applyTx,    \* the rings; of a tx ring, its length
    pc,             \* where each thread is
    drained,        \* events taken in this iteration of the Raft loop
    commitIndex, lastApplied,               \* RaftCore's
    applied,        \* what the state machine applied, in order
    producing,      \* where each producer is
    outcome,        \* history: what done() was called with
    frames, stopping                        \* stop(): the thread it joins next

rings == <<inbound, applyRing, raftTx, applyTx>>
core == <<commitIndex, lastApplied, applied>>
feed == <<producing, outcome, frames>>
vars == <<rings, pc, drained, core, feed, stopping>>

Init ==
    /\ inbound = <<>> /\ applyRing = <<>> /\ raftTx = 0 /\ applyTx = 0
    /\ pc = [t \in Thread |-> "run"] /\ drained = 0
    /\ commitIndex = 0 /\ lastApplied = 0 /\ applied = <<>>
    /\ producing = [p \in Pusher |-> "idle"] /\ outcome = [p \in Proposer |-> "none"]
    /\ frames = 0 /\ stopping = "no"

StopFlag(t) ==
    CASE t = "raft" -> stopping # "no"
      [] t = "apply" -> stopping \in {"apply", "tx", "done"}
      [] t = "tx" -> stopping \in {"tx", "done"}

(* notify() wakes a thread that has parked; one that has not will look for *)
(* work once more before it does.                                          *)
Goto(t, label) == pc' = [pc EXCEPT ![t] = label]
Woken(at, t) == [at EXCEPT ![t] = IF @ = "parked" THEN "run" ELSE @]

-----------------------------------------------------------------------------
(* enqueue, enqueueFrame and propose: look at the stop flag, ...           *)
BeginPropose(p) ==
    /\ producing[p] = "idle" /\ outcome[p] = "none"
    /\ IF StopFlag("raft")
       THEN outcome' = [outcome EXCEPT ![p] = "nullopt"] /\ UNCHANGED producing
       ELSE producing' = [producing EXCEPT ![p] = "push"] /\ UNCHANGED outcome
    /\ UNCHANGED <<rings, pc, drained, core, frames, stopping>>

BeginFrame ==
    /\ producing[Rx] = "idle" /\ frames < MaxFrames /\ ~StopFlag("raft")
    /\ producing' = [producing EXCEPT ![Rx] = "push"] /\ frames' = frames + 1
    /\ UNCHANGED <<rings, pc, drained, core, outcome, stopping>>

(* ... then push; a full ring drops a frame and fails a proposal.          *)
PushEvent(p, event) ==
    /\ producing[p] = "push"
    /\ producing' = [producing EXCEPT ![p] = "idle"]
    /\ IF Len(inbound) < InboundSize
       THEN /\ inbound' = Append(inbound, event) /\ pc' = Woken(pc, "raft")
            /\ outcome' = IF p = Rx THEN outcome ELSE [outcome EXCEPT ![p] = "queued"]
       ELSE /\ outcome' = IF p = Rx THEN outcome ELSE [outcome EXCEPT ![p] = "nullopt"]
            /\ UNCHANGED <<inbound, pc>>
    /\ UNCHANGED <<applyRing, raftTx, applyTx, drained, core, frames, stopping>>

Push(p) ==
    IF p = Rx THEN \E valid \in BOOLEAN : PushEvent(p, [from |-> p, valid |-> valid])
    ELSE PushEvent(p, [from |-> p, valid |-> TRUE])

-----------------------------------------------------------------------------
(* sendFromPipeline: a full tx ring drops the message.                     *)
Sent(ring) == IF ring < TxSize THEN ring + 1 ELSE ring
Notified(ring) == IF ring < TxSize THEN Woken(pc, "tx") ELSE pc

(* raftLoop takes an event: RaftCore may commit an entry and send, and     *)
(* done() is called for a proposal; then it offers what is committed.      *)
TakeEvent ==
    LET e == Head(inbound)
    IN  /\ pc["raft"] = "drain" /\ inbound # <<>> /\ drained < MaxDrain
        /\ inbound' = Tail(inbound) /\ drained' = drained + 1
        /\ outcome' = IF e.from = Rx THEN outcome ELSE [outcome EXCEPT ![e.from] = "called"]
        /\ \/ ~e.valid /\ UNCHANGED <<commitIndex, raftTx, pc>>
           \/ /\ e.valid
              /\ commitIndex' \in {commitIndex, commitIndex + 1} /\ commitIndex' <= MaxCommit
              /\ raftTx' = Sent(raftTx)
              /\ pc' = [Notified(raftTx) EXCEPT !["raft"] = "offer"]
        /\ UNCHANGED <<applyRing, applyTx, lastApplied, applied, producing, frames, stopping>>

(* The inbound ring is empty, or the drain is capped: tick and pumpApply.  *)
EndDrain ==
    /\ pc["raft"] = "drain" /\ (inbound = <<>> \/ drained = MaxDrain)
    /\ Goto("raft", "pump")
    /\ UNCHANGED <<rings, drained, core, feed, stopping>>

OfferLossy(from, to) ==                                              \* mutant
    LET next == lastApplied + 1
        room == Len(applyRing) < ApplySize
        pending == next <= commitIndex
        woken == IF pending THEN Woken(pc, "apply") ELSE pc
    IN  /\ pc["raft"] = from
        /\ IF pending /\ room
           THEN applyRing' = Append(applyRing, next) /\ lastApplied' = next /\ pc' = woken
           ELSE /\ pc' = [woken EXCEPT !["raft"] = to] /\ UNCHANGED applyRing
                /\ lastApplied' = IF pending THEN next ELSE lastApplied
        /\ UNCHANGED <<inbound, raftTx, applyTx, drained, commitIndex, applied, feed, stopping>>

OfferBlocking(from, to) ==                                           \* mutant
    LET next == lastApplied + 1
        room == Len(applyRing) < ApplySize
        pending == next <= commitIndex
        woken == IF pending THEN Woken(pc, "apply") ELSE pc
    IN  /\ pc["raft"] = from
        /\ IF pending
           THEN room /\ applyRing' = Append(applyRing, next) /\ lastApplied' = next /\ pc' = woken
           ELSE pc' = [woken EXCEPT !["raft"] = to] /\ UNCHANGED <<applyRing, lastApplied>>
        /\ UNCHANGED <<inbound, raftTx, applyTx, drained, commitIndex, applied, feed, stopping>>

(* The apply sink, again and again: hand over the next committed entry, or *)
(* refuse; refused or done, the Raft thread goes on.                       *)
Offer(from, to) ==
    LET next == lastApplied + 1
        room == Len(applyRing) < ApplySize
        pending == next <= commitIndex
        woken == IF pending THEN Woken(pc, "apply") ELSE pc
    IN  /\ pc["raft"] = from
        /\ IF pending /\ room
           THEN applyRing' = Append(applyRing, next) /\ lastApplied' = next /\ pc' = woken
           ELSE pc' = [woken EXCEPT !["raft"] = to] /\ UNCHANGED <<applyRing, lastApplied>>
        /\ UNCHANGED <<inbound, raftTx, applyTx, drained, commitIndex, applied, feed, stopping>>

EndIterationParked ==                                                \* mutant
    /\ pc["raft"] = "run" /\ drained' = 0
    /\ Goto("raft", IF StopFlag("raft") THEN "exited"
                    ELSE IF drained > 0 \/ inbound # <<>> THEN "drain"
                    ELSE "parked")
    /\ UNCHANGED <<rings, core, feed, stopping>>

(* Between two iterations: stop; go on after work, and poll while entries  *)
(* wait for the apply ring; otherwise look once more and park.             *)
EndIteration ==
    /\ pc["raft"] = "run" /\ drained' = 0
    /\ Goto("raft", IF StopFlag("raft") THEN "exited"
                    ELSE IF drained > 0 \/ commitIndex > lastApplied \/ inbound # <<>> THEN "drain"
                    ELSE "parked")
    /\ UNCHANGED <<rings, core, feed, stopping>>

RaftThread ==
    TakeEvent \/ EndDrain \/ Offer("offer", "drain") \/ Offer("pump", "run") \/ EndIteration

-----------------------------------------------------------------------------
(* applyLoop: apply the entry where it lies, answer, free its slot.  The   *)
(* state machine's apply() may also never return.                          *)
UseEntry ==
    /\ pc["apply"] = "run" /\ applyRing # <<>>
    /\ \/ /\ applied' = Append(applied, Head(applyRing))
          /\ applyTx' = Sent(applyTx)
          /\ pc' = [Notified(applyTx) EXCEPT !["apply"] = "free"]
       \/ Goto("apply", "stuck") /\ UNCHANGED <<applied, applyTx>>
    /\ UNCHANGED <<inbound, applyRing, raftTx, drained, commitIndex, lastApplied, feed, stopping>>

FreeEntry ==
    /\ pc["apply"] = "free"
    /\ applyRing' = Tail(applyRing)
    /\ Goto("apply", "run")
    /\ UNCHANGED <<inbound, raftTx, applyTx, drained, core, feed, stopping>>

IdleEager(t) ==                                                      \* mutant
    /\ pc[t] = "run"
    /\ StopFlag(t) \/ IF t = "apply" THEN applyRing = <<>> ELSE raftTx = 0 /\ applyTx = 0
    /\ Goto(t, IF StopFlag(t) THEN "exited" ELSE "parked")
    /\ UNCHANGED <<rings, drained, core, feed, stopping>>

(* The apply and tx loops with nothing to do: exit if told to, or park.    *)
Idle(t) ==
    /\ pc[t] = "run"
    /\ IF t = "apply" THEN applyRing = <<>> ELSE raftTx = 0 /\ applyTx = 0
    /\ Goto(t, IF StopFlag(t) THEN "exited" ELSE "parked")
    /\ UNCHANGED <<rings, drained, core, feed, stopping>>

ApplyThread == UseEntry \/ FreeEntry \/ Idle("apply")

(* txLoop: all of the Raft thread's messages, then all of the replies.     *)
SendFrame ==
    /\ \/ /\ pc["tx"] = "run" /\ raftTx > 0
          /\ raftTx' = raftTx - 1 /\ UNCHANGED <<applyTx, pc>>
       \/ /\ pc["tx"] = "replies" \/ (pc["tx"] = "run" /\ raftTx = 0 /\ applyTx > 0)
          /\ IF applyTx > 0 THEN applyTx' = applyTx - 1 /\ Goto("tx", "replies")
             ELSE Goto("tx", "run") /\ UNCHANGED applyTx
          /\ UNCHANGED raftTx
    /\ UNCHANGED <<inbound, applyRing, drained, core, feed, stopping>>

TxThread == SendFrame \/ Idle("tx")

-----------------------------------------------------------------------------
(* stop(): set a flag, notify the thread, join it, and on to the next.     *)
NextStop == [no |-> "raft", raft |-> "apply", apply |-> "tx", tx |-> "done"]

Stop ==
    /\ stopping # "done"
    /\ stopping # "no" => pc[stopping] = "exited"
    /\ stopping' = NextStop[stopping]
    /\ pc' = IF stopping' = "done" THEN pc ELSE Woken(pc, stopping')
    /\ UNCHANGED <<rings, drained, core, feed>>

Next ==
    \/ \E p \in Proposer : BeginPropose(p)
    \/ BeginFrame
    \/ \E p \in Pusher : Push(p)
    \/ RaftThread \/ ApplyThread \/ TxThread \/ Stop

(* Threads run, and stop() and propose() go on once begun.                 *)
StopGoesOn == stopping # "no" /\ Stop
Fairness ==
    /\ WF_vars(RaftThread) /\ WF_vars(ApplyThread) /\ WF_vars(TxThread)
    /\ WF_vars(StopGoesOn)
    /\ \A p \in Pusher : WF_vars(Push(p))

Spec == Init /\ [][Next]_vars /\ Fairness

-----------------------------------------------------------------------------
(* Committed entries reach the state machine once each and in index order, *)
(* however often the apply sink refused one and was offered it again.      *)
AppliedOnceInOrder ==
    /\ applied = [i \in 1..Len(applied) |-> i]
    /\ Len(applied) <= lastApplied /\ lastApplied <= commitIndex

(* When stop() returns nothing is left between the threads: what the Raft  *)
(* thread handed over was applied, and what either queued was sent.        *)
NothingLeft ==
    stopping = "done" => /\ applyRing = <<>> /\ Len(applied) = lastApplied
                         /\ raftTx = 0 /\ applyTx = 0

(* stop() returns, if the state machine keeps going, and leaves nothing.   *)
StopDrains ==
    stopping # "no" ~> pc["apply"] = "stuck" \/ (stopping = "done" /\ NothingLeft)

(* The Raft thread never waits for the state machine: a queued event is    *)
(* handled, and its proposer called, though apply() never returns.         *)
RaftNeverStalls ==
    \A p \in Proposer : outcome[p] = "queued" ~> (outcome[p] = "called" \/ stopping # "no")

(* The state machine catches up with the commit index again and again,     *)
(* with no timer to re-offer what the apply ring refused, unless apply()   *)
(* never returns or the node is stopped.                                   *)
CommittedIsApplied ==
    []<>(Len(applied) = commitIndex \/ pc["apply"] = "stuck" \/ stopping # "no")
=============================================================================
