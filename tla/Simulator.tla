----------------------------- MODULE Simulator ------------------------------
(***************************************************************************)
(* The chaos simulator: the fault schedule (src/faults/fault_schedule.cpp),*)
(* the network (sim_network.cpp), the nodes that come and go               *)
(* (sim_harness.cpp) and the loop that drives them (chaos.cpp).  A random  *)
(* draw is a choice; what a node or a client decides to send is a choice   *)
(* too, since their own code is modelled elsewhere.  Time is in the units  *)
(* of the bounds below.                                                    *)
(***************************************************************************)
EXTENDS Integers, Sequences, FiniteSets, FiniteSetsExt, SequencesExt

CONSTANTS
    Node,           \* the cluster, 1..n
    Endpoint,       \* the clients' endpoints
    FaultEnd, MaxTime,      \* faultEndMs and maxMs
    FirstFault, Gap, Down,  \* bounds: times of the first fault, between two, until a node is back
    Latency, Extra, \* bounds: the slowest latencies and reorder delays chosen
    Quiet, Settle,  \* latency after healing, 3 in the code, and time to settle, 2000
    MaxSends        \* bound: messages sent

Connected == <<>>                   \* groupOf_ of a network without partition
Network0 == [groupOf |-> Connected, drop |-> FALSE, latencyMin |-> 1, latencyMax |-> 1, extraMax |-> 0]

VARIABLES
    pc, now, events, draw,  \* the loop, its clock, the schedule, the generator's clock
    nextEvent, healed,
    alive, net, queue, sent,
    heard                   \* the messages received in this millisecond

vars == <<pc, now, events, draw, nextEvent, healed, alive, net, queue, sent, heard>>

Init ==
    /\ pc = "generate" /\ now = 0 /\ events = <<>> /\ draw \in FirstFault
    /\ nextEvent = 1 /\ healed = FALSE
    /\ alive = Node /\ net = Network0 /\ queue = {} /\ sent = 0 /\ heard = {}

-----------------------------------------------------------------------------
(* generateFaultSchedule().  One node against the rest is one of the       *)
(* bipartitions; both sides have someone.                                  *)
Groups == {side \in SUBSET Node : side # {} /\ side # Node}
Faults ==
    [kind : {"Partition"}, side : Groups]
        \cup [kind : {"Heal", "Crash", "Restart", "LeaderKill"}]
        \cup [kind : {"SetDrop"}, some : BOOLEAN]
        \cup UNION {[kind : {"SetLatency"}, min : 1..Max({1, max \div 4}), max : {max}] : max \in Latency}
        \cup [kind : {"SetReorder"}, extraMax : Extra]

Returns(fault, t) ==
    IF fault.kind \in {"Crash", "LeaderKill"}
    THEN {IF t + d < FaultEnd THEN <<[at |-> t + d, fault |-> [kind |-> "Restart"]]>> ELSE <<>> : d \in Down}
    ELSE {<<>>}

Generate ==
    /\ pc = "generate" /\ draw < FaultEnd
    /\ \E fault \in Faults, gap \in Gap : \E back \in Returns(fault, draw) :
        events' = Append(events, [at |-> draw, fault |-> fault]) \o back /\ draw' = draw + gap
    /\ UNCHANGED <<pc, now, nextEvent, healed, alive, net, queue, sent, heard>>

(* stable_sort by time.                                                    *)
Schedule ==
    /\ pc = "generate" /\ draw >= FaultEnd
    /\ LET earlier(i, j) == events[i].at < events[j].at \/ (events[i].at = events[j].at /\ i < j)
           order == SetToSortSeq(DOMAIN events, earlier)
       IN  events' = [i \in DOMAIN order |-> events[order[i]]]
    /\ pc' = "faults" /\ draw' = 0
    /\ UNCHANGED <<now, nextEvent, healed, alive, net, queue, sent, heard>>

-----------------------------------------------------------------------------
(* applyFaultEvent().  Who leads is the cluster's affair: killLeader()     *)
(* finds some live node or none.                                           *)
GroupOf(side) == [n \in Node |-> IF n \in side THEN 1 ELSE 2]

NetAfter(fault) ==
    CASE fault.kind = "Partition" -> [net EXCEPT !.groupOf = GroupOf(fault.side)]
      [] fault.kind = "Heal" -> [net EXCEPT !.groupOf = Connected]
      [] fault.kind = "SetDrop" -> [net EXCEPT !.drop = fault.some]
      [] fault.kind = "SetLatency" ->
            [net EXCEPT !.latencyMin = fault.min, !.latencyMax = Max({fault.min, fault.max})]
      [] fault.kind = "SetReorder" -> [net EXCEPT !.extraMax = fault.extraMax]
      [] OTHER -> net

AliveAfter(fault) ==
    CASE fault.kind = "Crash" -> IF alive = {} THEN {{}} ELSE {alive \ {n} : n \in alive}
      [] fault.kind = "Restart" -> IF alive = Node THEN {Node} ELSE {alive \cup {n} : n \in Node \ alive}
      [] fault.kind = "LeaderKill" -> {alive} \cup {alive \ {n} : n \in alive}
      [] OTHER -> {alive}

DueEvent == nextEvent <= Len(events) /\ events[nextEvent].at <= now

ApplyFaultEvent ==
    /\ pc = "faults" /\ now < MaxTime /\ DueEvent
    /\ net' = NetAfter(events[nextEvent].fault)
    /\ alive' \in AliveAfter(events[nextEvent].fault)
    /\ nextEvent' = nextEvent + 1
    /\ UNCHANGED <<pc, now, events, draw, healed, queue, sent, heard>>

HealAllButTheDead ==                                                 \* mutant
    /\ healed' = TRUE
    /\ net' = [Network0 EXCEPT !.latencyMax = Quiet]
    /\ UNCHANGED alive

(* heal-all: connect everybody, calm the network, restart the dead.        *)
HealAll ==
    /\ healed' = TRUE
    /\ net' = [Network0 EXCEPT !.latencyMax = Quiet]
    /\ alive' = Node

EndFaults ==
    /\ pc = "faults" /\ now < MaxTime /\ ~DueEvent
    /\ pc' = "clients"
    /\ IF ~healed /\ now >= FaultEnd THEN HealAll ELSE UNCHANGED <<healed, net, alive>>
    /\ UNCHANGED <<now, events, draw, nextEvent, queue, sent, heard>>

-----------------------------------------------------------------------------
(* SimNetwork::sameSide(), send().                                         *)
SameSide(a, b) ==
    \/ net.groupOf = Connected \/ a \notin Node \/ b \notin Node
    \/ net.groupOf[a] = net.groupOf[b]

(* What one send does to the queue: lost, or due after some delay.         *)
Sent(from, to) ==
    LET delays == net.latencyMin..(net.latencyMax + net.extraMax)
        arrives == {queue \cup {[at |-> now + d, seq |-> sent, from |-> from, to |-> to]} : d \in delays}
    IN  IF ~SameSide(from, to) THEN {queue} ELSE IF net.drop THEN arrives \cup {queue} ELSE arrives

Send(from, to) ==
    /\ sent < MaxSends /\ sent' = sent + 1 /\ queue' \in Sent(from, to)
    /\ UNCHANGED <<pc, now, events, draw, nextEvent, healed, alive, net, heard>>

(* Clients send in their tick and when they get an answer, live nodes in   *)
(* tick() and in their handlers.                                           *)
ClientSend == pc \in {"clients", "deliver"} /\ \E c \in Endpoint, n \in Node : Send(c, n)
NodeSend == pc \in {"tick", "deliver"} /\ \E n \in alive, to \in Node \cup Endpoint : n # to /\ Send(n, to)

(* stepMs(): the clock, a tick of every live node, then deliverDue().      *)
Advance ==
    /\ pc = "clients" /\ pc' = "tick" /\ now' = now + 1
    /\ UNCHANGED <<events, draw, nextEvent, healed, alive, net, queue, sent, heard>>
EndTick ==
    /\ pc = "tick" /\ pc' = "deliver"
    /\ UNCHANGED <<now, events, draw, nextEvent, healed, alive, net, queue, sent, heard>>

Due == {m \in queue : m.at <= now}
First == CHOOSE m \in Due : \A o \in Due : m.at < o.at \/ (m.at = o.at /\ m.seq <= o.seq)

(* deliver(): the earliest message that is due reaches its receiver,       *)
(* unless a partition or the receiver's death came in between.             *)
Arrives(m) == SameSide(m.from, m.to) /\ m.to \in alive \cup Endpoint
Deliver ==
    /\ pc = "deliver" /\ Due # {}
    /\ queue' = queue \ {First}
    /\ heard' = IF Arrives(First) THEN heard \cup {First} ELSE heard
    /\ UNCHANGED <<pc, now, events, draw, nextEvent, healed, alive, net, sent>>

(* The run may end once it is healed and has settled.                      *)
EndStep ==
    /\ pc = "deliver" /\ Due = {}
    /\ pc' \in {"faults"} \cup (IF healed /\ now >= FaultEnd + Settle THEN {"done"} ELSE {})
    /\ heard' = {}
    /\ UNCHANGED <<now, events, draw, nextEvent, healed, alive, net, queue, sent>>

Next == \/ Generate \/ Schedule \/ ApplyFaultEvent \/ EndFaults
        \/ ClientSend \/ NodeSend \/ Advance \/ EndTick \/ Deliver \/ EndStep

Spec == Init /\ [][Next]_vars

-----------------------------------------------------------------------------
(* Faults are what the schedule says, and they end.  A partition or a      *)
(* crash holds for messages already under way.  Once healed, everybody is  *)
(* up and connected for good, no fault is left, and what a slow network    *)
(* still holds comes in by a fixed time: so the end-state assertions of a  *)
(* chaos run may demand progress.  deliverDue() leaves nothing overdue.    *)
FaultsHoldAndEnd ==
    /\ \A m \in heard : SameSide(m.from, m.to) /\ m.to \in alive \cup Endpoint
    /\ healed => /\ alive = Node /\ net = [Network0 EXCEPT !.latencyMax = Quiet]
                 /\ nextEvent = Len(events) + 1
                 /\ \A m \in queue : m.at <= Max({FaultEnd + Max(Latency) + Max(Extra), now + Quiet})
    /\ pc = "faults" => (\A m \in queue : m.at > now) /\ (now > FaultEnd => healed)
=============================================================================
