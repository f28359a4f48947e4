--------------------------- MODULE ClientService ----------------------------
(***************************************************************************)
(* The server side of a client request (src/src/client/client_service.cpp) *)
(* on every node: onClientRequest, batching, the pending table, and        *)
(* onApplied after KVStateMachine::apply.  RaftCore is used through what   *)
(* it promises: logs that agree on the committed prefix, leaders that hold *)
(* it, deposed leaders that do not know it yet.  The reply route is the    *)
(* transport's (src/src/transport/transport.cpp).                          *)
(***************************************************************************)
EXTENDS KvStore, SequencesExt

CONSTANTS
    Server,         \* node ids 1..N; 0 is no node
    Slots,          \* capacity of the pending table
    BatchLimit,     \* Batching::maxBatch of each node
    MaxLog,         \* bound: entries of a log
    MaxFaults       \* bound: elections after the first, and restarts

VARIABLES
    requests,       \* requests in flight
    replies,        \* replies in flight, for each client in sending order
    leads,          \* the node believes it is the leader
    leaderId,       \* RaftCore::leaderId
    rlog,           \* the log of each node
    log,            \* the committed entries
    current,        \* the leader of the newest term, 0 if it is down
    applied,        \* lastApplied
    store,          \* the state machine of each node
    buffer,         \* ClientService::buffer_
    pending,        \* ClientService::pending_
    leaderHint,     \* ClientService::leaderHint_
    route,          \* Transport::inboundRoutes_ of each node
    open,           \* the connection each client has open, 0 if it needs none
    excused,        \* history: nodes that restarted, or overwrote a pending entry
    faults

raft == <<leads, leaderId, rlog, log, current>>
service == <<buffer, pending, leaderHint>>
machine == <<applied, store>>
net == <<requests, replies, route, open>>
ending == <<excused, faults>>
serverVars == <<raft, service, machine, net, ending>>

EmptyTable == [k \in 0..(Slots - 1) |-> [used |-> FALSE]]

ServerInit ==
    /\ requests = {} /\ replies = [c \in Client |-> <<>>]
    /\ current = 1 /\ leads = [s \in Server |-> s = 1] /\ leaderId = [s \in Server |-> 1]
    /\ rlog = [s \in Server |-> <<>>] /\ log = <<>>
    /\ applied = [s \in Server |-> 0] /\ store = [s \in Server |-> EmptyStore]
    /\ buffer = [s \in Server |-> <<>>] /\ pending = [s \in Server |-> EmptyTable]
    /\ leaderHint = [s \in Server |-> 0]
    /\ route = [s \in Server |-> [c \in Client |-> 0]] /\ open = [c \in Client |-> 0]
    /\ excused = {} /\ faults = 0

-----------------------------------------------------------------------------
(* reply(): a reply goes to the sender's envelope over the connection that *)
(* last delivered a message from that sender; nobody reads it there once   *)
(* the client has closed that connection.                                  *)
Reply(s, from, status, hint, result) ==
    [from |-> s, to |-> from, status |-> status, hint |-> hint, result |-> result]

Reaches(r) == route'[r.from][r.to.client] = open[r.to.client]

SendAll(rs) ==
    replies' = [c \in Client |->
                   replies[c] \o SelectSeq(rs, LAMBDA r : r.to.client = c /\ Reaches(r))]

(* PendingTable::put: a colliding entry is overwritten.                    *)
Put(table, index, b) ==
    [table EXCEPT ![index % Slots] = [used |-> TRUE, index |-> index, from |-> b.from, cmd |-> b.cmd]]

PutAll(table, first, bs) ==
    FoldLeftDomain(LAMBDA t, i : Put(t, first + i - 1, bs[i]), table, bs)

FlushBatchSilently(s, bs) ==                                         \* mutant
    /\ buffer' = [buffer EXCEPT ![s] = <<>>]
    /\ IF leads[s]
       THEN /\ Len(rlog[s]) + Len(bs) <= MaxLog
            /\ rlog' = [rlog EXCEPT ![s] = @ \o [i \in 1..Len(bs) |-> bs[i].cmd]]
            /\ pending' = [pending EXCEPT ![s] = PutAll(@, Len(rlog[s]) + 1, bs)]
            /\ UNCHANGED <<replies, excused>>
       ELSE UNCHANGED <<rlog, pending, replies, excused>>

(* flushBatch, with proposeBatch appending the commands to the log.        *)
FlushBatch(s, bs) ==
    /\ buffer' = [buffer EXCEPT ![s] = <<>>]
    /\ IF leads[s]
       THEN /\ Len(rlog[s]) + Len(bs) <= MaxLog
            /\ rlog' = [rlog EXCEPT ![s] = @ \o [i \in 1..Len(bs) |-> bs[i].cmd]]
            /\ pending' = [pending EXCEPT ![s] = PutAll(@, Len(rlog[s]) + 1, bs)]
            /\ excused' = excused \cup
                   {t \in {s} : \E i \in 1..Len(bs) : pending[s][(Len(rlog[s]) + i) % Slots].used}
            /\ UNCHANGED replies
       ELSE /\ SendAll([i \in 1..Len(bs) |-> Reply(s, bs[i].from, "NotLeader", leaderId[s], <<>>)])
            /\ UNCHANGED <<rlog, pending, excused>>

(* onClientRequest, on the Raft thread, after the transport noted the      *)
(* connection.                                                             *)
OnClientRequest(s, m) ==
    LET b == [from |-> m.from, cmd |-> m.cmd]
        bs == Append(buffer[s], b)
    IN  /\ m \in requests /\ m.to = s
        /\ requests' = requests \ {m}
        /\ route' = [route EXCEPT ![s][m.from.client] = m.conn]
        /\ leaderHint' = [leaderHint EXCEPT ![s] = leaderId[s]]
        /\ IF ~leads[s]
           THEN /\ SendAll(<<Reply(s, m.from, "NotLeader", leaderId[s], <<>>)>>)
                /\ UNCHANGED <<rlog, buffer, pending, excused>>
           ELSE IF Len(bs) < BatchLimit[s]
           THEN buffer' = [buffer EXCEPT ![s] = bs] /\ UNCHANGED <<rlog, pending, replies, excused>>
           ELSE FlushBatch(s, bs)
        /\ UNCHANGED <<open, leads, leaderId, log, current, machine, faults>>

(* flushIfDue, once the linger deadline of a buffered batch has passed.    *)
FlushIfDue(s) ==
    /\ buffer[s] # <<>>
    /\ UNCHANGED <<requests, route, open, leaderHint, leads, leaderId, log, current, machine, faults>>
    /\ FlushBatch(s, buffer[s])

AnswerByIndex(s, cmd, slot, result) ==                               \* mutant
    Reply(s, slot.from, "Ok", s, result)

(* The apply thread: KVStateMachine::apply, then onApplied, which answers  *)
(* the pending request of this index if it is still the one applied.       *)
Answer(s, cmd, slot, result) ==
    IF slot.cmd.client = cmd.client /\ slot.cmd.seq = cmd.seq
    THEN Reply(s, slot.from, "Ok", s, result)
    ELSE Reply(s, slot.from, "NotLeader", leaderHint[s], <<>>)

ApplyNext(s) ==
    LET i == applied[s] + 1
        cmd == log[i]
        r == Apply(store[s], cmd)
        slot == pending[s][i % Slots]
        taken == slot.used /\ slot.index = i
    IN  /\ i <= Len(log) /\ IsPrefix(SubSeq(log, 1, i), rlog[s])
        /\ applied' = [applied EXCEPT ![s] = i]
        /\ store' = [store EXCEPT ![s] = r.store]
        /\ pending' = [pending EXCEPT ![s][i % Slots] = IF taken THEN [used |-> FALSE] ELSE slot]
        /\ UNCHANGED <<raft, buffer, leaderHint, requests, route, open, ending>>
        /\ SendAll(IF taken THEN <<Answer(s, cmd, slot, r.result)>> ELSE <<>>)

-----------------------------------------------------------------------------
(* What RaftCore does meanwhile; node 1 was elected first.  A new leader   *)
(* holds the committed entries and some of those that were not committed.  *)
NewLeader(s) ==
    /\ faults < MaxFaults /\ s # current
    /\ \E t \in Server, n \in Len(log)..MaxLog :
          /\ n <= Len(rlog[t]) /\ IsPrefix(log, rlog[t])
          /\ rlog' = [rlog EXCEPT ![s] = SubSeq(rlog[t], 1, n)]
    /\ current' = s /\ faults' = faults + 1
    /\ leads' = [leads EXCEPT ![s] = TRUE]
    /\ leaderId' = [leaderId EXCEPT ![s] = s]
    /\ UNCHANGED <<log, service, machine, net, excused>>

(* A node learns of the newest leader: from a vote, or with its log.       *)
Follow(s) ==
    /\ current \notin {0, s}
    /\ \E known \in {0, current} :
          /\ leaderId' = [leaderId EXCEPT ![s] = known]
          /\ rlog' = [rlog EXCEPT ![s] = IF known = 0 THEN @ ELSE rlog[current]]
    /\ leads' = [leads EXCEPT ![s] = FALSE]
    /\ UNCHANGED <<log, current, service, machine, net, ending>>

Commit ==
    /\ current # 0 /\ Len(rlog[current]) > Len(log)
    /\ log' = Append(log, rlog[current][Len(log) + 1])
    /\ UNCHANGED <<leads, leaderId, rlog, current, service, machine, net, ending>>

(* A node restarts: what is not in its log is gone, and it applies again.  *)
Restart(s) ==
    /\ faults < MaxFaults
    /\ faults' = faults + 1 /\ excused' = excused \cup {s}
    /\ leads' = [leads EXCEPT ![s] = FALSE] /\ leaderId' = [leaderId EXCEPT ![s] = 0]
    /\ current' = IF current = s THEN 0 ELSE current
    /\ applied' = [applied EXCEPT ![s] = 0] /\ store' = [store EXCEPT ![s] = EmptyStore]
    /\ buffer' = [buffer EXCEPT ![s] = <<>>] /\ pending' = [pending EXCEPT ![s] = EmptyTable]
    /\ leaderHint' = [leaderHint EXCEPT ![s] = 0]
    /\ route' = [route EXCEPT ![s] = [c \in Client |-> 0]]
    /\ UNCHANGED <<rlog, log, requests, replies, open>>

ServerNext ==
    \/ \E s \in Server :
          \/ \E m \in requests : OnClientRequest(s, m)
          \/ FlushIfDue(s) \/ ApplyNext(s)
          \/ NewLeader(s) \/ Follow(s) \/ Restart(s)
    \/ Commit
=============================================================================
