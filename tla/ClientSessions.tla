--------------------------- MODULE ClientSessions ---------------------------
(***************************************************************************)
(* The clients of ClientService.  A KvClient (src/src/client/kv_client.cpp)*)
(* uses one TCP connection at a time and takes the first reply on it; a    *)
(* SimClient (src/faults/sim_client.cpp) sends every attempt from an       *)
(* envelope of its own over a network that loses and reorders: a message   *)
(* that is never taken is lost.                                            *)
(***************************************************************************)
EXTENDS ClientService

CONSTANTS
    Tcp,            \* the clients that are KvClients
    Key,            \* the keys
    Script,         \* what each client asks for, one type after the other
    MaxRequests,    \* bound: requests of all clients
    MaxTries,       \* KvClient::maxAttempts_
    MaxAttempts     \* bound: attempts of all clients

VARIABLES
    cl,             \* the members of each client
    history         \* the requests so far: what was asked, when, the answer

clientVars == <<cl, history>>
vars == <<serverVars, clientVars>>

NoAnswer == <<"none">>

Fresh == [state |-> "idle", seq |-> 0, preferred |-> 0, rotation |-> 0, target |-> 0,
          attempt |-> 0, tries |-> 0, connectedTo |-> 0]

Init ==
    /\ ServerInit
    /\ cl = [c \in Client |-> Fresh]
    /\ history = [c \in Client |-> <<>>]

Me(c) == cl[c]
Total(f) == FoldFunction(LAMBDA x, y : x + y, 0, f)
Command(c) == [client |-> c, seq |-> Me(c).seq, op |-> history[c][Me(c).seq].op]

(* put(), get(), ... and issueNextOp: the next sequence number.            *)
Invoke(c, k) ==
    LET op == [type |-> Script[c][Me(c).seq + 1], key |-> k,
               arg |-> <<[client |-> c, seq |-> Me(c).seq + 1]>>, expect |-> <<>>]
    IN  /\ Me(c).state = "idle" /\ Me(c).seq < Len(Script[c])
        /\ Total([d \in Client |-> cl[d].seq]) < MaxRequests
        /\ cl' = [cl EXCEPT ![c].seq = @ + 1, ![c].state = "call", ![c].tries = 0]
        /\ history' = [history EXCEPT ![c] =
                           Append(@, [op |-> op, asked |-> Len(log), result |-> NoAnswer,
                                      answered |-> 0])]
        /\ UNCHANGED serverVars

Complete(c, r) ==
    history' = [history EXCEPT ![c][Me(c).seq].result = r.result,
                               ![c][Me(c).seq].answered = Len(log)]

-----------------------------------------------------------------------------
(* KvClient::call and attempt: choose a server, keep or dial a connection, *)
(* send.                                                                   *)
PreferredServer(c) ==
    IF Me(c).preferred # 0 THEN Me(c).preferred ELSE 1 + (Me(c).rotation % Cardinality(Server))

Attempt(c) ==
    LET s == PreferredServer(c)
        keep == Me(c).connectedTo = s
        fd == IF keep THEN open[c] ELSE Me(c).attempt + 1
    IN  /\ c \in Tcp /\ Me(c).state = "call" /\ Me(c).tries < MaxTries
        /\ Total([d \in Client |-> cl[d].attempt]) < MaxAttempts
        /\ cl' = [cl EXCEPT ![c].state = "waiting", ![c].target = s, ![c].attempt = @ + 1,
                            ![c].connectedTo = s]
        /\ open' = [open EXCEPT ![c] = fd]
        /\ replies' = IF keep THEN replies ELSE [replies EXCEPT ![c] = <<>>]
        /\ requests' = requests \cup
               {[from |-> [client |-> c, tag |-> 0], to |-> s, conn |-> fd, cmd |-> Command(c)]}
        /\ UNCHANGED <<route, raft, service, machine, ending, history>>

(* The reply loop of attempt: the first frame read is the answer, the      *)
(* frames read with it are ignored, the others stay on the connection.     *)
TakeReply(c, n) ==
    LET r == Head(replies[c])
        s == Me(c).target
        redirect == r.status = "NotLeader" /\ r.hint \notin {0, s}
    IN  /\ c \in Tcp /\ Me(c).state = "waiting" /\ n \in 1..Len(replies[c])
        /\ replies' = [replies EXCEPT ![c] = SubSeq(@, n + 1, Len(@))]
        /\ IF r.status = "Ok"
           THEN /\ Complete(c, r)
                /\ cl' = [cl EXCEPT ![c].state = "idle", ![c].preferred = s]
           ELSE /\ cl' = [cl EXCEPT ![c].state = "call", ![c].tries = @ + 1,
                                    ![c].preferred = IF redirect THEN r.hint ELSE 0,
                                    ![c].rotation = IF redirect THEN @ ELSE s]
                /\ UNCHANGED history
        /\ UNCHANGED <<requests, route, open, raft, service, machine, ending>>

(* An attempt times out, or its connection fails: the connection is closed.*)
AttemptFails(c) ==
    /\ c \in Tcp /\ Me(c).state = "waiting"
    /\ cl' = [cl EXCEPT ![c].state = "call", ![c].tries = @ + 1, ![c].preferred = 0,
                        ![c].rotation = Me(c).target, ![c].connectedTo = 0]
    /\ open' = [open EXCEPT ![c] = 0]
    /\ replies' = [replies EXCEPT ![c] = <<>>]
    /\ UNCHANGED <<requests, route, raft, service, machine, ending, history>>

(* call returns nothing after maxAttempts_ tries.                          *)
GiveUp(c) ==
    /\ c \in Tcp /\ Me(c).state = "call" /\ Me(c).tries = MaxTries
    /\ cl' = [cl EXCEPT ![c].state = "idle"]
    /\ UNCHANGED <<serverVars, history>>

-----------------------------------------------------------------------------
(* SimClient::sendAttempt: a fresh envelope, the believed leader or any.   *)
SendAttempt(c, s) ==
    /\ c \notin Tcp /\ Me(c).state = "call" /\ Total([d \in Client |-> cl[d].attempt]) < MaxAttempts
    /\ Me(c).preferred # 0 => s = Me(c).preferred
    /\ cl' = [cl EXCEPT ![c].state = "waiting", ![c].target = s, ![c].attempt = @ + 1]
    /\ requests' = requests \cup
           {[from |-> [client |-> c, tag |-> Me(c).attempt + 1], to |-> s, conn |-> 0,
             cmd |-> Command(c)]}
    /\ UNCHANGED <<replies, route, open, raft, service, machine, ending, history>>

(* tick: the deadline of the attempt passed.                               *)
Tick(c) ==
    /\ c \notin Tcp /\ Me(c).state = "waiting"
    /\ cl' = [cl EXCEPT ![c].state = "call", ![c].preferred = 0]
    /\ UNCHANGED <<serverVars, history>>

(* onDeliver: the network delivers replies in any order; one that is not   *)
(* to the current attempt, from its target, is ignored.                    *)
Counts(c, r) ==
    Me(c).state = "waiting" /\ r.to.tag = Me(c).attempt /\ r.from = Me(c).target

OnDeliver(c, i) ==
    LET r == replies[c][i]
        redirect == r.status = "NotLeader" /\ r.hint \notin {0, Me(c).target}
    IN  /\ c \notin Tcp /\ Counts(c, r)
        /\ replies' = [replies EXCEPT ![c] = RemoveAt(@, i)]
        /\ IF r.status = "Ok"
           THEN /\ Complete(c, r)
                /\ cl' = [cl EXCEPT ![c].state = "idle", ![c].preferred = r.from]
           ELSE /\ cl' = [cl EXCEPT ![c].state = "call",
                                    ![c].preferred = IF redirect THEN r.hint ELSE 0]
                /\ UNCHANGED history
        /\ UNCHANGED <<requests, route, open, raft, service, machine, ending>>

Next ==
    \/ ServerNext /\ UNCHANGED clientVars
    \/ \E c \in Client :
          \/ \E k \in Key : Invoke(c, k)
          \/ Attempt(c) \/ AttemptFails(c) \/ GiveUp(c)
          \/ \E n \in 1..Len(replies[c]) : TakeReply(c, n)
          \/ \E s \in Server : SendAttempt(c, s)
          \/ Tick(c)
          \/ \E i \in 1..Len(replies[c]) : OnDeliver(c, i)

Spec == Init /\ [][Next]_vars

-----------------------------------------------------------------------------
(* What the committed log means, with no session table: a command takes    *)
(* effect at its first place unless a later one of its client came before. *)
Effective(l, i) ==
    \A j \in 1..(i - 1) : l[j].client = l[i].client => l[j].seq < l[i].seq

RECURSIVE Meaning(_, _)
Meaning(l, n) ==
    IF n = 0 THEN EmptyStore.kv
    ELSE IF Effective(l, n) THEN ApplyOp(Meaning(l, n - 1), l[n].op).kv
    ELSE Meaning(l, n - 1)

(* Every replica's map is the meaning of what it applied: a command that   *)
(* was retried, on whichever leader, took effect once, on all of them.     *)
ExactlyOnce == \A s \in Server : store[s].kv = Meaning(log, applied[s])

(* An answered request took effect between the question and the answer, at *)
(* one place of the log, and the answer is the result it had there.        *)
LinearizedIn(c, n) ==
    LET h == history[c][n]
    IN  h.result # NoAnswer =>
            \E i \in (h.asked + 1)..h.answered :
                /\ log[i].client = c /\ log[i].seq = n /\ Effective(log, i)
                /\ h.result = ApplyOp(Meaning(log, i - 1), log[i].op).result

(* Linearizability, for clients that tell their attempts apart.            *)
Linearizable == \A c \in Client \ Tcp : \A n \in 1..Len(history[c]) : LinearizedIn(c, n)

(* A request that reached a node which is still up is buffered or pending  *)
(* there, or it was answered: not even a leader deposed with a full buffer *)
(* lets its clients run into their timeouts, unless a slot was overwritten.*)
NoRequestForgotten ==
    \A c \in Client \ Tcp :
        LET s == Me(c).target
            from == [client |-> c, tag |-> Me(c).attempt]
        IN  \/ Me(c).state # "waiting" \/ s \in excused
            \/ \E m \in requests : m.from = from
            \/ \E i \in 1..Len(replies[c]) : replies[c][i].to = from
            \/ \E i \in 1..Len(buffer[s]) : buffer[s][i].from = from
            \/ \E k \in 0..(Slots - 1) : pending[s][k].used /\ pending[s][k].from = from

(* kv_client.h: a straggler reply from an aborted attempt can never be     *)
(* read as the answer to a later request.                                  *)
NoStragglerRead == \A c \in Tcp : \A n \in 1..Len(history[c]) : LinearizedIn(c, n)
=============================================================================
