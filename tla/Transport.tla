----------------------------- MODULE Transport ------------------------------
(***************************************************************************)
(* Transport (src/src/transport/transport.cpp): the I/O thread of a node,  *)
(* which accepts, reads, hands frames to the runtime and keeps the reply   *)
(* routes; the thread that answers clients along those routes; and the     *)
(* sends of another node's Transport to this one, with their one retry.    *)
(* A connection is a stream of bytes each way; the kernel gives a new one  *)
(* the lowest free descriptor, so a closed one's number comes back.        *)
(***************************************************************************)
EXTENDS FrameAssembler, FiniteSets, FiniteSetsExt, SequencesExt

CONSTANTS
    Client,     \* ids of clients, which are not configured peers
    Peer,       \* ids of nodes that send here with sendFrame()
    Splitting,  \* bound: the dialers that write in pieces
    Bad,        \* the number in a body that does not decode
    MaxDials,   \* bound: connections opened
    Load        \* bound: how many frames each dialer sends, a set of cases

Dialer == Client \cup Peer

VARIABLES
    conn,       \* every connection ever opened, in order
    conns,      \* the I/O thread's list of accepted ones
    routes,     \* inboundRoutes_: sender -> descriptor
    io,         \* where the I/O thread is
    running,
    dialer,     \* each dialer's connection and the bytes it still has to write
    owed,       \* clients whose request was handled and not yet answered
    astray      \* history: a reply was written to a descriptor not its client's

vars == <<conn, conns, routes, io, running, dialer, owed, astray>>

Idle == [pc |-> "poll", i |-> 0, ready |-> <<>>, accept |-> FALSE, from |-> 0, bad |-> FALSE]

Init ==
    /\ conn = <<>> /\ conns = <<>> /\ routes = <<>> /\ io = Idle /\ running = TRUE
    /\ \E load \in Load :
        dialer = [d \in Dialer |-> [link |-> 0, left |-> <<>>, body |-> <<>>, retried |-> FALSE,
                                    sends |-> load[d]]]
    /\ owed = {} /\ astray = FALSE

-----------------------------------------------------------------------------
(* The dialers.  A node's sendFrame() connects if it has no connection and *)
(* writes the frame, some bytes at a time; a client does the same, may     *)
(* also send what does not decode or an empty frame, and may hang up.      *)
Dialed(d) == [owner |-> d, fd |-> 0, bytes |-> <<>>, open |-> TRUE, held |-> TRUE,
              assembler |-> Fresh, written |-> <<>>, handled |-> <<>>]

Closed(c) == [c EXCEPT !.held = FALSE, !.bytes = <<>>, !.assembler = Fresh]

Portion(d, bytes) == (IF d \in Splitting THEN 1 ELSE Len(bytes))..Len(bytes)
Linked(d) == dialer[d].link # 0

(* The sender, a byte that may look like the start of a length, a number.  *)
Contents(d, n) == <<d, 0, n>>

(* connectTo(), which may fail, and the first part of sendFrame().         *)
Send(d) ==
    LET n == dialer[d].sends
        body == {Contents(d, n)} \cup IF d \in Client THEN {Contents(d, Bad), <<>>} ELSE {}
        started == [dialer[d] EXCEPT !.sends = n - 1, !.retried = FALSE]
    IN  /\ dialer[d].left = <<>> /\ n > 0
        /\ \/ \E b \in body :
                /\ Linked(d)
                /\ dialer' = [dialer EXCEPT ![d] = [started EXCEPT !.left = Framed(b), !.body = b]]
                /\ UNCHANGED conn
           \/ \E b \in body :
                /\ ~Linked(d) /\ Len(conn) < MaxDials
                /\ dialer' = [dialer EXCEPT ![d] = [started EXCEPT !.left = Framed(b), !.body = b,
                                                                   !.link = Len(conn) + 1]]
                /\ conn' = Append(conn, Dialed(d))
           \/ ~Linked(d) /\ dialer' = [dialer EXCEPT ![d] = started] /\ UNCHANGED conn
        /\ UNCHANGED <<conns, routes, io, running, owed, astray>>

(* writeAll(), some bytes at a time.  Bytes written after the node closed  *)
(* its end are lost, until a write fails; one may fail at any time.        *)
WriteSome(d) ==
    LET k == dialer[d].link
        left == dialer[d].left
    IN  /\ left # <<>>
        /\ \E n \in Portion(d, left) :
            /\ dialer' = [dialer EXCEPT ![d].left = SubSeq(left, n + 1, Len(left))]
            /\ conn' = [conn EXCEPT ![k].bytes = IF conn[k].held THEN @ \o SubSeq(left, 1, n) ELSE @,
                                    ![k].written = IF n = Len(left) THEN Append(@, dialer[d].body) ELSE @]
        /\ UNCHANGED <<conns, routes, io, running, owed, astray>>

(* writeFrame() closes on a failed write; sendFrame() then sends the whole *)
(* frame on a fresh connection, once, or drops it.                         *)
WithoutLink(d) == [conn EXCEPT ![dialer[d].link].open = FALSE]

SendAgain(d) ==
    /\ ~dialer[d].retried /\ Len(conn) < MaxDials
    /\ conn' = Append(WithoutLink(d), Dialed(d))
    /\ dialer' = [dialer EXCEPT ![d].link = Len(conn) + 1, ![d].retried = TRUE,
                                ![d].left = Framed(dialer[d].body)]

DropFrame(d) ==
    /\ conn' = WithoutLink(d)
    /\ dialer' = [dialer EXCEPT ![d].link = 0, ![d].left = <<>>]

WriteFails(d) ==
    /\ dialer[d].left # <<>>
    /\ SendAgain(d) \/ DropFrame(d)
    /\ UNCHANGED <<conns, routes, io, running, owed, astray>>

Hangup(c) == Linked(c) /\ DropFrame(c) /\ UNCHANGED <<conns, routes, io, running, owed, astray>>

-----------------------------------------------------------------------------
(* ioLoop().                                                               *)
Backlog == {k \in DOMAIN conn : conn[k].fd = 0 /\ conn[k].held}
Events(k) ==
    IF conn[k].open THEN {IF conn[k].bytes = <<>> THEN "none" ELSE "in"} ELSE {"in", "hup"}

Poll ==
    /\ io.pc = "poll" /\ running
    /\ \E ready \in [DOMAIN conns -> {"none", "in", "hup"}] :
        /\ \A i \in DOMAIN conns : ready[i] \in Events(conns[i])
        /\ Backlog # {} \/ \E i \in DOMAIN conns : ready[i] # "none"
        /\ io' = [Idle EXCEPT !.pc = "visit", !.i = Len(conns), !.ready = ready, !.accept = Backlog # {}]
    /\ UNCHANGED <<conn, conns, routes, running, dialer, owed, astray>>

Visiting(event) == io.pc = "visit" /\ io.i > 0 /\ io.ready[io.i] = event
Here == conns[io.i]
NextVisit == io' = [io EXCEPT !.pc = "visit", !.i = @ - 1, !.bad = FALSE]

CloseConnKeepsRoutes ==                                              \* mutant
    /\ conn' = [conn EXCEPT ![Here] = Closed(@)]
    /\ conns' = RemoveAt(conns, io.i)
    /\ NextVisit /\ UNCHANGED <<routes, running, dialer, owed, astray>>

(* closeConn(): the routes through the descriptor go with it.              *)
CloseConn ==
    /\ routes' = Restrict(routes, {d \in DOMAIN routes : routes[d] # conn[Here].fd})
    /\ conn' = [conn EXCEPT ![Here] = Closed(@)]
    /\ conns' = RemoveAt(conns, io.i)
    /\ NextVisit /\ UNCHANGED <<running, dialer, owed, astray>>

SkipConn ==
    Visiting("none") /\ NextVisit /\ UNCHANGED <<conn, conns, routes, running, dialer, owed, astray>>
LoseConn == (Visiting("hup") \/ (Visiting("in") /\ conn[Here].bytes = <<>>)) /\ CloseConn

(* read() of what has arrived into feed(); a read that takes less is one   *)
(* that comes before the rest has been written.                            *)
Read ==
    /\ Visiting("in") /\ conn[Here].bytes # <<>>
    /\ conn' = [conn EXCEPT ![Here].assembler = Feed(@, conn[Here].bytes), ![Here].bytes = <<>>]
    /\ io' = [io EXCEPT !.pc = "frame"]
    /\ UNCHANGED <<conns, routes, running, dialer, owed, astray>>

(* A complete frame goes to the raw handler, enqueueFrame(): it decodes,   *)
(* or not, and may be dropped for a full ring, without a sender then.      *)
HandleFrame ==
    LET a == conn[Here].assembler
        body == Body(a)
    IN  /\ io.pc = "frame" /\ Complete(a)
        /\ \/ /\ Last(body) # Bad
              /\ conn' = [conn EXCEPT ![Here].assembler = Consumed(a), ![Here].handled = Append(@, body)]
              /\ owed' = owed \cup ({body[1]} \cap Client)
              /\ io' = [io EXCEPT !.pc = "route", !.from = body[1]]
           \/ /\ Last(body) = Bad
              /\ conn' = [conn EXCEPT ![Here].assembler = Consumed(a)]
              /\ io' = [io EXCEPT !.bad = TRUE] /\ UNCHANGED owed
           \/ /\ conn' = [conn EXCEPT ![Here].assembler = Consumed(a)]
              /\ UNCHANGED <<io, owed>>
        /\ UNCHANGED <<conns, routes, running, dialer, astray>>

(* Only then is the sender's route set to this connection.                 *)
SetRoute ==
    /\ io.pc = "route"
    /\ routes' = [d \in DOMAIN routes \cup {io.from} |-> IF d = io.from THEN conn[Here].fd ELSE routes[d]]
    /\ io' = [io EXCEPT !.pc = "frame", !.from = 0]
    /\ UNCHANGED <<conn, conns, running, dialer, owed, astray>>

(* No more frames: a framing or decoding error costs the connection.       *)
EndFeed ==
    LET a == conn[Here].assembler
    IN  /\ io.pc = "frame" /\ ~Complete(a)
        /\ IF Illegal(a) \/ io.bad THEN CloseConn
           ELSE NextVisit /\ UNCHANGED <<conn, conns, routes, running, dialer, owed, astray>>

(* Accepting comes after all reads; the descriptor is the lowest free one. *)
LowestFree == Min((1..MaxDials) \ {conn[k].fd : k \in {j \in DOMAIN conn : conn[j].held}})

Accept ==
    LET k == Min(Backlog)
    IN  /\ io.pc = "visit" /\ io.i = 0
        /\ io' = Idle
        /\ IF io.accept
           THEN conn' = [conn EXCEPT ![k].fd = LowestFree] /\ conns' = Append(conns, k)
           ELSE UNCHANGED <<conn, conns>>
        /\ UNCHANGED <<routes, running, dialer, owed, astray>>

(* stop(), and what the I/O thread does on its way out.                    *)
Stop == running /\ running' = FALSE /\ UNCHANGED <<conn, conns, routes, io, dialer, owed, astray>>

Shutdown ==
    /\ io.pc = "poll" /\ ~running
    /\ io' = [io EXCEPT !.pc = "exited"] /\ routes' = <<>>
    /\ conn' = [k \in DOMAIN conn |-> IF k \in Range(conns) THEN Closed(conn[k]) ELSE conn[k]]
    /\ conns' = <<>>
    /\ UNCHANGED <<running, dialer, owed, astray>>

(* sendFrame() to a client: looked up and written under the route lock; no *)
(* route, or a client that hung up, drops the reply.                       *)
Reply(c) ==
    LET to == {k \in DOMAIN conn : conn[k].held /\ conn[k].fd = routes[c]}
    IN  /\ c \in owed /\ owed' = owed \ {c}
        /\ astray' = (astray \/ (c \in DOMAIN routes /\ {conn[k].owner : k \in to} # {c}))
        /\ UNCHANGED <<conn, conns, routes, io, running, dialer>>

Next ==
    \/ \E d \in Dialer : Send(d) \/ WriteSome(d)
    \/ \E d \in Peer : WriteFails(d)
    \/ \E c \in Client : Hangup(c) \/ Reply(c)
    \/ Poll \/ SkipConn \/ LoseConn \/ Read \/ HandleFrame \/ SetRoute \/ EndFeed \/ Accept
    \/ Stop \/ Shutdown

Spec == Init /\ [][Next]_vars

-----------------------------------------------------------------------------
(* A reply only ever goes to an open connection of its own client, though  *)
(* clients hang up and descriptors are reused: closeConn() and sendFrame() *)
(* keep the routes and the open descriptors together.                      *)
RepliesGoHome ==
    /\ ~astray
    /\ \A d \in DOMAIN routes : \E k \in Range(conns) :
        conn[k].held /\ conn[k].fd = routes[d] /\ conn[k].owner = d

(* However the bytes are split and whichever connection dies, the handler  *)
(* gets frames that were sent, whole, in the order of their connection     *)
(* (a dialer numbers them downwards), none twice, not even a retried one.  *)
FramesIntact ==
    /\ \A k \in DOMAIN conn : LET h == conn[k].handled IN
        /\ Range(h) \subseteq Range(conn[k].written)
        /\ \A i, j \in DOMAIN h : i < j => Last(h[i]) > Last(h[j])
    /\ \A k, l \in DOMAIN conn : k # l => Range(conn[k].handled) \cap Range(conn[l].handled) = {}
=============================================================================
