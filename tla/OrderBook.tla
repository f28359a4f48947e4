----------------------------- MODULE OrderBook ------------------------------
(***************************************************************************)
(* OrderBookStateMachine (src/src/statemachine/order_book.cpp): commands   *)
(* and results are bytes (Wire), a book is a map from prices to the queues *)
(* of the orders resting there, the index finds an order's queue.          *)
(***************************************************************************)
EXTENDS Wire, FiniteSets, FiniteSetsExt

Bid == 0
Ask == 1
kObOk == 1
kObReject == 2
kObMalformed == 3
None == <<>>            \* an empty std::map

EmptyMachine ==
    [books |-> [side \in {Bid, Ask} |-> None], index |-> None, nextOrderId |-> 1, sessions |-> None]

Put1(map, k, v) == [x \in DOMAIN map \cup {k} |-> IF x = k THEN v ELSE map[x]]
Erase(map, k) == [x \in DOMAIN map \ {k} |-> map[x]]
Ordered(keys) == SetToSortSeq(keys, <)

-----------------------------------------------------------------------------
IdentityPrefix(client, seq, op) == U64(client) \o U64(seq) \o U8(op)
EncodeObNew(client, seq, side, price, qty) ==
    IdentityPrefix(client, seq, 1) \o U8(side) \o U64(price) \o U64(qty)
EncodeObCancel(client, seq, id) == IdentityPrefix(client, seq, 2) \o U64(id)
EncodeObAmend(client, seq, id, price, qty) ==
    IdentityPrefix(client, seq, 3) \o U64(id) \o U64(price) \o U64(qty)

OkResult(id, resting, fills) ==
    U8(kObOk) \o U64(id) \o U64(resting) \o U32(Len(fills))
        \o FlattenSeq([i \in 1..Len(fills) |->
                          U64(fills[i].maker) \o U64(fills[i].price) \o U64(fills[i].qty)])

(* A loop that reads n items one after the other.                          *)
Times(n, r, Item(_)) == FoldLeft(LAMBDA x, i : Item(x), r, [i \in 1..n |-> i])

NoResult == [status |-> 0]
DecodeObResult(bytes) ==
    LET head == GetEach(Reader(bytes), <<1, 8, 8, 4>>)
        status == head.got[1]
        n == head.got[4]
        fill(r) == GetEach(r, <<8, 8, 8>>)
        all == Times(n, head, fill)
        at(i) == 4 + 3 * (i - 1)
    IN  CASE bytes = <<>> -> NoResult
          [] bytes # <<>> /\ status \in {kObReject, kObMalformed} ->
                IF Len(bytes) = 1 THEN [status |-> status] ELSE NoResult
          [] OTHER ->
                IF status # kObOk \/ ~head.ok \/ n > Remaining(head) \div 24 \/ ~Exhausted(all)
                THEN NoResult
                ELSE [status |-> kObOk, orderId |-> head.got[2], restingQty |-> head.got[3],
                      fills |-> [i \in 1..n |-> [maker |-> all.got[at(i) + 1],
                                                 price |-> all.got[at(i) + 2],
                                                 qty |-> all.got[at(i) + 3]]]]
-----------------------------------------------------------------------------
Opposite(side) == 1 - side
Best(book, taker) == IF taker = Bid THEN Min(DOMAIN book) ELSE Max(DOMAIN book)
Crosses(taker, price, limit) == IF taker = Bid THEN price <= limit ELSE price >= limit

(* A maker, the oldest order of a level, gives n: it goes when nothing is  *)
(* left of it, and the level with its last order.                          *)
Fill(sm, side, price, maker, n) ==
    LET others == Tail(sm.books[side][price])
        gone == maker.qty = n
        level == IF gone THEN others ELSE <<[maker EXCEPT !.qty = @ - n]>> \o others
    IN  [sm EXCEPT !.books[side] = IF level = <<>> THEN Erase(@, price) ELSE [@ EXCEPT ![price] = level],
                   !.index = IF gone THEN Erase(@, maker.id) ELSE @]

(* match: fill from the oldest order of the best level while it crosses.   *)
RECURSIVE Match(_, _, _, _, _)
Match(sm, taker, limit, qty, fills) ==
    LET side == Opposite(taker)
        price == Best(sm.books[side], taker)
        maker == Head(sm.books[side][price])
        fillQty == Min({qty, maker.qty})
    IN  IF qty = 0 \/ sm.books[side] = None \/ ~Crosses(taker, price, limit)
        THEN [sm |-> sm, residual |-> qty, fills |-> fills]
        ELSE Match(Fill(sm, side, price, maker, fillQty), taker, limit, qty - fillQty,
                   Append(fills, [maker |-> maker.id, price |-> price, qty |-> fillQty]))

Rest(sm, side, price, id, qty) ==
    LET book == sm.books[side]
        level == IF price \in DOMAIN book THEN book[price] ELSE <<>>
    IN  [sm EXCEPT !.books[side] = Put1(book, price, Append(level, [id |-> id, qty |-> qty])),
                   !.index = Put1(@, id, [side |-> side, price |-> price])]

Level(sm, id) == sm.books[sm.index[id].side][sm.index[id].price]
Position(sm, id) == CHOOSE i \in DOMAIN Level(sm, id) : Level(sm, id)[i].id = id

RemoveOrder(sm, id) ==
    LET at == sm.index[id]
        level == RemoveAt(Level(sm, id), Position(sm, id))
    IN  [sm EXCEPT !.books[at.side] = IF level = <<>> THEN Erase(@, at.price)
                                      ELSE [@ EXCEPT ![at.price] = level],
                   !.index = Erase(@, id)]

(* order(): where an order rests, and with what quantity.                  *)
OrderOf(sm, id) ==
    [side |-> sm.index[id].side, price |-> sm.index[id].price, qty |-> Level(sm, id)[Position(sm, id)].qty]

(* bestBid(), bestAsk(): the best price of a side and the quantity there.  *)
BestOf(sm, side) ==
    LET book == sm.books[side]
        price == Best(book, Opposite(side))
    IN  IF book = None THEN None
        ELSE <<price, MapThenSumSet(LAMBDA i : book[price][i].qty, DOMAIN book[price])>>

(* NEW, and an AMEND that replaces: match, then rest what is left.         *)
Matched(m, side, price, id) ==
    [sm |-> IF m.residual > 0 THEN Rest(m.sm, side, price, id, m.residual) ELSE m.sm,
     result |-> OkResult(id, m.residual, m.fills)]
Enter(sm, side, price, id, qty) == Matched(Match(sm, side, price, qty, <<>>), side, price, id)

-----------------------------------------------------------------------------
Refused(sm, status) == [sm |-> sm, result |-> U8(status)]

ApplyNew(sm, r) ==
    LET body == GetEach(r, <<1, 8, 8>>)
        side == body.got[4]  price == body.got[5]  qty == body.got[6]
    IN  IF ~Exhausted(body) \/ side > 1 \/ price = 0 \/ qty = 0 THEN Refused(sm, kObMalformed)
        ELSE Enter([sm EXCEPT !.nextOrderId = @ + 1], side, price, sm.nextOrderId, qty)

ApplyCancel(sm, r) ==
    LET body == GetU64(r)
        id == body.got[4]
    IN  CASE ~Exhausted(body) -> Refused(sm, kObMalformed)
          [] Exhausted(body) /\ id \notin DOMAIN sm.index -> Refused(sm, kObReject)
          [] OTHER -> [sm |-> RemoveOrder(sm, id),
                       result |-> OkResult(id, OrderOf(sm, id).qty, <<>>)]

ApplyAmendInPlace(sm, r) ==                                          \* mutant
    LET body == GetEach(r, <<8, 8, 8>>)
        id == body.got[4]  price == body.got[5]  qty == body.got[6]
        at == sm.index[id]
    IN  CASE ~Exhausted(body) \/ price = 0 \/ qty = 0 -> Refused(sm, kObMalformed)
          [] Exhausted(body) /\ price # 0 /\ qty # 0 /\ id \notin DOMAIN sm.index -> Refused(sm, kObReject)
          [] OTHER ->
                IF price = at.price
                THEN [sm |-> [sm EXCEPT !.books[at.side][price][Position(sm, id)].qty = qty],
                      result |-> OkResult(id, qty, <<>>)]
                ELSE Enter(RemoveOrder(sm, id), at.side, price, id, qty)

(* A smaller quantity at the same price keeps the order's place; any other *)
(* amendment leaves the book and comes back under the same id.             *)
ApplyAmend(sm, r) ==
    LET body == GetEach(r, <<8, 8, 8>>)
        id == body.got[4]  price == body.got[5]  qty == body.got[6]
        at == sm.index[id]
    IN  CASE ~Exhausted(body) \/ price = 0 \/ qty = 0 -> Refused(sm, kObMalformed)
          [] Exhausted(body) /\ price # 0 /\ qty # 0 /\ id \notin DOMAIN sm.index -> Refused(sm, kObReject)
          [] OTHER ->
                IF price = at.price /\ qty <= OrderOf(sm, id).qty
                THEN [sm |-> [sm EXCEPT !.books[at.side][price][Position(sm, id)].qty = qty],
                      result |-> OkResult(id, qty, <<>>)]
                ELSE Enter(RemoveOrder(sm, id), at.side, price, id, qty)

(* apply: a duplicate is answered from its session, a malformed command    *)
(* leaves no trace, and client 0 has no session.                           *)
ApplyOp(sm, r) ==
    CASE r.got[3] = 1 -> ApplyNew(sm, r)
      [] r.got[3] = 2 -> ApplyCancel(sm, r)
      [] r.got[3] = 3 -> ApplyAmend(sm, r)

Recorded(done, client, seq) ==
    IF client = 0 \/ done.result = U8(kObMalformed) THEN done
    ELSE [done EXCEPT !.sm.sessions = Put1(@, client, [lastSeq |-> seq, lastResult |-> done.result])]

ApplyRead(sm, r) ==
    LET client == r.got[1]  seq == r.got[2]  op == r.got[3]
    IN  IF ~r.ok \/ op \notin 1..3 THEN Refused(sm, kObMalformed)
        ELSE IF client \in DOMAIN sm.sessions /\ seq <= sm.sessions[client].lastSeq
        THEN [sm |-> sm, result |-> sm.sessions[client].lastResult]
        ELSE Recorded(ApplyOp(sm, r), client, seq)

Apply(sm, cmd) == ApplyRead(sm, GetEach(Reader(cmd), <<8, 8, 1>>))
-----------------------------------------------------------------------------
(* serialize: both books in price order, then the sessions.                *)
SerializeBook(book) ==
    LET prices == Ordered(DOMAIN book)
        order(o) == U64(o.id) \o U64(o.qty)
        level(p) == U64(p) \o U64(Len(book[p])) \o FlattenSeq([i \in DOMAIN book[p] |-> order(book[p][i])])
    IN  U64(Len(prices)) \o FlattenSeq([i \in DOMAIN prices |-> level(prices[i])])

Serialize(sm) ==
    LET clients == Ordered(DOMAIN sm.sessions)
        session(c) == U64(c) \o U64(sm.sessions[c].lastSeq) \o Blob(sm.sessions[c].lastResult)
    IN  U64(sm.nextOrderId) \o SerializeBook(sm.books[Bid]) \o SerializeBook(sm.books[Ask])
            \o U64(Len(clients)) \o FlattenSeq([i \in DOMAIN clients |-> session(clients[i])])

(* deserialize: p is the reader and the machine rebuilt so far.            *)
Failed(p) == [p EXCEPT !.r.ok = FALSE]

ReadOrderUnindexed(p, side, price) ==                                \* mutant
    LET r == GetEach(Reader(p.r.in), <<8, 8>>)
        id == r.got[1]  qty == r.got[2]
    IN  IF ~p.r.ok \/ ~r.ok \/ qty = 0 \/ id \in DOMAIN p.sm.index THEN Failed(p)
        ELSE [r |-> r, sm |-> [Rest(p.sm, side, price, id, qty) EXCEPT !.index = p.sm.index]]

ReadOrder(p, side, price) ==
    LET r == GetEach(Reader(p.r.in), <<8, 8>>)
        id == r.got[1]  qty == r.got[2]
    IN  IF ~p.r.ok \/ ~r.ok \/ qty = 0 \/ id \in DOMAIN p.sm.index THEN Failed(p)
        ELSE [r |-> r, sm |-> Rest(p.sm, side, price, id, qty)]

ReadLevel(p, side) ==
    LET r == GetEach(Reader(p.r.in), <<8, 8>>)
        price == r.got[1]  nOrders == r.got[2]
    IN  IF \/ ~p.r.ok \/ ~r.ok \/ price = 0 \/ nOrders = 0
           \/ nOrders > Remaining(r) \div 16 \/ price \in DOMAIN p.sm.books[side]
        THEN Failed(p)
        ELSE Times(nOrders, [p EXCEPT !.r = r], LAMBDA x : ReadOrder(x, side, price))

ReadBook(p, side) ==
    LET r == GetU64(Reader(p.r.in))
        nLevels == r.got[1]
    IN  IF ~p.r.ok \/ ~r.ok \/ nLevels > Remaining(r) \div 16 THEN Failed(p)
        ELSE Times(nLevels, [p EXCEPT !.r = r], LAMBDA x : ReadLevel(x, side))

ReadSession(p) ==
    LET r == GetBlob(GetEach(Reader(p.r.in), <<8, 8>>))
    IN  IF ~p.r.ok \/ ~r.ok THEN Failed(p)
        ELSE [r |-> r, sm |-> [p.sm EXCEPT !.sessions =
                                  Put1(@, r.got[1], [lastSeq |-> r.got[2], lastResult |-> r.got[4]])]]

ReadSessions(p) ==
    LET r == GetU64(Reader(p.r.in))
        nSessions == r.got[1]
    IN  IF ~p.r.ok \/ ~r.ok \/ nSessions > Remaining(r) \div 20 THEN Failed(p)
        ELSE Times(nSessions, [p EXCEPT !.r = r], LAMBDA x : ReadSession(x))

(* A snapshot that is not taken leaves the machine sm as it was.           *)
Deserialize(sm, bytes) ==
    LET first == GetU64(Reader(bytes))
        start == [r |-> first, sm |-> [EmptyMachine EXCEPT !.nextOrderId = first.got[1]]]
        taken(p) == [ok |-> Exhausted(p.r), sm |-> IF Exhausted(p.r) THEN p.sm ELSE sm]
    IN  taken(ReadSessions(ReadBook(ReadBook(start, Bid), Ask)))

-----------------------------------------------------------------------------
(* The machine runs committed commands beside the reference.               *)
CONSTANTS
    Price, Qty,     \* prices and quantities ordered
    MaxOrders,      \* bound: orders entered
    MaxSeq,         \* bound: commands of client 1, the one with a session
    SessionOrder    \* bound: what client 1 orders

VARIABLES machine, reference
vars == <<machine, reference>>

Ideal == INSTANCE PriceTimePriority

Id == 1..MaxOrders
Order == [op : {"new"}, side : {Bid, Ask}, price : Price, qty : Qty, id : {0}]
    \cup [op : {"cancel"}, id : Id] \cup [op : {"amend"}, id : Id, price : Price, qty : Qty]

Encoded(client, seq, c) ==
    CASE c.op = "new" -> EncodeObNew(client, seq, c.side, c.price, c.qty)
      [] c.op = "cancel" -> EncodeObCancel(client, seq, c.id)
      [] c.op = "amend" -> EncodeObAmend(client, seq, c.id, c.price, c.qty)

Init == machine = EmptyMachine /\ reference = Ideal!Opens

(* Client 0 has no session; client 1 issues its next command or a retry.   *)
Command ==
    LET seqs == {reference.lastSeq, reference.lastSeq + 1} \cap 1..MaxSeq
        possible == {c \in Order : c.op = "new" => machine.nextOrderId <= MaxOrders}
    IN  [client : {0}, seq : {0}, order : possible]
            \cup [client : {1}, seq : seqs, order : possible \cap SessionOrder]

Bytes(cmd) == Encoded(cmd.client, cmd.seq, cmd.order)
Expected(cmd) == Ideal!Done(reference, cmd.client # 0, cmd.seq, cmd.order)

Commit(cmd) == machine' = Apply(machine, Bytes(cmd)).sm /\ reference' = Expected(cmd).ref

Next == \E cmd \in Command : Commit(cmd)
Spec == Init /\ [][Next]_vars

(* A command of each kind, cut short, extended, or of a kind there is not. *)
Spoiled(cmd) == {Front(cmd), Append(cmd, 0), [cmd EXCEPT ![17] = 0], [cmd EXCEPT ![17] = 4]}
Malformed ==
    UNION {Spoiled(cmd) : cmd \in {EncodeObNew(0, 0, Bid, 1, 1), EncodeObCancel(0, 0, 1),
                                   EncodeObAmend(0, 0, 1, 1, 1)}}

(* Price-time priority: what apply() answers to any command, and the book  *)
(* it keeps, are the reference's, through fills, amendments and retries;   *)
(* a command cut short, extended or of an unknown kind leaves no trace.    *)
PriceTime ==
    /\ \A cmd \in Command :
        DecodeObResult(Apply(machine, Bytes(cmd)).result) = Expected(cmd).result
    /\ \A bad \in Malformed : Apply(machine, bad).sm = machine
    /\ DOMAIN machine.index = {reference.orders[i].id : i \in DOMAIN reference.orders}
    /\ \A i \in DOMAIN reference.orders :
        LET o == reference.orders[i]
        IN  OrderOf(machine, o.id) = [side |-> o.side, price |-> o.price, qty |-> o.qty]
    /\ \A side \in {Bid, Ask} : BestOf(machine, side) = Ideal!Best(reference, side)

(* deserialize() restores what serialize() wrote, index and sessions       *)
(* included, and takes nothing else: not a byte less, not a byte more.     *)
SnapshotExact ==
    LET bytes == Serialize(machine)
        refused(other) == Deserialize(machine, other) = [ok |-> FALSE, sm |-> machine]
    IN  /\ Deserialize(EmptyMachine, bytes) = [ok |-> TRUE, sm |-> machine]
        /\ \A n \in {k \in 1..(Len(bytes) - 1) : k % 8 = 4} : refused(SubSeq(bytes, 1, n))
        /\ refused(Append(bytes, 0))
=============================================================================
