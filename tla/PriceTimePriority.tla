------------------------- MODULE PriceTimePriority --------------------------
(***************************************************************************)
(* What a matching engine promises, without levels, index or bytes: the    *)
(* resting orders in order of time, and a taker served by price, then by   *)
(* time.  The reference OrderBook is checked against.                      *)
(***************************************************************************)
EXTENDS Integers, Sequences, FiniteSets, FiniteSetsExt, SequencesExt

Ok(id, resting, fills) == [status |-> 1, orderId |-> id, restingQty |-> resting, fills |-> fills]
Reject == [status |-> 2]
Malformed == [status |-> 3]

Opens == [orders |-> <<>>, nextId |-> 1, lastSeq |-> 0, lastResult |-> Malformed]

Willing(order, taker, limit) ==
    /\ order.side # taker
    /\ IF taker = 0 THEN order.price <= limit ELSE order.price >= limit

(* Order i is served before order j.                                       *)
Ahead(os, taker, i, j) ==
    \/ IF taker = 0 THEN os[i].price < os[j].price ELSE os[i].price > os[j].price
    \/ os[i].price = os[j].price /\ i < j

(* What order i gives a taker: what those ahead of it leave, at most its   *)
(* own quantity.                                                           *)
Given(os, taker, limit, qty, i) ==
    LET ahead == {j \in DOMAIN os : Willing(os[j], taker, limit) /\ Ahead(os, taker, j, i)}
        wanted == qty - MapThenSumSet(LAMBDA j : os[j].qty, ahead)
    IN  IF Willing(os[i], taker, limit) THEN Max({0, Min({os[i].qty, wanted})}) ELSE 0

(* A taker takes what it is given; what is left of it rests, last in time. *)
Entered(os, side, price, id, qty) ==
    LET given(i) == Given(os, side, price, qty, i)
        makers == SetToSortSeq({i \in DOMAIN os : given(i) > 0}, LAMBDA i, j : Ahead(os, side, i, j))
        residual == qty - MapThenSumSet(given, DOMAIN os)
        kept == SelectSeq([i \in DOMAIN os |-> [os[i] EXCEPT !.qty = @ - given(i)]], LAMBDA o : o.qty > 0)
        taker == [id |-> id, side |-> side, price |-> price, qty |-> residual]
    IN  [orders |-> IF residual > 0 THEN Append(kept, taker) ELSE kept,
         result |-> Ok(id, residual, [k \in DOMAIN makers |->
                        [maker |-> os[makers[k]].id, price |-> os[makers[k]].price, qty |-> given(makers[k])]])]

(* What a well-formed command does.                                        *)
Executed(ref, c) ==
    LET os == ref.orders
        mine == {i \in DOMAIN os : os[i].id = c.id}
        i == CHOOSE k \in mine : TRUE
        with(e) == [orders |-> e.orders, nextId |-> ref.nextId, result |-> e.result]
    IN  CASE c.op = "new" ->
                [with(Entered(os, c.side, c.price, ref.nextId, c.qty)) EXCEPT !.nextId = @ + 1]
          [] c.op # "new" /\ mine = {} -> with([orders |-> os, result |-> Reject])
          [] c.op = "cancel" /\ mine # {} ->
                with([orders |-> RemoveAt(os, i), result |-> Ok(c.id, os[i].qty, <<>>)])
          [] c.op = "amend" /\ mine # {} ->
                IF c.price = os[i].price /\ c.qty <= os[i].qty
                THEN with([orders |-> [os EXCEPT ![i].qty = c.qty], result |-> Ok(c.id, c.qty, <<>>)])
                ELSE with(Entered(RemoveAt(os, i), os[i].side, c.price, c.id, c.qty))

(* The price at which a side is served first, and all it offers there.     *)
Best(ref, side) ==
    LET os == ref.orders
        mine == {i \in DOMAIN os : os[i].side = side}
        first == CHOOSE i \in mine : \A j \in mine \ {i} : Ahead(os, 1 - side, i, j)
        there == {i \in mine : os[i].price = os[first].price}
    IN  IF mine = {} THEN <<>> ELSE <<os[first].price, MapThenSumSet(LAMBDA i : os[i].qty, there)>>

(* A command of a session is executed once; a retry gets the same answer.  *)
Done(ref, session, seq, c) ==
    LET after(e) == [ref EXCEPT !.orders = e.orders, !.nextId = e.nextId,
                                !.lastSeq = IF session THEN seq ELSE @,
                                !.lastResult = IF session THEN e.result ELSE @]
        told(e) == [ref |-> after(e), result |-> e.result]
    IN  IF session /\ seq <= ref.lastSeq THEN [ref |-> ref, result |-> ref.lastResult]
        ELSE told(Executed(ref, c))
=============================================================================
