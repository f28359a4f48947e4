------------------------------ MODULE KvStore -------------------------------
(***************************************************************************)
(* KVStateMachine (src/src/statemachine/kv_store.cpp): what a command does *)
(* to the map and to the session table, and the result it returns.  A      *)
(* value is the sequence of the writes it is made of.                      *)
(***************************************************************************)
EXTENDS Integers, Sequences

CONSTANT Client

NoSession == [lastSeq |-> 0, lastResult |-> <<"none">>]
EmptyStore == [kv |-> <<>>, sessions |-> [c \in Client |-> NoSession]]

Current(kv, k) == IF k \in DOMAIN kv THEN kv[k] ELSE <<>>
With(kv, k, v) == [x \in DOMAIN kv \cup {k} |-> IF x = k THEN v ELSE kv[x]]
Without(kv, k) == [x \in DOMAIN kv \ {k} |-> kv[x]]

(* applyOp: the map afterwards and the result, a status and its payload.   *)
ApplyOp(kv, op) ==
    LET k == op.key
        appended == Current(kv, k) \o op.arg
        put(v) == [kv |-> With(kv, k, v), result |-> <<"O">>]
        no(status) == [kv |-> kv, result |-> <<status>>]
    IN  CASE op.type = "put" -> put(op.arg)
          [] op.type = "get" ->
                 IF k \in DOMAIN kv THEN [kv |-> kv, result |-> <<"O", kv[k]>>] ELSE no("N")
          [] op.type = "delete" ->
                 IF k \in DOMAIN kv THEN [kv |-> Without(kv, k), result |-> <<"O">>] ELSE no("N")
          [] op.type = "cas" ->
                 IF Current(kv, k) = op.expect THEN put(op.arg) ELSE no("F")
          [] op.type = "append" ->
                 [kv |-> With(kv, k, appended), result |-> <<"O", appended>>]

IsDuplicateOnlyOlder(st, cmd) == cmd.seq < st.sessions[cmd.client].lastSeq   \* mutant
IsDuplicate(st, cmd) == cmd.seq <= st.sessions[cmd.client].lastSeq

(* apply: a duplicate returns the cached result and changes nothing.       *)
Apply(st, cmd) ==
    LET r == ApplyOp(st.kv, cmd.op)
    IN  IF IsDuplicate(st, cmd)
        THEN [store |-> st, result |-> st.sessions[cmd.client].lastResult]
        ELSE [store |-> [kv |-> r.kv,
                         sessions |-> [st.sessions EXCEPT ![cmd.client] =
                                           [lastSeq |-> cmd.seq, lastResult |-> r.result]]],
              result |-> r.result]
=============================================================================
