-------------------------- MODULE Linearizability ---------------------------
(***************************************************************************)
(* The chaos runs' linearizability checker                                 *)
(* (src/faults/linearizability.cpp) on the histories its clients record    *)
(* (History in src/faults/sim_client.cpp): a search over one key at a time *)
(* with its memo, beside the definition over the whole store.              *)
(***************************************************************************)
EXTENDS Integers, Sequences, FiniteSets, FiniteSetsExt, SequencesExt

CONSTANTS
    Caller,     \* the clients, each with one operation outstanding
    Observed,   \* the operations, each with a result it may be told
    MaxOps, MaxMs   \* bounds: operations recorded, virtual time

Kv == INSTANCE KvStore WITH Client <- Caller

VARIABLES history, nowMs
vars == <<history, nowMs>>

Complete(op) == op.returnMs >= 0
Pending == -1

Init == history = <<>> /\ nowMs = 0

Invoke(c, op) ==
    /\ Len(history) < MaxOps
    /\ \A i \in DOMAIN history : history[i].client = c => Complete(history[i])
    /\ history' = Append(history, [client |-> c, seq |-> Len(history) + 1, op |-> op,
                                   invokeMs |-> nowMs, returnMs |-> Pending, result |-> <<>>])
    /\ UNCHANGED nowMs

Acked(i, result) ==
    /\ ~Complete(history[i])
    /\ <<history[i].op, result>> \in Observed
    /\ history' = [history EXCEPT ![i].returnMs = nowMs, ![i].result = result]
    /\ UNCHANGED nowMs

Tick == nowMs < MaxMs /\ nowMs' = nowMs + 1 /\ UNCHANGED history

Next ==
    \/ \E c \in Caller, o \in Observed : Invoke(c, o[1])
    \/ \E i \in DOMAIN history, o \in Observed : Acked(i, o[2])
    \/ Tick

Spec == Init /\ [][Next]_vars

-----------------------------------------------------------------------------
Absent == [present |-> FALSE, value |-> <<>>]
Present(v) == [present |-> TRUE, value |-> v]

(* kvModelApply: the register afterwards and the result.                   *)
KvModelApply(reg, op) ==
    LET appended == reg.value \o op.arg
    IN  CASE op.type = "put" -> [reg |-> Present(op.arg), result |-> <<"O">>]
          [] op.type = "get" -> [reg |-> reg, result |-> IF reg.present THEN <<"O", reg.value>> ELSE <<"N">>]
          [] op.type = "delete" -> [reg |-> Absent, result |-> IF reg.present THEN <<"O">> ELSE <<"N">>]
          [] op.type = "cas" ->
                IF (IF reg.present THEN reg.value ELSE <<>>) # op.expect THEN [reg |-> reg, result |-> <<"F">>]
                ELSE [reg |-> Present(op.arg), result |-> <<"O">>]
          [] op.type = "append" -> [reg |-> Present(appended), result |-> <<"O", appended>>]

MemoKeyMaskOnly(mask, reg) == <<mask>>                               \* mutant
MemoKey(mask, reg) == <<mask, reg>>

(* dfs: mask is the set of operations taken, visited the memo, threaded    *)
(* through the branches tried before.                                      *)
RECURSIVE Dfs(_, _, _, _)
Dfs(ops, mask, reg, visited) ==
    LET waiting == {i \in DOMAIN ops \ mask : Complete(ops[i])}
        minReturn == Min({ops[i].returnMs : i \in waiting})
        try(acc, i) ==
            LET next == KvModelApply(reg, ops[i].op)
            IN  IF \/ acc.found \/ i \in mask \/ ops[i].invokeMs > minReturn
                   \/ (Complete(ops[i]) /\ next.result # ops[i].result)
                THEN acc ELSE Dfs(ops, mask \cup {i}, next.reg, acc.visited)
    IN  IF waiting = {} THEN [found |-> TRUE, visited |-> visited]
        ELSE IF MemoKey(mask, reg) \in visited THEN [found |-> FALSE, visited |-> visited]
        ELSE FoldLeft(try, [found |-> FALSE, visited |-> visited \cup {MemoKey(mask, reg)}],
                      [i \in DOMAIN ops |-> i])

(* checkLinearizable: each key's operations, by invocation.                *)
Before(a, b) ==
    \/ a.invokeMs < b.invokeMs
    \/ a.invokeMs = b.invokeMs /\ (a.client < b.client \/ (a.client = b.client /\ a.seq < b.seq))
OfKey(k) == SortSeq(SelectSeq(history, LAMBDA o : o.op.key = k), Before)
CheckLinearizable ==
    \A k \in {history[i].op.key : i \in DOMAIN history} : Dfs(OfKey(k), {}, Absent, {}).found

-----------------------------------------------------------------------------
(* The definition: an order of all that completed and some that did not,   *)
(* that keeps real time, in which the store gives the results seen.        *)
KeepsRealTime(order) ==
    \A a, b \in DOMAIN order : a < b =>
        ~(Complete(history[order[b]]) /\ history[order[b]].returnMs < history[order[a]].invokeMs)

GivesResults(order) ==
    LET step(acc, i) ==
            LET r == Kv!ApplyOp(acc.kv, history[i].op)
            IN  [kv |-> r.kv, ok |-> acc.ok /\ (Complete(history[i]) => r.result = history[i].result)]
    IN  FoldLeft(step, [kv |-> <<>>, ok |-> TRUE], order).ok

IsLinearizable ==
    LET completed == {i \in DOMAIN history : Complete(history[i])}
    IN  \E some \in SUBSET (DOMAIN history \ completed) :
            \E order \in SetToSeqs(completed \cup some) : KeepsRealTime(order) /\ GivesResults(order)

(* The checker neither passes a history that is not linearizable nor fails *)
(* one that is, with pending operations, equal times, and keys checked one *)
(* by one.                                                                 *)
CheckerIsExact == CheckLinearizable <=> IsLinearizable
=============================================================================
