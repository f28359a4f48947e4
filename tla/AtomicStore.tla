---------------------------- MODULE AtomicStore -----------------------------
(***************************************************************************)
(* What RaftLog and PersistentState (src/src/storage/log.h,                *)
(* src/src/raft/persistent_state.h) promise RaftCore: a call takes effect  *)
(* before it returns; a crash in the middle of one leaves the effect or    *)
(* not, an append at most cut short.                                       *)
(***************************************************************************)
EXTENDS Integers, Sequences

CONSTANTS Batch, MaxSaves

VARIABLES log, pair, asked

None == [op |-> "none"]

Effect(c) ==
    CASE c.op = "append" -> log \o c.es
      [] c.op = "truncate" -> SubSeq(log, 1, c.from - 1)
      [] OTHER -> log

Init == log = <<>> /\ pair = 0 /\ asked = None

Ask(c) == asked = None /\ asked' = c /\ UNCHANGED <<log, pair>>

Return ==
    /\ asked # None /\ asked' = None
    /\ log' = Effect(asked)
    /\ pair' = IF asked.op = "save" THEN asked.v ELSE pair

Crash ==
    /\ asked # None /\ asked' = None
    /\ \/ pair' = pair /\ log' = log
       \/ pair' = pair /\ asked.op = "append"
          /\ \E n \in 1..Len(asked.es) : log' = log \o SubSeq(asked.es, 1, n)
       \/ pair' = pair /\ asked.op = "truncate" /\ log' = Effect(asked)
       \/ log' = log /\ asked.op = "save" /\ pair' = asked.v

Next ==
    \/ \E es \in Batch : Ask([op |-> "append", es |-> es])
    \/ \E i \in 1..Len(log) : Ask([op |-> "truncate", from |-> i])
    \/ \E v \in 1..MaxSaves : Ask([op |-> "save", v |-> v])
    \/ Return \/ Crash

Spec == Init /\ [][Next]_<<log, pair, asked>>
=============================================================================
