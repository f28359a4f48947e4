--------------------------- MODULE RaftRefinement ---------------------------
(***************************************************************************)
(* RaftCore as an implementation of ReplicatedLog.                         *)
(***************************************************************************)
EXTENDS RaftCore

(* The core implements the promise of ReplicatedLog: "chosen" is the       *)
(* record of committed entries, "out" what applyCommitted handed to the    *)
(* state machine or to the sink.                                           *)
Promise == INSTANCE ReplicatedLog WITH
    Replica <- Node, Value <- Entry,
    chosen <- [k \in DOMAIN committed |-> committed[k].entry], out <- applied

ImplementsReplicatedLog == Promise!Spec
=============================================================================
