----------------------------- MODULE MCSessions -----------------------------
(***************************************************************************)
(* ClientSessions for TLC: one node proposes at once, the others batch.    *)
(***************************************************************************)
EXTENDS ClientSessions
Limits == [s \in Server |-> IF s = 1 THEN 1 ELSE 2]
Scripts == [c \in Client |-> IF c = 1 THEN <<"append", "get">> ELSE <<"cas", "append">>]
=============================================================================
