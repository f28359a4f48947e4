---------------------------- MODULE ReplicatedLog ----------------------------
(***************************************************************************)
(* What the consensus core promises to the layer above it: the cluster     *)
(* chooses one sequence of entries that only ever grows, and every replica *)
(* is fed that sequence, in order and without gaps, from the start of each *)
(* of its lives.  Nothing is said about leaders, terms or messages.        *)
(***************************************************************************)
EXTENDS Integers, Sequences

CONSTANTS Replica, Value

VARIABLES
    chosen,  \* the sequence the cluster has agreed on so far
    out      \* out[r]: what replica r was fed since it last started

IsPrefix(s, t) == Len(s) <= Len(t) /\ s = SubSeq(t, 1, Len(s))

Init ==
    /\ chosen = <<>>
    /\ out = [r \in Replica |-> <<>>]

(* The cluster may choose more, and replica r may be fed more of it.       *)
Progress(r) ==
    /\ IsPrefix(chosen, chosen')
    /\ out' = [out EXCEPT ![r] = out'[r]]
    /\ IsPrefix(out[r], out'[r])
    /\ IsPrefix(out'[r], chosen')

(* Replica r loses its state and will be fed from the start again.         *)
Restart(r) ==
    /\ out' = [out EXCEPT ![r] = <<>>]
    /\ UNCHANGED chosen

Next == \E r \in Replica : Progress(r) \/ Restart(r)

Spec == Init /\ [][Next]_<<chosen, out>>
=============================================================================
