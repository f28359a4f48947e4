------------------------------ MODULE MpscRing ------------------------------
(***************************************************************************)
(* The multi-producer single-consumer ring of src/src/runtime/mpsc_ring.h, *)
(* one action per access of a shared atomic and two for the write of a     *)
(* cell's value.  tryPush and tryProduce are one protocol, and so are      *)
(* tryPop and tryConsume.                                                  *)
(*                                                                         *)
(* A relaxed load of enqueuePos_ returns any value since the last one this *)
(* producer saw; an acquire load of a cell's seq returns any value the     *)
(* cell has had; the compare-and-exchange compares with the latest value   *)
(* and, being the weak form, may also fail for no reason.                  *)
(***************************************************************************)
EXTENDS Integers, Sequences

CONSTANTS Producer, Value, Torn, Capacity, MaxItems

(* The constructor makes every ring at least two cells large.              *)
RingSizeOK == Capacity \in Nat \ {0, 1}

VARIABLES
    seq,         \* cells_[i].seq
    value,       \* cells_[i].value, Torn while it is written
    enqueuePos,  \* enqueuePos_
    dequeuePos,  \* dequeuePos_
    producing,   \* where each producer is in tryProduce
    pos,         \* the position it tries, or owns
    item,        \* the value it pushes
    consuming,   \* where the consumer is in tryConsume
    claimed,     \* the value pushed at each position, in order (observer)
    received     \* every value read out of a cell, in order (observer)

cells == <<seq, value>>
local == <<pos, item>>
consumer == <<dequeuePos, consuming, received>>
vars == <<cells, enqueuePos, claimed, producing, local, consumer>>

Cell == 0..(Capacity - 1)
CellOf(position) == position % Capacity

(* Every value the seq of cell c has had so far.                           *)
SeqsSoFar(c) == {s \in c..seq[c] : CellOf(s) = c \/ CellOf(s - 1) = c}

Init ==
    /\ seq = [c \in Cell |-> c]
    /\ value = [c \in Cell |-> Torn]
    /\ enqueuePos = 0 /\ dequeuePos = 0
    /\ producing = [p \in Producer |-> "idle"]
    /\ pos = [p \in Producer |-> 0]
    /\ item = [p \in Producer |-> Torn]
    /\ consuming = "idle"
    /\ claimed = <<>> /\ received = <<>>

Goto(p, step) == producing' = [producing EXCEPT ![p] = step]
LoadPos(p) == \E seen \in pos[p]..enqueuePos : pos' = [pos EXCEPT ![p] = seen]

-----------------------------------------------------------------------------
BeginProduce(p, v) ==
    /\ producing[p] = "idle"
    /\ enqueuePos < MaxItems
    /\ LoadPos(p)
    /\ item' = [item EXCEPT ![p] = v]
    /\ Goto(p, "load")
    /\ UNCHANGED <<cells, enqueuePos, claimed, consumer>>

(* dif == 0: claim the position; dif < 0: the ring is full, return false;  *)
(* dif > 0: another producer claimed it, chase the tail.                   *)
LoadSeq(p) ==
    /\ producing[p] = "load"
    /\ \E s \in SeqsSoFar(CellOf(pos[p])) :
         \/ s = pos[p] /\ Goto(p, "claim") /\ UNCHANGED pos
         \/ s < pos[p] /\ Goto(p, "idle") /\ UNCHANGED pos
         \/ s > pos[p] /\ LoadPos(p) /\ UNCHANGED producing
    /\ UNCHANGED <<cells, enqueuePos, claimed, item, consumer>>

TakePosition(p) ==
    /\ enqueuePos' = enqueuePos + 1
    /\ claimed' = Append(claimed, item[p])
    /\ Goto(p, "fill")
    /\ UNCHANGED <<cells, local, consumer>>

ClaimUnchecked(p) == producing[p] = "claim" /\ TakePosition(p)       \* mutant

Claim(p) ==
    /\ producing[p] = "claim"
    /\ enqueuePos = pos[p]
    /\ TakePosition(p)

(* The exchange fails; it leaves the value it read in pos.                 *)
ClaimFails(p) ==
    /\ producing[p] = "claim"
    /\ LoadPos(p)
    /\ Goto(p, "load")
    /\ UNCHANGED <<cells, enqueuePos, claimed, item, consumer>>

StartFill(p) ==
    /\ producing[p] = "fill"
    /\ value' = [value EXCEPT ![CellOf(pos[p])] = Torn]
    /\ Goto(p, "filling")
    /\ UNCHANGED <<seq, enqueuePos, claimed, local, consumer>>

EndFill(p) ==
    /\ producing[p] = "filling"
    /\ value' = [value EXCEPT ![CellOf(pos[p])] = item[p]]
    /\ Goto(p, "publish")
    /\ UNCHANGED <<seq, enqueuePos, claimed, local, consumer>>

Publish(p) ==
    /\ producing[p] = "publish"
    /\ seq' = [seq EXCEPT ![CellOf(pos[p])] = pos[p] + 1]
    /\ pos' = [pos EXCEPT ![p] = pos[p] + 1]
    /\ Goto(p, "idle")
    /\ UNCHANGED <<value, enqueuePos, claimed, item, consumer>>

-----------------------------------------------------------------------------
Published(s) == s = dequeuePos + 1

(* The look of tryConsume, tryPop and consumerHasWork at the next cell.    *)
LookForWork ==
    /\ consuming = "idle"
    /\ \E s \in SeqsSoFar(CellOf(dequeuePos)) :
         consuming' = IF Published(s) THEN "use" ELSE "idle"
    /\ UNCHANGED <<cells, enqueuePos, claimed, producing, local, dequeuePos, received>>

Use ==
    /\ consuming = "use"
    /\ received' = Append(received, value[CellOf(dequeuePos)])
    /\ consuming' = "recycle"
    /\ UNCHANGED <<cells, enqueuePos, claimed, producing, local, dequeuePos>>

Recycle ==
    /\ consuming = "recycle"
    /\ seq' = [seq EXCEPT ![CellOf(dequeuePos)] = dequeuePos + Capacity]
    /\ dequeuePos' = dequeuePos + 1
    /\ consuming' = "idle"
    /\ UNCHANGED <<value, enqueuePos, claimed, producing, local, received>>

Produce(p) ==
    \/ \E v \in Value : BeginProduce(p, v)
    \/ LoadSeq(p) \/ Claim(p) \/ ClaimFails(p)
    \/ StartFill(p) \/ EndFill(p) \/ Publish(p)
Consume == LookForWork \/ Use \/ Recycle

Next == (\E p \in Producer : Produce(p)) \/ Consume
Spec == Init /\ [][Next]_vars

-----------------------------------------------------------------------------
Owns(p) == producing[p] \in {"fill", "filling", "publish"}

TypeOK ==
    /\ seq \in [Cell -> Nat] /\ value \in [Cell -> Value \cup {Torn}]
    /\ enqueuePos \in Nat /\ dequeuePos \in Nat
    /\ producing \in [Producer -> {"idle", "load", "claim", "fill", "filling", "publish"}]
    /\ pos \in [Producer -> Nat] /\ item \in [Producer -> Value \cup {Torn}]
    /\ consuming \in {"idle", "use", "recycle"}
    /\ claimed \in Seq(Value) /\ received \in Seq(Value)

(* What the consumer reads is what the producers pushed, in the order in   *)
(* which they claimed their positions: no value is lost, repeated, torn or *)
(* overtaken, however late a producer publishes and however stale a load.  *)
FirstInFirstOut ==
    /\ Len(received) <= Len(claimed)
    /\ \A i \in 1..Len(received) : received[i] = claimed[i]

(* No two producers own one cell, and none owns the cell being read.       *)
ExclusiveCells ==
    \A p \in Producer : Owns(p) =>
      /\ \A q \in Producer \ {p} : Owns(q) => CellOf(pos[p]) # CellOf(pos[q])
      /\ consuming = "use" => CellOf(pos[p]) # CellOf(dequeuePos)

(* The ring as a queue: a value is put when its position is claimed and    *)
(* taken when its cell is recycled.                                        *)
queued == SubSeq(claimed, dequeuePos + 1, enqueuePos)
=============================================================================
