--------------------------- MODULE MpscRingProofs ---------------------------
(***************************************************************************)
(* The ring of MpscRing.tla is a first-in first-out queue for every        *)
(* capacity of at least two, every set of producers and values and every   *)
(* interleaving, with loads that may return stale values.                  *)
(***************************************************************************)
EXTENDS MpscRing, SequenceTheorems, TLAPS

(* How the two positions and the histories bound one another.              *)
Positions ==
    /\ dequeuePos <= enqueuePos /\ enqueuePos <= dequeuePos + Capacity
    /\ Len(claimed) = enqueuePos
    /\ Len(received) = IF consuming = "recycle" THEN dequeuePos + 1 ELSE dequeuePos

(* The lap from dequeuePos_ on uses every cell once.  Its seq tells whose  *)
(* turn it is: the position itself for a producer, or one more once the    *)
(* cell holds what was claimed there.                                      *)
Cells ==
    \A k \in Nat : dequeuePos <= k /\ k < dequeuePos + Capacity =>
        \/ seq[CellOf(k)] = k
        \/ /\ k < enqueuePos
           /\ seq[CellOf(k)] = k + 1
           /\ value[CellOf(k)] = claimed[k + 1]

(* What the consumer found published stays so until it recycles the cell.  *)
Found == consuming # "idle" => seq[CellOf(dequeuePos)] = dequeuePos + 1

(* A producer that is about to claim saw its cell free at that position; a *)
(* producer that did claim has the cell to itself.                         *)
Claims ==
    \A p \in Producer :
        /\ pos[p] <= enqueuePos
        /\ producing[p] # "idle" => item[p] \in Value
        /\ producing[p] = "claim" => seq[CellOf(pos[p])] >= pos[p]
        /\ Owns(p) =>
             /\ dequeuePos <= pos[p] /\ pos[p] < enqueuePos
             /\ seq[CellOf(pos[p])] = pos[p]
             /\ item[p] = claimed[pos[p] + 1]
             /\ \A q \in Producer \ {p} : Owns(q) => pos[p] # pos[q]
        /\ producing[p] = "publish" => value[CellOf(pos[p])] = item[p]

IInv == RingSizeOK /\ TypeOK /\ Positions /\ Cells /\ Found /\ Claims /\ FirstInFirstOut

(* A quotient and a remainder, with the remainder in range.                *)
LEMMA Division ==
    ASSUME RingSizeOK, NEW a \in Nat
    PROVE  \E q \in Int : a = Capacity * q + CellOf(a) /\ CellOf(a) \in Cell
<1>1. Capacity \in Nat /\ Capacity > 0  BY DEF RingSizeOK
<1>2. a \div Capacity \in Int  BY <1>1
<1>3. a = Capacity * (a \div Capacity) + (a % Capacity)  BY <1>1
<1>4. a % Capacity \in 0..(Capacity - 1)  BY <1>1
<1> QED BY <1>2, <1>3, <1>4 DEF CellOf, Cell

(* Positions less than a lap apart use different cells of cells_.          *)
LEMMA CellsDistinct ==
    ASSUME RingSizeOK, NEW a \in Nat, NEW b \in Nat, a < b, b - a < Capacity
    PROVE  CellOf(a) # CellOf(b)
<1>1. Capacity \in Nat /\ Capacity > 0  BY DEF RingSizeOK
<1>2. PICK q \in Int : a = Capacity * q + CellOf(a) /\ CellOf(a) \in Cell  BY Division
<1>3. PICK r \in Int : b = Capacity * r + CellOf(b)  BY Division
<1>4. SUFFICES ASSUME CellOf(a) = CellOf(b)  PROVE FALSE  OBVIOUS
<1>5. CellOf(a) \in Int  BY <1>1, <1>2 DEF Cell
<1>6. b - a = Capacity * (r - q)  BY <1>1, <1>2, <1>3, <1>4, <1>5
<1>7. r - q >= 1  BY <1>1, <1>6
<1>8. Capacity * (r - q) >= Capacity  BY <1>1, <1>7
<1> QED BY <1>1, <1>6, <1>8

(* A lap later the same cell comes round.                                  *)
LEMMA LapCloses ==
    ASSUME RingSizeOK, NEW a \in Nat
    PROVE  CellOf(a + Capacity) = CellOf(a)
<1>1. Capacity \in Nat /\ Capacity > 0 /\ a + Capacity \in Nat  BY DEF RingSizeOK
<1>2. PICK q \in Int : a = Capacity * q + CellOf(a) /\ CellOf(a) \in Cell  BY Division
<1>3. PICK r \in Int : a + Capacity = Capacity * r + CellOf(a + Capacity) /\ CellOf(a + Capacity) \in Cell
  BY <1>1, Division
<1> DEFINE u == CellOf(a)
           w == CellOf(a + Capacity)
<1>4. u \in 0..(Capacity - 1) /\ w \in 0..(Capacity - 1)  BY <1>2, <1>3 DEF Cell
<1>5. a = Capacity * q + u /\ a + Capacity = Capacity * r + w  BY <1>2, <1>3
<1> HIDE DEF u, w
<1>6. u - w = Capacity * (r - q - 1)  BY <1>1, <1>4, <1>5
<1>7. CASE r - q - 1 >= 1
  <2>1. Capacity * (r - q - 1) >= Capacity  BY <1>1, <1>7
  <2> QED BY <1>1, <1>4, <1>6, <2>1
<1>8. CASE r - q - 1 <= -1
  <2>1. Capacity * (r - q - 1) <= -Capacity  BY <1>1, <1>8
  <2> QED BY <1>1, <1>4, <1>6, <2>1
<1>9. CASE r - q - 1 = 0
  BY <1>1, <1>4, <1>6, <1>9 DEF u, w
<1> QED BY <1>7, <1>8, <1>9

(* The same, whichever of the two comes first.                             *)
LEMMA OtherCell ==
    ASSUME RingSizeOK, NEW j \in Nat, NEW k \in Nat, k # j, k - j < Capacity, j - k < Capacity
    PROVE  CellOf(k) # CellOf(j)
<1>1. CASE k < j  BY <1>1, CellsDistinct
<1>2. CASE j < k  BY <1>2, CellsDistinct
<1> QED BY <1>1, <1>2

(* The empty ring: cell i is free for position i.                          *)
LEMMA InitEstablishesInv == RingSizeOK /\ Init => IInv
<1> SUFFICES ASSUME RingSizeOK, Init PROVE IInv
  OBVIOUS
<1>1. Capacity \in Nat /\ Capacity > 1  BY DEF RingSizeOK
<1>2. TypeOK
  <2>1. seq \in [Cell -> Nat]  BY <1>1 DEF Init, Cell
  <2>2. claimed \in Seq(Value) /\ received \in Seq(Value)  BY DEF Init
  <2>3. enqueuePos \in Nat /\ dequeuePos \in Nat /\ pos \in [Producer -> Nat]  BY DEF Init
  <2> QED BY <2>1, <2>2, <2>3, Zenon DEF Init, TypeOK
<1>5. Positions /\ FirstInFirstOut /\ Found
  <2>1. Found  BY Zenon DEF Init, Found
  <2>2. Len(claimed) = 0 /\ Len(received) = 0 /\ consuming = "idle"  BY DEF Init
  <2>3. enqueuePos = 0 /\ dequeuePos = 0  BY DEF Init
  <2> QED BY <1>1, <2>1, <2>2, <2>3 DEF Positions, FirstInFirstOut
<1>3. Cells
  <2> SUFFICES ASSUME NEW k \in Nat, k < Capacity PROVE seq[CellOf(k)] = k
    BY <1>1 DEF Cells, Init
  <2>1. k % Capacity = k  BY <1>1
  <2> QED BY <1>1, <2>1 DEF CellOf, Init, Cell
<1>4. Claims
  <2>1. \A p \in Producer : producing[p] = "idle" /\ pos[p] = 0 /\ enqueuePos = 0  BY DEF Init
  <2>2. \A p \in Producer : ~Owns(p) /\ producing[p] # "claim" /\ producing[p] # "publish"
    BY <2>1 DEF Owns
  <2>3. \A p \in Producer : pos[p] <= enqueuePos
    <3>1. \A i, j \in Nat : i = j => i <= j  OBVIOUS
    <3>2. \A p \in Producer : pos[p] = enqueuePos /\ pos[p] \in Nat /\ enqueuePos \in Nat  BY <2>1, Zenon, <1>2 DEF TypeOK
    <3> QED BY <3>1, <3>2, Zenon
  <2> QED BY <2>1, <2>2, <2>3, Zenon DEF Claims
<1> QED BY <1>2, <1>3, <1>4, <1>5 DEF IInv

(* What the proofs of all steps start from.                                *)
LEMMA Basics ==
    ASSUME IInv
    PROVE  /\ RingSizeOK /\ Capacity \in Nat /\ Capacity > 1 /\ dequeuePos \in Nat /\ enqueuePos \in Nat
           /\ DOMAIN seq = Cell /\ DOMAIN value = Cell
           /\ \A k \in Nat : CellOf(k) \in Cell /\ seq[CellOf(k)] \in Nat
           /\ \A p \in Producer : pos[p] \in Nat
<1>1. RingSizeOK  BY DEF IInv
<1>2. \A k \in Nat : CellOf(k) \in Cell  BY <1>1, Division
<1> QED BY <1>1, <1>2 DEF IInv, TypeOK, RingSizeOK

(* The seq of the oldest cell is its position, or one more.                *)
LEMMA OldestCell ==
    ASSUME IInv
    PROVE  \/ seq[CellOf(dequeuePos)] = dequeuePos
           \/ /\ dequeuePos < enqueuePos
              /\ seq[CellOf(dequeuePos)] = dequeuePos + 1
              /\ value[CellOf(dequeuePos)] = claimed[dequeuePos + 1]
<1>1. dequeuePos \in Nat /\ dequeuePos < dequeuePos + Capacity  BY Basics
<1> QED BY <1>1 DEF IInv, Cells

(* A producer that does not own a cell, and moves only itself.             *)
LEMMA QuietProducer ==
    ASSUME IInv, NEW p \in Producer, TypeOK', ~Owns(p), ~Owns(p)',
           UNCHANGED <<cells, enqueuePos, claimed, consumer>>,
           \A q \in Producer \ {p} : pos'[q] = pos[q] /\ item'[q] = item[q] /\ producing'[q] = producing[q],
           pos'[p] <= enqueuePos,
           producing'[p] # "idle" => item'[p] \in Value,
           producing'[p] = "claim" => seq[CellOf(pos'[p])] >= pos'[p]
    PROVE  IInv'
<1>1. UNCHANGED <<seq, value, enqueuePos, dequeuePos, consuming, claimed, received>>
  BY DEF cells, consumer
<1>2. (RingSizeOK /\ Positions /\ Cells /\ Found /\ FirstInFirstOut)'
  BY <1>1 DEF IInv, RingSizeOK, Positions, Cells, Found, FirstInFirstOut
<1>3. Claims'
  <2> SUFFICES ASSUME NEW q \in Producer
               PROVE  /\ pos'[q] <= enqueuePos'
                      /\ producing'[q] # "idle" => item'[q] \in Value
                      /\ producing'[q] = "claim" => seq'[CellOf(pos'[q])] >= pos'[q]
                      /\ Owns(q)' =>
                           /\ dequeuePos' <= pos'[q] /\ pos'[q] < enqueuePos'
                           /\ seq'[CellOf(pos'[q])] = pos'[q]
                           /\ item'[q] = claimed'[pos'[q] + 1]
                           /\ \A r \in Producer \ {q} : Owns(r)' => pos'[q] # pos'[r]
                      /\ producing'[q] = "publish" => value'[CellOf(pos'[q])] = item'[q]
    BY DEF Claims
  <2>1. CASE q = p
    BY <1>1, <2>1 DEF Owns
  <2>2. CASE q # p
    BY <1>1, <2>2 DEF Owns, IInv, Claims
  <2> QED BY <2>1, <2>2
<1> QED BY <1>2, <1>3 DEF IInv

(* A producer's new place, and what stays of everything else.              *)
LEMMA Moved ==
    ASSUME IInv, NEW p \in Producer, NEW step \in {"idle", "load", "claim", "fill", "filling", "publish"},
           Goto(p, step)
    PROVE  /\ producing' \in [Producer -> {"idle", "load", "claim", "fill", "filling", "publish"}]
           /\ producing'[p] = step
           /\ \A q \in Producer \ {p} : producing'[q] = producing[q]
BY DEF Goto, IInv, TypeOK

(* A load of enqueuePos_ returns a position already reached.               *)
LEMMA LoadedPos ==
    ASSUME IInv, NEW p \in Producer, LoadPos(p)
    PROVE  /\ pos' \in [Producer -> Nat]
           /\ pos'[p] <= enqueuePos
           /\ \A q \in Producer \ {p} : pos'[q] = pos[q]
BY DEF LoadPos, IInv, TypeOK

(* tryProduce up to the exchange moves only the producer that runs it.     *)
LEMMA LookingPreservesInv ==
    ASSUME IInv, NEW p \in Producer,
           (\E v \in Value : BeginProduce(p, v)) \/ LoadSeq(p) \/ ClaimFails(p)
    PROVE  IInv'
<1> DEFINE Places == {"idle", "load", "claim", "fill", "filling", "publish"}
<1>1. CASE \E v \in Value : BeginProduce(p, v)
  <2>1. PICK v \in Value : BeginProduce(p, v)  BY <1>1
  <2>2. producing' \in [Producer -> Places] /\ producing'[p] = "load"
        /\ \A q \in Producer \ {p} : producing'[q] = producing[q]
    BY <2>1, Moved DEF BeginProduce
  <2>3. pos' \in [Producer -> Nat] /\ pos'[p] <= enqueuePos /\ \A q \in Producer \ {p} : pos'[q] = pos[q]
    BY <2>1, LoadedPos DEF BeginProduce
  <2>4. item' \in [Producer -> Value \cup {Torn}] /\ item'[p] \in Value
        /\ \A q \in Producer \ {p} : item'[q] = item[q]
    BY <2>1 DEF BeginProduce, IInv, TypeOK
  <2>5. UNCHANGED <<cells, enqueuePos, claimed, consumer>> /\ producing[p] = "idle"
    BY <2>1 DEF BeginProduce
  <2>6. TypeOK'
    BY <2>2, <2>3, <2>4, <2>5, Zenon DEF IInv, TypeOK, cells, consumer
  <2>7. ~Owns(p) /\ ~Owns(p)'  BY <2>2, <2>5 DEF Owns
  <2> QED BY <2>2, <2>3, <2>4, <2>5, <2>6, <2>7, QuietProducer
<1>2. CASE LoadSeq(p)
  <2>1. UNCHANGED <<cells, enqueuePos, claimed, item, consumer>> /\ producing[p] = "load"
    BY <1>2 DEF LoadSeq
  <2>2. PICK s \in SeqsSoFar(CellOf(pos[p])) :
          \/ s = pos[p] /\ Goto(p, "claim") /\ UNCHANGED pos
          \/ s < pos[p] /\ Goto(p, "idle") /\ UNCHANGED pos
          \/ s > pos[p] /\ LoadPos(p) /\ UNCHANGED producing
    BY <1>2 DEF LoadSeq
  <2>3. s <= seq[CellOf(pos[p])] /\ s \in Int
    <3>1. CellOf(pos[p]) \in Cell /\ Cell \subseteq Int /\ seq[CellOf(pos[p])] \in Int
      <4>1. Capacity \in Nat /\ pos[p] \in Nat  BY Basics
      <4>2. CellOf(pos[p]) \in Cell /\ seq[CellOf(pos[p])] \in Nat  BY <4>1, Basics
      <4> QED BY <4>1, <4>2 DEF Cell
    <3> QED BY <2>2, <3>1 DEF SeqsSoFar
  <2>4. pos \in [Producer -> Nat] /\ producing \in [Producer -> Places] /\ pos[p] <= enqueuePos /\ item[p] \in Value
    BY <2>1 DEF IInv, TypeOK, Claims
  <2>5. /\ producing' \in [Producer -> Places] /\ producing'[p] \in {"idle", "load", "claim"}
        /\ \A q \in Producer \ {p} : producing'[q] = producing[q]
    <3>1. CASE Goto(p, "claim")  BY <3>1, Moved
    <3>2. CASE Goto(p, "idle")  BY <3>2, Moved
    <3>3. CASE UNCHANGED producing  BY <3>3, <2>1, <2>4
    <3> QED BY <2>2, <3>1, <3>2, <3>3
  <2>6. pos' \in [Producer -> Nat] /\ pos'[p] <= enqueuePos /\ \A q \in Producer \ {p} : pos'[q] = pos[q]
    <3>1. CASE LoadPos(p)  BY <3>1, LoadedPos
    <3>2. CASE UNCHANGED pos  BY <2>4, <3>2
    <3> QED BY <2>2, <3>1, <3>2
  <2>7. producing'[p] = "claim" => s = pos[p] /\ pos' = pos
    <3>1. CASE Goto(p, "idle")  BY <3>1, Moved
    <3>2. CASE UNCHANGED producing  BY <3>2, <2>1
    <3> QED BY <2>2, <3>1, <3>2
  <2>8. producing'[p] = "claim" => seq[CellOf(pos'[p])] >= pos'[p]
    BY <2>3, <2>7, Basics
  <2>9. TypeOK'
    BY <2>1, <2>5, <2>6, Zenon DEF IInv, TypeOK, cells, consumer
  <2>10. ~Owns(p) /\ ~Owns(p)'  BY <2>1, <2>5 DEF Owns
  <2> QED BY <2>1, <2>4, <2>5, <2>6, <2>8, <2>9, <2>10, QuietProducer
<1>3. CASE ClaimFails(p)
  <2>1. UNCHANGED <<cells, enqueuePos, claimed, item, consumer>> /\ producing[p] = "claim"
    BY <1>3 DEF ClaimFails
  <2>2. producing' \in [Producer -> Places] /\ producing'[p] = "load"
        /\ \A q \in Producer \ {p} : producing'[q] = producing[q]
    BY <1>3, Moved DEF ClaimFails
  <2>3. pos' \in [Producer -> Nat] /\ pos'[p] <= enqueuePos /\ \A q \in Producer \ {p} : pos'[q] = pos[q]
    BY <1>3, LoadedPos DEF ClaimFails
  <2>4. item[p] \in Value  BY <2>1 DEF IInv, Claims
  <2>5. TypeOK'
    BY <2>1, <2>2, <2>3, Zenon DEF IInv, TypeOK, cells, consumer
  <2>6. ~Owns(p) /\ ~Owns(p)'  BY <2>1, <2>2 DEF Owns
  <2> QED BY <2>1, <2>2, <2>3, <2>4, <2>5, <2>6, QuietProducer
<1> QED BY <1>1, <1>2, <1>3

(* The exchange succeeds only on a cell that is free for this position: a  *)
(* full ring would still show the previous lap in its seq.                 *)
LEMMA ClaimFindsFreeCell ==
    ASSUME IInv, NEW p \in Producer, Claim(p)
    PROVE  enqueuePos < dequeuePos + Capacity /\ seq[CellOf(enqueuePos)] = enqueuePos
<1>1. /\ dequeuePos \in Nat /\ enqueuePos \in Nat /\ Capacity \in Nat /\ Capacity > 1 /\ RingSizeOK
      /\ dequeuePos <= enqueuePos /\ enqueuePos <= dequeuePos + Capacity
  BY Basics DEF IInv, Positions
<1>2. seq[CellOf(enqueuePos)] >= enqueuePos  BY DEF Claim, IInv, Claims
<1>3. enqueuePos # dequeuePos + Capacity
  <2> SUFFICES ASSUME enqueuePos = dequeuePos + Capacity PROVE FALSE  OBVIOUS
  <2>1. CellOf(enqueuePos) = CellOf(dequeuePos)  BY <1>1, LapCloses
  <2>2. seq[CellOf(dequeuePos)] \in {dequeuePos, dequeuePos + 1}  BY OldestCell
  <2> QED BY <1>1, <1>2, <2>1, <2>2
<1>4. enqueuePos < dequeuePos + Capacity  BY <1>1, <1>3
<1>5. seq[CellOf(enqueuePos)] = enqueuePos  BY <1>1, <1>4 DEF IInv, Cells
<1> QED BY <1>4, <1>5

(* The successful exchange keeps the invariant.                            *)
LEMMA ClaimPreservesInv ==
    ASSUME IInv, NEW p \in Producer, Claim(p)
    PROVE  IInv'
<1>1. /\ dequeuePos \in Nat /\ enqueuePos \in Nat /\ Capacity \in Nat /\ pos \in [Producer -> Nat]
      /\ dequeuePos <= enqueuePos /\ Len(claimed) = enqueuePos /\ claimed \in Seq(Value)
  BY Basics DEF IInv, Positions, TypeOK
<1>2. /\ UNCHANGED <<seq, value, pos, item, dequeuePos, consuming, received>>
      /\ enqueuePos' = enqueuePos + 1 /\ pos[p] = enqueuePos /\ producing[p] = "claim"
      /\ claimed' = Append(claimed, item[p])
  BY DEF Claim, TakePosition, cells, local, consumer
<1>3. item[p] \in Value  BY <1>2 DEF IInv, Claims
<1>4. /\ producing' \in [Producer -> {"idle", "load", "claim", "fill", "filling", "publish"}]
      /\ producing'[p] = "fill"
      /\ \A q \in Producer \ {p} : producing'[q] = producing[q]
  BY Moved DEF Claim, TakePosition
<1>5. /\ claimed' \in Seq(Value) /\ Len(claimed') = enqueuePos + 1
      /\ \A i \in 1..enqueuePos : claimed'[i] = claimed[i]
      /\ claimed'[enqueuePos + 1] = item[p]
  BY <1>1, <1>2, <1>3
<1>6. TypeOK'
  <2>1. enqueuePos' \in Nat  BY <1>1, <1>2
  <2> QED BY <1>2, <1>4, <1>5, <2>1, Zenon DEF IInv, TypeOK
<1>7. enqueuePos < dequeuePos + Capacity /\ seq[CellOf(enqueuePos)] = enqueuePos
  BY ClaimFindsFreeCell
<1>8. Positions'
  BY <1>1, <1>2, <1>5, <1>7 DEF IInv, Positions
<1>9. Cells'
  <2> SUFFICES ASSUME NEW k \in Nat, dequeuePos <= k, k < dequeuePos + Capacity
               PROVE  \/ seq[CellOf(k)] = k
                      \/ /\ k < enqueuePos + 1
                         /\ seq[CellOf(k)] = k + 1
                         /\ value[CellOf(k)] = claimed'[k + 1]
    BY <1>2 DEF Cells, CellOf
  <2>1. \/ seq[CellOf(k)] = k
        \/ /\ k < enqueuePos
           /\ seq[CellOf(k)] = k + 1
           /\ value[CellOf(k)] = claimed[k + 1]
    BY DEF IInv, Cells
  <2>2. k < enqueuePos => claimed'[k + 1] = claimed[k + 1] /\ k < enqueuePos + 1
    BY <1>1, <1>5
  <2> QED BY <2>1, <2>2, Zenon
<1>10. Found'  BY <1>2 DEF IInv, Found, CellOf
<1>11. FirstInFirstOut'
  <2>1. /\ Len(received) <= enqueuePos /\ Len(received) \in Nat
        /\ \A i \in 1..Len(received) : received[i] = claimed[i]
    BY <1>1 DEF IInv, FirstInFirstOut, TypeOK
  <2>2. Len(received) <= enqueuePos + 1  BY <1>1, <2>1
  <2>3. \A i \in 1..Len(received) : received[i] = claimed'[i]  BY <1>1, <1>5, <2>1
  <2> QED BY <1>2, <1>5, <2>2, <2>3 DEF FirstInFirstOut
<1>12. Claims'
  <2> SUFFICES ASSUME NEW q \in Producer
               PROVE  /\ pos[q] <= enqueuePos + 1
                      /\ producing'[q] # "idle" => item[q] \in Value
                      /\ producing'[q] = "claim" => seq[CellOf(pos[q])] >= pos[q]
                      /\ Owns(q)' =>
                           /\ dequeuePos <= pos[q] /\ pos[q] < enqueuePos + 1
                           /\ seq[CellOf(pos[q])] = pos[q]
                           /\ item[q] = claimed'[pos[q] + 1]
                           /\ \A r \in Producer \ {q} : Owns(r)' => pos[q] # pos[r]
                      /\ producing'[q] = "publish" => value[CellOf(pos[q])] = item[q]
    BY <1>2 DEF Claims, CellOf
  <2>1. \A r \in Producer \ {p} : Owns(r)' => Owns(r) /\ pos[r] < enqueuePos
    BY <1>4 DEF Owns, IInv, Claims
  <2>2. CASE q = p
    <3>1. /\ pos[q] <= enqueuePos + 1 /\ pos[q] < enqueuePos + 1 /\ dequeuePos <= pos[q]
          /\ seq[CellOf(pos[q])] = pos[q] /\ item[q] = claimed'[pos[q] + 1]
      BY <1>1, <1>2, <1>5, <1>7, <2>2
    <3>2. \A r \in Producer \ {q} : Owns(r)' => pos[q] # pos[r]
      BY <1>1, <1>2, <2>1, <2>2
    <3>3. producing'[q] = "fill"  BY <1>4, <2>2
    <3>4. item[q] \in Value  BY <1>3, <2>2
    <3> QED BY <3>1, <3>2, <3>3, <3>4
  <2>3. CASE q # p
    <3>1. producing'[q] = producing[q]  BY <1>4, <2>3
    <3>2. /\ pos[q] \in Nat /\ pos[q] <= enqueuePos
          /\ producing[q] # "idle" => item[q] \in Value
          /\ producing[q] = "claim" => seq[CellOf(pos[q])] >= pos[q]
          /\ producing[q] = "publish" => value[CellOf(pos[q])] = item[q]
      BY <1>1 DEF IInv, Claims
    <3>3. ASSUME Owns(q)'
          PROVE  /\ dequeuePos <= pos[q] /\ pos[q] < enqueuePos + 1
                 /\ seq[CellOf(pos[q])] = pos[q]
                 /\ item[q] = claimed'[pos[q] + 1]
      <4>1. /\ dequeuePos <= pos[q] /\ pos[q] < enqueuePos
            /\ seq[CellOf(pos[q])] = pos[q]
            /\ item[q] = claimed[pos[q] + 1]
        BY <2>1, <2>3, <3>3 DEF IInv, Claims
      <4> QED BY <1>1, <1>5, <3>2, <4>1
    <3>4. ASSUME Owns(q)', NEW r \in Producer \ {q}, Owns(r)'  PROVE pos[q] # pos[r]
      <4>1. Owns(q) /\ pos[q] < enqueuePos  BY <2>1, <2>3, <3>4
      <4>2. CASE r = p  BY <1>1, <1>2, <4>1, <4>2
      <4>3. CASE r # p
        <5>1. Owns(r)  BY <2>1, <3>4, <4>3
        <5> QED BY <3>4, <4>1, <5>1 DEF IInv, Claims
      <4> QED BY <4>2, <4>3
    <3>5. pos[q] <= enqueuePos + 1  BY <1>1, <3>2
    <3> QED BY <3>1, <3>2, <3>3, <3>4, <3>5
  <2> QED BY <2>2, <2>3
<1> QED BY <1>6, <1>8, <1>9, <1>10, <1>11, <1>12 DEF IInv, RingSizeOK

(* Where the owner of a cell stands.                                       *)
LEMMA Owner ==
    ASSUME IInv, NEW p \in Producer, Owns(p)
    PROVE  /\ pos[p] \in Nat /\ dequeuePos <= pos[p] /\ pos[p] < enqueuePos /\ pos[p] < dequeuePos + Capacity
           /\ seq[CellOf(pos[p])] = pos[p]
           /\ item[p] = claimed[pos[p] + 1] /\ item[p] \in Value
           /\ \A q \in Producer \ {p} : Owns(q) => pos[p] # pos[q]
<1>1. producing[p] # "idle"  BY DEF Owns
<1>2. /\ dequeuePos <= pos[p] /\ pos[p] < enqueuePos
      /\ seq[CellOf(pos[p])] = pos[p]
      /\ item[p] = claimed[pos[p] + 1] /\ item[p] \in Value
      /\ \A q \in Producer \ {p} : Owns(q) => pos[p] # pos[q]
  BY <1>1 DEF IInv, Claims
<1>3. /\ pos[p] \in Nat /\ enqueuePos \in Nat /\ dequeuePos \in Nat /\ Capacity \in Nat
      /\ enqueuePos <= dequeuePos + Capacity
  BY Basics DEF IInv, Positions
<1> QED BY <1>2, <1>3

(* The owner's write of the value touches no other cell of the lap.        *)
LEMMA FillPreservesInv ==
    ASSUME IInv, NEW p \in Producer, StartFill(p) \/ EndFill(p)
    PROVE  IInv'
<1> DEFINE j == pos[p]
<1>2. Owns(p)  BY DEF StartFill, EndFill, Owns
<1>3. PICK step \in {"filling", "publish"}, v \in Value \cup {Torn} :
        /\ step = "publish" => v = item[p]
        /\ value' = [value EXCEPT ![CellOf(j)] = v]
        /\ Goto(p, step)
  <2>1. CASE StartFill(p)  BY <2>1 DEF StartFill
  <2>2. CASE EndFill(p)
    <3>1. item[p] \in Value  BY <1>2, Owner
    <3> QED BY <2>2, <3>1 DEF EndFill
  <2> QED BY <2>1, <2>2
<1>1. UNCHANGED <<seq, enqueuePos, claimed, local, consumer>>
  BY DEF StartFill, EndFill
<1>4. UNCHANGED <<seq, enqueuePos, claimed, pos, item, dequeuePos, consuming, received>>
  BY <1>1 DEF local, consumer
<1>5. /\ producing' \in [Producer -> {"idle", "load", "claim", "fill", "filling", "publish"}]
      /\ producing'[p] = step
      /\ \A q \in Producer \ {p} : producing'[q] = producing[q]
  BY <1>3, Moved
<1>6. /\ j \in Nat /\ dequeuePos <= j /\ j < enqueuePos /\ j < dequeuePos + Capacity
      /\ seq[CellOf(j)] = j
  BY <1>2, Owner
<1>7. RingSizeOK /\ DOMAIN value = Cell /\ Capacity \in Nat /\ dequeuePos \in Nat /\ enqueuePos \in Nat
  BY Basics
<1>8. value'[CellOf(j)] = v
  BY <1>3, <1>6, <1>7, Basics
<1>9. \A k \in Nat : k # j /\ dequeuePos <= k /\ k < dequeuePos + Capacity =>
         value'[CellOf(k)] = value[CellOf(k)]
  <2> SUFFICES ASSUME NEW k \in Nat, k # j, dequeuePos <= k, k < dequeuePos + Capacity
               PROVE  value'[CellOf(k)] = value[CellOf(k)]
    OBVIOUS
  <2>1. CellOf(k) # CellOf(j)
    <3>1. k - j < Capacity /\ j - k < Capacity  BY <1>6, <1>7
    <3> QED BY <1>6, <1>7, <3>1, OtherCell
  <2>2. CellOf(k) \in Cell  BY Basics
  <2> QED BY <1>3, <1>7, <2>1, <2>2
<1>10. TypeOK'
  <2>1. value' \in [Cell -> Value \cup {Torn}]  BY <1>3 DEF IInv, TypeOK
  <2> QED BY <1>4, <1>5, <2>1, Zenon DEF IInv, TypeOK
<1>11. Cells'
  <2> SUFFICES ASSUME NEW k \in Nat, dequeuePos <= k, k < dequeuePos + Capacity
               PROVE  \/ seq[CellOf(k)] = k
                      \/ /\ k < enqueuePos
                         /\ seq[CellOf(k)] = k + 1
                         /\ value'[CellOf(k)] = claimed[k + 1]
    BY <1>4 DEF Cells, CellOf
  <2>1. CASE k = j  BY <1>6, <2>1
  <2>2. CASE k # j  BY <1>9, <2>2 DEF IInv, Cells
  <2> QED BY <2>1, <2>2
<1>12. (Positions /\ Found /\ FirstInFirstOut)'
  BY <1>4 DEF IInv, Positions, Found, FirstInFirstOut, CellOf
<1>13. Claims'
  <2> SUFFICES ASSUME NEW q \in Producer
               PROVE  /\ pos[q] <= enqueuePos
                      /\ producing'[q] # "idle" => item[q] \in Value
                      /\ producing'[q] = "claim" => seq[CellOf(pos[q])] >= pos[q]
                      /\ Owns(q)' =>
                           /\ dequeuePos <= pos[q] /\ pos[q] < enqueuePos
                           /\ seq[CellOf(pos[q])] = pos[q]
                           /\ item[q] = claimed[pos[q] + 1]
                           /\ \A r \in Producer \ {q} : Owns(r)' => pos[q] # pos[r]
                      /\ producing'[q] = "publish" => value'[CellOf(pos[q])] = item[q]
    BY <1>4 DEF Claims, CellOf
  <2>1. \A r \in Producer : Owns(r)' => Owns(r)  BY <1>2, <1>5 DEF Owns
  <2>2. Owns(q)' =>
           /\ dequeuePos <= pos[q] /\ pos[q] < enqueuePos
           /\ seq[CellOf(pos[q])] = pos[q]
           /\ item[q] = claimed[pos[q] + 1]
           /\ \A r \in Producer \ {q} : Owns(r)' => pos[q] # pos[r]
    BY <2>1, Owner
  <2>3. pos[q] <= enqueuePos  BY DEF IInv, Claims
  <2>4. CASE q = p
    <3>1. producing'[q] \in {"filling", "publish"} /\ item[q] \in Value  BY <1>2, <1>3, <1>5, <2>4, Owner
    <3>2. producing'[q] = "publish" => value'[CellOf(pos[q])] = item[q]  BY <1>3, <1>5, <1>8, <2>4
    <3> QED BY <2>2, <2>3, <3>1, <3>2
  <2>5. CASE q # p
    <3>1. producing'[q] = producing[q]  BY <1>5, <2>5
    <3>2. producing'[q] = "publish" => value'[CellOf(pos[q])] = item[q]
      <4> SUFFICES ASSUME producing[q] = "publish" PROVE value'[CellOf(pos[q])] = item[q]
        BY <3>1
      <4>1. Owns(q)  BY DEF Owns
      <4>2. pos[q] # j  BY <1>2, <2>5, <4>1, Owner
      <4>3. pos[q] \in Nat /\ dequeuePos <= pos[q] /\ pos[q] < dequeuePos + Capacity  BY <4>1, Owner
      <4>4. value'[CellOf(pos[q])] = value[CellOf(pos[q])]  BY <1>9, <4>2, <4>3
      <4> QED BY <4>4 DEF IInv, Claims
    <3> QED BY <2>2, <2>3, <3>1, <3>2 DEF IInv, Claims
  <2> QED BY <2>4, <2>5
<1> QED BY <1>10, <1>11, <1>12, <1>13 DEF IInv, RingSizeOK

(* A store that raises the seq of a cell breaks no producer's view of it.  *)
LEMMA SeqOnlyGrows ==
    ASSUME IInv, NEW c \in Cell, NEW n \in Nat, seq[c] <= n, seq' = [seq EXCEPT ![c] = n]
    PROVE  \A q \in Producer : producing[q] = "claim" => seq'[CellOf(pos[q])] >= pos[q]
<1> SUFFICES ASSUME NEW q \in Producer, producing[q] = "claim"  PROVE seq'[CellOf(pos[q])] >= pos[q]
  OBVIOUS
<1>1. pos[q] \in Nat /\ DOMAIN seq = Cell  BY Basics
<1>2. CellOf(pos[q]) \in Cell /\ seq[CellOf(pos[q])] \in Nat  BY <1>1, Basics
<1>3. seq[CellOf(pos[q])] >= pos[q]  BY DEF IInv, Claims
<1>4. CASE CellOf(pos[q]) = c
  <2>1. seq'[CellOf(pos[q])] = n  BY <1>1, <1>4
  <2> QED BY <1>1, <1>2, <1>3, <1>4, <2>1
<1>5. CASE CellOf(pos[q]) # c  BY <1>1, <1>2, <1>3, <1>5
<1> QED BY <1>4, <1>5

(* A store to the seq of position j leaves every other cell of the lap.    *)
LEMMA SeqStore ==
    ASSUME IInv, NEW j \in Nat, dequeuePos <= j, j < dequeuePos + Capacity, NEW n \in Nat,
           seq' = [seq EXCEPT ![CellOf(j)] = n]
    PROVE  /\ seq' \in [Cell -> Nat] /\ CellOf(j) \in Cell
           /\ seq'[CellOf(j)] = n
           /\ \A k \in Nat : k # j /\ dequeuePos <= k /\ k < dequeuePos + Capacity =>
                 seq'[CellOf(k)] = seq[CellOf(k)]
<1>1. RingSizeOK /\ DOMAIN seq = Cell /\ Capacity \in Nat /\ dequeuePos \in Nat /\ CellOf(j) \in Cell
  BY Basics
<1>2. seq' \in [Cell -> Nat]  BY <1>1 DEF IInv, TypeOK
<1>3. ASSUME NEW k \in Nat, k # j, dequeuePos <= k, k < dequeuePos + Capacity
      PROVE  seq'[CellOf(k)] = seq[CellOf(k)]
  <2>1. CellOf(k) # CellOf(j)
    <3>1. k - j < Capacity /\ j - k < Capacity  BY <1>1, <1>3
    <3> QED BY <1>1, <1>3, <3>1, OtherCell
  <2>2. CellOf(k) \in Cell  BY Basics
  <2> QED BY <1>1, <2>1, <2>2
<1> QED BY <1>1, <1>2, <1>3

(* Publishing hands the cell over to the consumer.                         *)
LEMMA PublishPreservesInv ==
    ASSUME IInv, NEW p \in Producer, Publish(p)
    PROVE  IInv'
<1> DEFINE j == pos[p]
<1>1. /\ producing[p] = "publish"
      /\ seq' = [seq EXCEPT ![CellOf(j)] = j + 1]
      /\ pos' = [pos EXCEPT ![p] = j + 1]
      /\ UNCHANGED <<value, enqueuePos, claimed, item, dequeuePos, consuming, received>>
  BY DEF Publish, consumer
<1>2. Owns(p)  BY <1>1 DEF Owns
<1>3. /\ j \in Nat /\ dequeuePos <= j /\ j < enqueuePos /\ j < dequeuePos + Capacity
      /\ seq[CellOf(j)] = j /\ item[p] = claimed[j + 1] /\ item[p] \in Value
  BY <1>2, Owner
<1>4. /\ producing' \in [Producer -> {"idle", "load", "claim", "fill", "filling", "publish"}]
      /\ producing'[p] = "idle"
      /\ \A q \in Producer \ {p} : producing'[q] = producing[q]
  BY Moved DEF Publish
<1>5. /\ pos' \in [Producer -> Nat] /\ pos'[p] = j + 1
      /\ \A q \in Producer \ {p} : pos'[q] = pos[q]
  BY <1>1, <1>3 DEF IInv, TypeOK
<1>6. RingSizeOK /\ Capacity \in Nat /\ Capacity > 1 /\ dequeuePos \in Nat /\ enqueuePos \in Nat /\ j + 1 \in Nat
  BY <1>3, Basics
<1>7. /\ seq' \in [Cell -> Nat] /\ CellOf(j) \in Cell
      /\ seq'[CellOf(j)] = j + 1
      /\ \A k \in Nat : k # j /\ dequeuePos <= k /\ k < dequeuePos + Capacity =>
            seq'[CellOf(k)] = seq[CellOf(k)]
  BY <1>1, <1>3, <1>6, SeqStore
<1>8. TypeOK'
  BY <1>1, <1>4, <1>5, <1>7, Zenon DEF IInv, TypeOK
<1>9. Cells'
  <2> SUFFICES ASSUME NEW k \in Nat, dequeuePos <= k, k < dequeuePos + Capacity
               PROVE  \/ seq'[CellOf(k)] = k
                      \/ /\ k < enqueuePos
                         /\ seq'[CellOf(k)] = k + 1
                         /\ value[CellOf(k)] = claimed[k + 1]
    BY <1>1 DEF Cells, CellOf
  <2>1. CASE k = j
    <3>1. value[CellOf(j)] = item[p]  BY <1>1 DEF IInv, Claims
    <3> QED BY <1>3, <1>7, <2>1, <3>1
  <2>2. CASE k # j
    <3>1. seq'[CellOf(k)] = seq[CellOf(k)]  BY <1>7, <2>2
    <3> QED BY <3>1 DEF IInv, Cells
  <2> QED BY <2>1, <2>2
<1>10. Found'
  <2> SUFFICES ASSUME consuming # "idle" PROVE seq'[CellOf(dequeuePos)] = dequeuePos + 1
    BY <1>1 DEF Found, CellOf
  <2>1. seq[CellOf(dequeuePos)] = dequeuePos + 1  BY DEF IInv, Found
  <2>2. j # dequeuePos  BY <1>3, <1>6, <2>1
  <2>3. seq'[CellOf(dequeuePos)] = seq[CellOf(dequeuePos)]  BY <1>6, <1>7, <2>2
  <2> QED BY <2>1, <2>3
<1>11. (Positions /\ FirstInFirstOut)'
  BY <1>1 DEF IInv, Positions, FirstInFirstOut
<1>12. Claims'
  <2> SUFFICES ASSUME NEW q \in Producer
               PROVE  /\ pos'[q] <= enqueuePos
                      /\ producing'[q] # "idle" => item[q] \in Value
                      /\ producing'[q] = "claim" => seq'[CellOf(pos'[q])] >= pos'[q]
                      /\ Owns(q)' =>
                           /\ dequeuePos <= pos'[q] /\ pos'[q] < enqueuePos
                           /\ seq'[CellOf(pos'[q])] = pos'[q]
                           /\ item[q] = claimed[pos'[q] + 1]
                           /\ \A r \in Producer \ {q} : Owns(r)' => pos'[q] # pos'[r]
                      /\ producing'[q] = "publish" => value[CellOf(pos'[q])] = item[q]
    BY <1>1 DEF Claims, CellOf
  <2>1. CASE q = p
    <3>1. pos'[q] <= enqueuePos  BY <1>3, <1>5, <1>6, <2>1
    <3>2. producing'[q] = "idle" /\ ~Owns(q)'  BY <1>4, <2>1 DEF Owns
    <3> QED BY <3>1, <3>2
  <2>2. CASE q # p
    <3>1. producing'[q] = producing[q] /\ pos'[q] = pos[q]  BY <1>4, <1>5, <2>2
    <3>2. producing[q] = "claim" => seq'[CellOf(pos[q])] >= pos[q]
      <4>1. seq[CellOf(j)] <= j + 1  BY <1>3
      <4> QED BY <1>1, <1>6, <1>7, <4>1, SeqOnlyGrows
    <3>3. ASSUME Owns(q)'
          PROVE  /\ dequeuePos <= pos[q] /\ pos[q] < enqueuePos
                 /\ seq'[CellOf(pos[q])] = pos[q]
                 /\ item[q] = claimed[pos[q] + 1]
      <4>1. Owns(q)  BY <3>1, <3>3 DEF Owns
      <4>2. pos[q] # j  BY <1>2, <2>2, <4>1, Owner
      <4>3. /\ pos[q] \in Nat /\ dequeuePos <= pos[q] /\ pos[q] < enqueuePos /\ pos[q] < dequeuePos + Capacity
            /\ seq[CellOf(pos[q])] = pos[q] /\ item[q] = claimed[pos[q] + 1]
        BY <4>1, Owner
      <4>4. seq'[CellOf(pos[q])] = seq[CellOf(pos[q])]  BY <1>7, <4>2, <4>3
      <4> QED BY <4>3, <4>4
    <3>4. ASSUME Owns(q)', NEW r \in Producer \ {q}, Owns(r)'  PROVE pos'[q] # pos'[r]
      <4>1. r # p  BY <1>4, <3>4 DEF Owns
      <4>2. Owns(q) /\ Owns(r) /\ pos'[r] = pos[r]  BY <1>4, <1>5, <3>1, <3>4, <4>1 DEF Owns
      <4> QED BY <3>1, <4>2, Owner
    <3>5. /\ pos[q] <= enqueuePos
          /\ producing[q] # "idle" => item[q] \in Value
          /\ producing[q] = "publish" => value[CellOf(pos[q])] = item[q]
      BY DEF IInv, Claims
    <3> QED BY <3>1, <3>2, <3>3, <3>4, <3>5
  <2> QED BY <2>1, <2>2
<1> QED BY <1>8, <1>9, <1>10, <1>11, <1>12 DEF IInv, RingSizeOK

(* tryPop and tryConsume up to the recycling only look and read.           *)
LEMMA ReadingPreservesInv ==
    ASSUME IInv, LookForWork \/ Use
    PROVE  IInv'
<1>1. /\ dequeuePos \in Nat /\ enqueuePos \in Nat /\ Capacity \in Nat
      /\ Len(claimed) = enqueuePos /\ claimed \in Seq(Value) /\ received \in Seq(Value)
  BY Basics DEF IInv, Positions, TypeOK
<1>2. UNCHANGED <<seq, value, enqueuePos, claimed, producing, pos, item, dequeuePos>>
  BY DEF LookForWork, Use, cells, local
<1>3. (Cells /\ Claims)'
  <2>1. \A p \in Producer : Owns(p)' <=> Owns(p)  BY <1>2 DEF Owns
  <2> QED BY <1>2, <2>1 DEF IInv, Cells, Claims, CellOf
<1>4. CASE LookForWork
  <2>1. consuming = "idle" /\ consuming' \in {"idle", "use"} /\ received' = received
    BY <1>4 DEF LookForWork
  <2>2. Found'
    <3> SUFFICES ASSUME consuming' = "use" PROVE seq[CellOf(dequeuePos)] = dequeuePos + 1
      BY <1>2, <2>1 DEF Found, CellOf
    <3>1. PICK s \in SeqsSoFar(CellOf(dequeuePos)) : s = dequeuePos + 1
      BY <1>4 DEF LookForWork, Published
    <3>2. CellOf(dequeuePos) \in Cell /\ seq[CellOf(dequeuePos)] \in Nat  BY <1>1, Basics
    <3>3. s <= seq[CellOf(dequeuePos)]  BY <1>1, <3>1, <3>2 DEF SeqsSoFar, Cell
    <3>4. seq[CellOf(dequeuePos)] # dequeuePos  BY <1>1, <3>1, <3>2, <3>3
    <3> QED BY <3>4, OldestCell
  <2>3. TypeOK'
    <3>1. consuming' \in {"idle", "use", "recycle"}  BY <2>1
    <3> QED BY <1>2, <2>1, <3>1, Zenon DEF IInv, TypeOK
  <2>4. (Positions /\ FirstInFirstOut)'
    BY <1>2, <2>1 DEF IInv, Positions, FirstInFirstOut
  <2> QED BY <1>3, <2>2, <2>3, <2>4 DEF IInv, RingSizeOK
<1>5. CASE Use
  <2>1. seq[CellOf(dequeuePos)] = dequeuePos + 1 /\ Len(received) = dequeuePos
        /\ consuming = "use" /\ consuming' = "recycle"
    BY <1>5 DEF Use, IInv, Found, Positions
  <2>2. dequeuePos < enqueuePos /\ value[CellOf(dequeuePos)] = claimed[dequeuePos + 1]
    <3>1. seq[CellOf(dequeuePos)] # dequeuePos  BY <1>1, <2>1
    <3> QED BY <3>1, OldestCell
  <2>3. claimed[dequeuePos + 1] \in Value  BY <1>1, <2>2
  <2>4. received' = Append(received, claimed[dequeuePos + 1])  BY <1>5, <2>2 DEF Use
  <2>5. /\ received' \in Seq(Value) /\ Len(received') = dequeuePos + 1
        /\ \A i \in 1..dequeuePos : received'[i] = received[i]
        /\ received'[dequeuePos + 1] = claimed[dequeuePos + 1]
    BY <1>1, <2>1, <2>3, <2>4
  <2>6. TypeOK'
    BY <1>2, <2>1, <2>5, Zenon DEF IInv, TypeOK
  <2>7. Positions'  BY <1>2, <2>1, <2>5 DEF IInv, Positions
  <2>8. Found'  BY <1>2, <2>1 DEF Found, CellOf
  <2>9. FirstInFirstOut'
    <3>1. \A i \in 1..dequeuePos : received[i] = claimed[i]  BY <2>1 DEF IInv, FirstInFirstOut
    <3>2. dequeuePos + 1 <= enqueuePos  BY <1>1, <2>2
    <3>3. \A i \in 1..(dequeuePos + 1) : i \in 1..dequeuePos \/ i = dequeuePos + 1  BY <1>1
    <3> QED BY <1>1, <1>2, <2>5, <3>1, <3>2, <3>3 DEF FirstInFirstOut
  <2> QED BY <1>3, <2>6, <2>7, <2>8, <2>9 DEF IInv, RingSizeOK
<1> QED BY <1>4, <1>5

(* Recycling gives the cell to the position one lap ahead.                 *)
LEMMA RecyclePreservesInv == ASSUME IInv, Recycle  PROVE IInv'
<1> DEFINE D == dequeuePos
<1>1. /\ D \in Nat /\ enqueuePos \in Nat /\ Capacity \in Nat /\ Capacity > 1 /\ RingSizeOK
      /\ enqueuePos <= D + Capacity /\ D + Capacity \in Nat
      /\ Len(claimed) = enqueuePos
  <2>1. D \in Nat /\ enqueuePos \in Nat /\ Capacity \in Nat /\ Capacity > 1 /\ RingSizeOK  BY Basics
  <2>2. enqueuePos <= D + Capacity /\ Len(claimed) = enqueuePos  BY DEF IInv, Positions
  <2> QED BY <2>1, <2>2
<1>2. /\ consuming = "recycle" /\ consuming' = "idle" /\ dequeuePos' = D + 1
      /\ seq' = [seq EXCEPT ![CellOf(D)] = D + Capacity]
      /\ UNCHANGED <<value, enqueuePos, claimed, producing, pos, item, received>>
  BY DEF Recycle, local
<1>3. seq[CellOf(D)] = D + 1 /\ Len(received) = D + 1
  BY <1>2 DEF IInv, Found, Positions
<1>4. D < enqueuePos
  <2>1. seq[CellOf(D)] # D  BY <1>1, <1>3
  <2> QED BY <2>1, OldestCell
<1>5. /\ seq' \in [Cell -> Nat] /\ CellOf(D) \in Cell
      /\ seq'[CellOf(D)] = D + Capacity
      /\ \A k \in Nat : k # D /\ D <= k /\ k < D + Capacity => seq'[CellOf(k)] = seq[CellOf(k)]
  <2>1. D <= D /\ D < D + Capacity  BY <1>1
  <2> QED BY <1>1, <1>2, <2>1, SeqStore
<1>6. TypeOK'
  <2>1. dequeuePos' \in Nat  BY <1>1, <1>2
  <2> QED BY <1>2, <1>5, <2>1, Zenon DEF IInv, TypeOK
<1>7. Positions'  BY <1>1, <1>2, <1>3, <1>4 DEF Positions
<1>8. Cells'
  <2> SUFFICES ASSUME NEW k \in Nat, D + 1 <= k, k < D + 1 + Capacity
               PROVE  \/ seq'[CellOf(k)] = k
                      \/ /\ k < enqueuePos
                         /\ seq'[CellOf(k)] = k + 1
                         /\ value[CellOf(k)] = claimed[k + 1]
    BY <1>2 DEF Cells, CellOf
  <2>1. CASE k = D + Capacity
    <3>1. CellOf(k) = CellOf(D)  BY <1>1, <2>1, LapCloses
    <3> QED BY <1>5, <2>1, <3>1
  <2>2. CASE k # D + Capacity
    <3>1. k # D /\ D <= k /\ k < D + Capacity  BY <1>1, <2>2
    <3>2. seq'[CellOf(k)] = seq[CellOf(k)]  BY <1>5, <3>1
    <3> QED BY <3>1, <3>2 DEF IInv, Cells
  <2> QED BY <2>1, <2>2
<1>9. (Found /\ FirstInFirstOut)'
  BY <1>2 DEF IInv, Found, FirstInFirstOut
<1>10. Claims'
  <2>1. \A q \in Producer : Owns(q)' <=> Owns(q)  BY <1>2 DEF Owns
  <2>2. \A q \in Producer : producing[q] = "claim" => seq'[CellOf(pos[q])] >= pos[q]
    <3>1. seq[CellOf(D)] <= D + Capacity  BY <1>1, <1>3
    <3> QED BY <1>1, <1>2, <1>5, <3>1, SeqOnlyGrows
  <2>3. ASSUME NEW q \in Producer, Owns(q)
        PROVE  /\ D + 1 <= pos[q] /\ seq'[CellOf(pos[q])] = pos[q]
    <3>1. pos[q] \in Nat /\ D <= pos[q] /\ pos[q] < D + Capacity /\ seq[CellOf(pos[q])] = pos[q]
      BY <2>3, Owner
    <3>2. pos[q] # D  BY <1>1, <1>3, <3>1
    <3>3. seq'[CellOf(pos[q])] = seq[CellOf(pos[q])]  BY <1>5, <3>1, <3>2
    <3> QED BY <1>1, <3>1, <3>2, <3>3
  <2> QED BY <1>2, <2>1, <2>2, <2>3 DEF IInv, Claims, CellOf
<1> QED BY <1>6, <1>7, <1>8, <1>9, <1>10 DEF IInv, RingSizeOK

(* The strengthened invariant holds in every state the ring can reach.     *)
THEOREM RingInvHolds == RingSizeOK /\ Spec => []IInv
<1>1. IInv /\ UNCHANGED vars => IInv'
  <2> SUFFICES ASSUME IInv, UNCHANGED vars PROVE IInv'
    OBVIOUS
  <2>1. UNCHANGED <<seq, value, enqueuePos, claimed, producing, pos, item, dequeuePos, consuming, received>>
    BY DEF vars, cells, local, consumer
  <2>2. \A p \in Producer : Owns(p)' <=> Owns(p)  BY <2>1 DEF Owns
  <2>3. (TypeOK /\ Positions /\ Found /\ FirstInFirstOut)'
    BY <2>1, Zenon DEF IInv, TypeOK, Positions, Found, FirstInFirstOut, CellOf, Cell
  <2>4. (Cells /\ Claims)'  BY <2>1, <2>2 DEF IInv, Cells, Claims, CellOf
  <2> QED BY <2>3, <2>4 DEF IInv, RingSizeOK
<1>2. IInv /\ Next => IInv'
  BY LookingPreservesInv, ClaimPreservesInv, FillPreservesInv, PublishPreservesInv,
     ReadingPreservesInv, RecyclePreservesInv, Zenon DEF Next, Produce, Consume
<1>3. IInv /\ [Next]_vars => IInv'  BY <1>1, <1>2
<1> QED BY InitEstablishesInv, <1>3, PTL DEF Spec

(* What the consumer reads is what the producers pushed, in the order in   *)
(* which they claimed their positions.                                     *)
THEOREM FirstInFirstOutHolds == RingSizeOK /\ Spec => []FirstInFirstOut
<1>1. IInv => FirstInFirstOut  BY DEF IInv
<1> QED BY RingInvHolds, <1>1, PTL

(* No two producers write one cell, and none writes the cell being read.   *)
THEOREM ExclusiveCellsHold == RingSizeOK /\ Spec => []ExclusiveCells
<1>1. IInv => ExclusiveCells
  <2> SUFFICES ASSUME IInv, NEW p \in Producer, Owns(p)
               PROVE  /\ \A q \in Producer \ {p} : Owns(q) => CellOf(pos[p]) # CellOf(pos[q])
                      /\ consuming = "use" => CellOf(pos[p]) # CellOf(dequeuePos)
    BY DEF ExclusiveCells
  <2>1. seq[CellOf(pos[p])] = pos[p]  BY Owner
  <2>2. \A q \in Producer \ {p} : Owns(q) => CellOf(pos[p]) # CellOf(pos[q])
    <3> SUFFICES ASSUME NEW q \in Producer \ {p}, Owns(q), CellOf(pos[p]) = CellOf(pos[q])  PROVE FALSE
      OBVIOUS
    <3>1. seq[CellOf(pos[q])] = pos[q] /\ pos[p] # pos[q]  BY Owner
    <3> QED BY <2>1, <3>1
  <2>3. ASSUME consuming = "use", CellOf(pos[p]) = CellOf(dequeuePos)  PROVE FALSE
    <3>1. seq[CellOf(dequeuePos)] = dequeuePos + 1  BY <2>3 DEF IInv, Found
    <3>2. /\ pos[p] = dequeuePos + 1 /\ pos[p] \in Nat /\ dequeuePos \in Nat /\ pos[p] - dequeuePos < Capacity
          /\ dequeuePos < pos[p] /\ RingSizeOK
      BY <2>1, <2>3, <3>1, Owner, Basics
    <3> QED BY <2>3, <3>2, CellsDistinct
  <2> QED BY <2>2, <2>3
<1> QED BY RingInvHolds, <1>1, PTL

(* Publishing appends one value to the queue.                              *)
LEMMA PutExtends ==
    ASSUME NEW T, NEW s \in Seq(T), NEW h \in Nat, h <= Len(s), NEW v \in T
    PROVE  SubSeq(Append(s, v), h + 1, Len(s) + 1) = Append(SubSeq(s, h + 1, Len(s)), v)
<1> DEFINE n == Len(s)
           u == Append(s, v)
           l == SubSeq(u, h + 1, n + 1)
           k == SubSeq(s, h + 1, n)
<1>1. /\ n \in Nat /\ u \in Seq(T) /\ Len(u) = n + 1
      /\ \A i \in 1..n : u[i] = s[i] /\ s[i] \in T
      /\ u[n + 1] = v
  OBVIOUS
<1>2. \A i \in (h + 1)..(n + 1) : u[i] \in T  BY <1>1
<1>3. \A i \in (h + 1)..n : s[i] \in T  BY <1>1
<1> HIDE DEF n, u
<1>4. /\ l \in Seq(T) /\ Len(l) = n + 1 - h
      /\ \A i \in 1..(n + 1 - h) : l[i] = u[h + i]
  BY <1>1, <1>2, SubSeqProperties DEF n
<1>5. /\ k \in Seq(T) /\ Len(k) = n - h
      /\ \A i \in 1..(n - h) : k[i] = s[h + i]
  BY <1>1, <1>3, SubSeqProperties DEF n
<1> HIDE DEF l, k
<1>6. /\ Append(k, v) \in Seq(T) /\ Len(Append(k, v)) = n + 1 - h
      /\ \A i \in 1..(n - h) : Append(k, v)[i] = k[i]
      /\ Append(k, v)[n + 1 - h] = v
  BY <1>1, <1>5, AppendProperties
<1>7. ASSUME NEW i \in 1..(n + 1 - h)  PROVE l[i] = Append(k, v)[i]
  <2>1. CASE i = n + 1 - h
    <3>1. h + i = n + 1  BY <1>1, <2>1 DEF n
    <3>2. l[i] = u[h + i]  BY <1>4
    <3> QED BY <1>1, <1>6, <2>1, <3>1, <3>2, Zenon
  <2>2. CASE i <= n - h
    <3>1. i \in 1..(n - h) /\ h + i \in 1..n  BY <1>1, <2>2 DEF n
    <3>2. l[i] = u[h + i]  BY <1>4
    <3>3. u[h + i] = s[h + i]  BY <1>1, <3>1, Zenon
    <3>4. Append(k, v)[i] = s[h + i]  BY <1>5, <1>6, <3>1, Zenon
    <3> QED BY <3>2, <3>3, <3>4
  <2>3. i \in Int /\ h \in Nat /\ n \in Nat /\ h <= n  BY <1>1 DEF n
  <2>4. i <= n - h \/ i = n + 1 - h  BY <2>3
  <2> QED BY <2>1, <2>2, <2>4
<1>8. l = Append(k, v)  BY <1>4, <1>6, <1>7, SeqEqual
<1> QED BY <1>8 DEF l, k, n, u

(* Retiring a slot takes the first value off the queue.                    *)
LEMMA TakeDropsFirst ==
    ASSUME NEW T, NEW s \in Seq(T), NEW h \in Nat, h < Len(s)
    PROVE  /\ SubSeq(s, h + 1, Len(s)) # <<>>
           /\ SubSeq(s, h + 2, Len(s)) = Tail(SubSeq(s, h + 1, Len(s)))
<1>1. h + 1 \in 1..Len(s) /\ Len(s) \in (h + 1)..Len(s) /\ h + 1 + 1 = h + 2  OBVIOUS
<1>2. Tail(SubSeq(s, h + 1, Len(s))) = SubSeq(s, h + 1 + 1, Len(s))
  BY <1>1, HeadTailOfSubSeq
<1>3. \A i \in (h + 1)..Len(s) : s[i] \in T  OBVIOUS
<1>4. Len(SubSeq(s, h + 1, Len(s))) = Len(s) - h  BY <1>1, <1>3, SubSeqProperties
<1>5. SubSeq(s, h + 1, Len(s)) # <<>>
  <2>1. Len(<<>>) = 0  OBVIOUS
  <2>2. Len(s) - h # 0  OBVIOUS
  <2> QED BY <1>4, <2>1, <2>2
<1> QED BY <1>1, <1>2, <1>5

(* What one step does to the queue between the two positions.              *)
LEMMA QueueStep ==
    ASSUME IInv, [Next]_vars
    PROVE  \/ UNCHANGED <<claimed, enqueuePos, dequeuePos>>
           \/ \E v \in Value :
                /\ claimed' = Append(claimed, v) /\ enqueuePos' = enqueuePos + 1
                /\ UNCHANGED dequeuePos /\ enqueuePos < dequeuePos + Capacity
           \/ /\ dequeuePos' = dequeuePos + 1 /\ dequeuePos < enqueuePos
              /\ UNCHANGED <<claimed, enqueuePos>>
<1>1. CASE \E p \in Producer : Claim(p)
  <2>1. PICK p \in Producer : Claim(p)  BY <1>1
  <2>2. enqueuePos < dequeuePos + Capacity  BY <2>1, ClaimFindsFreeCell
  <2>3. item[p] \in Value  BY <2>1 DEF Claim, IInv, Claims
  <2> QED BY <2>1, <2>2, <2>3 DEF Claim, TakePosition, consumer
<1>2. CASE Recycle
  <2>1. seq[CellOf(dequeuePos)] = dequeuePos + 1  BY <1>2 DEF Recycle, IInv, Found
  <2>2. seq[CellOf(dequeuePos)] # dequeuePos  BY <2>1, Basics
  <2>3. dequeuePos < enqueuePos  BY <2>2, OldestCell
  <2> QED BY <1>2, <2>3 DEF Recycle
<1>3. CASE UNCHANGED <<claimed, enqueuePos, dequeuePos>>
  BY <1>3
<1>4. (\E p \in Producer : Claim(p)) \/ Recycle \/ UNCHANGED <<claimed, enqueuePos, dequeuePos>>
  BY DEF Next, Produce, Consume, BeginProduce, LoadSeq, ClaimFails, StartFill, EndFill, Publish,
         LookForWork, Use, consumer, vars
<1> QED BY <1>1, <1>2, <1>3, <1>4
=============================================================================
