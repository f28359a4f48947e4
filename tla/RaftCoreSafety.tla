--------------------------- MODULE RaftCoreSafety ---------------------------
(***************************************************************************)
(* Proofs about RaftCore, fifth part: what the commit index covers.        *)
(*                                                                         *)
(* Every step keeps the commit index, on a node or in a request, over      *)
(* chosen entries only (CommitBacked, MessagesBacked), the record a record *)
(* of chosen entries (RecordBacked), match indices the acknowledgements of *)
(* peers (MatchBacked) and the applied entries a prefix of the log         *)
(* (AppliedFromLog). Together with the parts before, this is the inductive *)
(* invariant Safe; Leader Completeness and the other properties follow     *)
(* from it.                                                                *)
(***************************************************************************)
EXTENDS RaftCoreChosen

(* The record only grows, by what the leader that raised its index holds.  *)
LEMMA RecordGrows ==
    ASSUME NEW i \in Node, CommitStep(i), MessagesBacked
    PROVE  /\ Len(committed) \in Nat /\ Len(committed') \in Nat /\ Len(committed) <= Len(committed')
           /\ \A k \in 1..Len(committed) : committed'[k] = committed[k]
           /\ \A k \in 1..Len(committed') : k > Len(committed) =>
                 /\ LeaderRaises(i) /\ k <= commitIndex'[i]
                 /\ committed'[k].entry = log'[i][k] /\ committed'[k].at = currentTerm'[i]
<1>0. /\ TypeInv /\ TypeInv' /\ CommitMove(i)
      /\ committed \in Seq([entry : Entry, at : Term]) /\ committed' \in Seq([entry : Entry, at : Term])
      /\ commitIndex'[i] \in Nat
  BY DEF CommitStep, Step, Known, TypeInv, ObserverTypeOK, StateTypeOK
<1>1. Len(committed) \in Nat /\ Len(committed') \in Nat
  BY <1>0, LenProperties
<1>2. CASE committed' = committed
  BY <1>1, <1>2
<1>3. CASE committed' # committed
  <2>1. PICK c, lg, t : c = commitIndex'[i] /\ lg = log'[i] /\ t = currentTerm'[i]
    OBVIOUS
  <2>2. c > Len(committed) /\ committed' = ObserveCommit(lg, c, t)
    BY <1>0, <1>3, <2>1, Zenon DEF CommitMove, Keeps, Restarts, Raises
  <2>3. ASSUME NEW m, FollowerRaises(i, m) PROVE FALSE
    <3>1. m \in appends /\ c = Min({m.leaderCommit, ConfirmedThrough(m)})
      BY <2>1, <2>3, Zenon DEF FollowerRaises, Merges
    <3>2. m.leaderCommit \in Nat /\ ConfirmedThrough(m) \in Nat
      BY <1>0, <3>1, LenProperties DEF TypeInv, NetworkTypeOK, AppendEntries, ConfirmedThrough
    <3>3. c <= m.leaderCommit /\ c \in Nat
      <4> DEFINE S == {m.leaderCommit, ConfirmedThrough(m)}
      <4>1. S \in SUBSET Nat /\ S # {} /\ m.leaderCommit \in S
        BY <3>2
      <4> HIDE DEF S
      <4>2. Min(S) \in S /\ \A y \in S : Min(S) <= y
        BY <1>0, <4>1, MinProperties, Zenon
      <4>3. c = Min(S)
        BY <3>1 DEF S
      <4> QED BY <4>1, <4>2, <4>3
    <3>4. m.leaderCommit <= Len(committed)
      BY <3>1, Zenon DEF MessagesBacked
    <3> QED BY <1>1, <2>2, <3>2, <3>3, <3>4
  <2>4. LeaderRaises(i)
    BY <1>0, <1>3, <2>3, Zenon DEF CommitMove, Keeps, Restarts, Raises
  <2> DEFINE more == [k \in 1..(c - Len(committed)) |-> [entry |-> lg[Len(committed) + k], at |-> t]]
  <2>5. committed' = committed \o more
    BY <2>2 DEF ObserveCommit
  <2>6. c - Len(committed) \in Nat /\ c \in Nat
    BY <1>0, <1>1, <2>1, <2>2
  <2>7. /\ Len(committed') = Len(committed) + (c - Len(committed))
        /\ \A k \in 1..Len(committed) : committed'[k] = committed[k]
        /\ \A k \in 1..Len(committed') : k > Len(committed) => committed'[k] = more[k - Len(committed)]
    <3> DEFINE n == c - Len(committed)
               R == {[entry |-> lg[Len(committed) + k], at |-> t] : k \in 1..n}
    <3>1. more \in [1..n -> R]
      OBVIOUS
    <3> HIDE DEF more, R
    <3>2. more \in Seq(R) /\ Len(more) = n
      BY <2>6, <3>1, FunctionIsSeq
    <3> QED BY <1>0, <1>1, <2>5, <2>6, <3>2
  <2>8. ASSUME NEW k \in 1..Len(committed'), k > Len(committed)
        PROVE  k <= c /\ committed'[k].entry = lg[k] /\ committed'[k].at = t
    <3>1. k - Len(committed) \in 1..(c - Len(committed)) /\ Len(committed) + (k - Len(committed)) = k /\ k <= c
      BY <1>1, <2>6, <2>7, <2>8
    <3>2. more[k - Len(committed)] = [entry |-> lg[k], at |-> t]
      BY <3>1
    <3> HIDE DEF more
    <3>3. committed'[k] = [entry |-> lg[k], at |-> t]
      BY <2>7, <2>8, <3>2
    <3> QED BY <3>1, <3>3
  <2>9. Len(committed) <= Len(committed')
    BY <1>1, <2>6, <2>7
  <2> QED BY <1>1, <2>1, <2>4, <2>7, <2>8, <2>9
<1> QED BY <1>2, <1>3

(* The record stays backed.                                                *)
LEMMA RecordKept ==
    ASSUME NEW i \in Node, CommitStep(i), MessagesBacked, RecordBacked, MatchBacked'
    PROVE  RecordBacked'
<1>0. /\ Step(i) /\ TypeInv /\ TypeInv' /\ committed \in Seq([entry : Entry, at : Term])
      /\ leaderLog \in [Term -> Seq(Entry)] /\ leaderLog' \in [Term -> Seq(Entry)]
      /\ Grown(leaderLog, leaderLog')
  BY StepTypes, Zenon DEF CommitStep, TypeInv, ObserverTypeOK
<1> SUFFICES ASSUME NEW k \in 1..Len(committed')
             PROVE  \E c \in Nat : /\ c >= k /\ Chosen(committed[k].at, c)'
                                   /\ leaderLog'[committed'[k].at][k] = committed'[k].entry
  BY Zenon DEF RecordBacked
<1>1. /\ Len(committed) \in Nat /\ Len(committed') \in Nat /\ k \in Nat
      /\ k \in 1..Len(committed) => committed'[k] = committed[k]
      /\ k > Len(committed) => /\ LeaderRaises(i) /\ k <= commitIndex'[i]
                               /\ committed'[k].entry = log'[i][k] /\ committed'[k].at = currentTerm'[i]
  BY RecordGrows
<1>2. PICK at, e : at = committed'[k].at /\ e = committed'[k].entry
  OBVIOUS
<1>3. CASE k \in 1..Len(committed)
  <2>1. at = committed[k].at /\ e = committed[k].entry
    BY <1>1, <1>2, <1>3
  <2>2. at \in Term
    <3> DEFINE R == [entry : Entry, at : Term]
    <3>1. committed \in Seq(R)
      BY <1>0
    <3> HIDE DEF R
    <3>2. committed[k] \in R
      BY <1>3, <3>1
    <3> QED BY <2>1, <3>2 DEF R
  <2>3. PICK c \in Nat : c >= k /\ Chosen(at, c) /\ leaderLog[at][k] = e
    BY <1>3, <2>1, Zenon DEF RecordBacked
  <2>4. Chosen(at, c)'
    BY <1>0, <2>2, <2>3, ChosenStays, Zenon
  <2>5. leaderLog'[at][k] = leaderLog[at][k]
    <3>1. c \in 1..Len(leaderLog[at])
      BY <2>3, Zenon DEF Chosen
    <3>2. Len(leaderLog[at]) \in Nat
      BY <1>0, <2>2, LenProperties
    <3>3. k \in 1..Len(leaderLog[at])
      BY <1>3, <2>3, <3>1, <3>2
    <3> QED BY <1>0, <2>2, <3>3, Zenon DEF Grown, Agree
  <2> QED BY <1>2, <2>3, <2>4, <2>5, Zenon
<1>4. CASE k > Len(committed)
  <2>1. PICK t \in Term, c \in Nat :
          t = currentTerm'[i] /\ c = commitIndex'[i] /\ log'[i] = leaderLog'[t] /\ Chosen(t, c)'
    BY <1>1, <1>4, LeaderChooses, Zenon
  <2>2. at = t /\ e = leaderLog'[t][k] /\ k <= c
    BY <1>1, <1>2, <1>4, <2>1, Zenon
  <2>3. c >= k
    BY <1>1, <2>2
  <2> QED BY <1>2, <2>1, <2>2, <2>3, Zenon
<1> QED BY <1>1, <1>3, <1>4

(* The commit index of a live node never falls.                            *)
LEMMA CommitRises ==
    ASSUME NEW i \in Node, CommitStep(i), MessagesBacked
    PROVE  /\ commitIndex[i] \in Nat /\ commitIndex'[i] \in Nat
           /\ commitIndex'[i] >= commitIndex[i] \/ Restarts(i)
           /\ \A m : FollowerRaises(i, m) => m \in appends /\ commitIndex'[i] = m.leaderCommit
<1>0. /\ TypeInv /\ CommitMove(i) /\ commitIndex[i] \in Nat /\ commitIndex'[i] \in Nat
      /\ Len(log'[i]) \in Nat
  BY LenProperties DEF CommitStep, Step, Known, TypeInv, StateTypeOK
<1>1. ASSUME NEW m, FollowerRaises(i, m)
      PROVE  m \in appends /\ commitIndex'[i] = m.leaderCommit /\ m.leaderCommit > commitIndex[i]
  <2>1. /\ m \in appends /\ commitIndex'[i] = Min({m.leaderCommit, ConfirmedThrough(m)})
        /\ m.leaderCommit > commitIndex[i]
    BY <1>1, Zenon DEF FollowerRaises, Merges
  <2>2. m.leaderCommit \in Nat /\ ConfirmedThrough(m) \in Nat
    BY <1>0, <2>1, LenProperties DEF TypeInv, NetworkTypeOK, AppendEntries, ConfirmedThrough
  <2>3. m.leaderCommit <= ConfirmedThrough(m)
    BY <2>1, Zenon DEF MessagesBacked
  <2> DEFINE S == {m.leaderCommit, ConfirmedThrough(m)}
  <2>4. S \in SUBSET Nat /\ S # {} /\ m.leaderCommit \in S
    BY <2>2
  <2>5. Min(S) \in S /\ \A y \in S : Min(S) <= y
    <3> HIDE DEF S
    <3> QED BY <1>0, <2>4, MinProperties, Zenon
  <2>6. Min(S) = m.leaderCommit
    BY <2>2, <2>3, <2>5
  <2> QED BY <2>1, <2>6
<1>2. CASE LeaderRaises(i)
  <2>1. commitIndex'[i] \in commitIndex[i] + 1 .. Len(log'[i])
    BY <1>2, Zenon DEF LeaderRaises, Committable
  <2>2. commitIndex'[i] >= commitIndex[i]
    BY <1>0, <2>1
  <2> QED BY <1>0, <1>1, <2>2, Zenon
<1>3. ASSUME NEW m, FollowerRaises(i, m) PROVE commitIndex'[i] >= commitIndex[i]
  BY <1>0, <1>1, <1>3
<1>4. CASE commitIndex'[i] = commitIndex[i]
  BY <1>0, <1>1, <1>4
<1> QED BY <1>0, <1>1, <1>2, <1>3, <1>4, Zenon DEF CommitMove, Keeps, Raises

(* Commit indices stay backed.                                             *)
LEMMA CommitKept ==
    ASSUME NEW i \in Node, CommitStep(i), CommitBacked, MessagesBacked, MatchBacked'
    PROVE  CommitBacked'
<1>0. /\ Step(i) /\ VoteInv /\ Known /\ TypeInv /\ LogInv /\ CommitMove(i) /\ Own(i) /\ TypeInv'
      /\ LogInv'
  BY StepTypes, Zenon DEF CommitStep, Step
<1> SUFFICES ASSUME NEW l \in Node, commitIndex'[l] > 0
             PROVE  Held(log[l], currentTerm[l], commitIndex[l])'
  BY Zenon DEF CommitBacked
<1>1. PICK lg, t, k, mm, u, n : /\ lg = log[l] /\ t = currentTerm[l] /\ k = commitIndex[l]
                                /\ mm = log'[l] /\ u = currentTerm'[l] /\ n = commitIndex'[l]
  OBVIOUS
<1>2. /\ t \in Nat /\ u \in Nat /\ t <= u /\ k \in Nat /\ n \in Nat /\ u \in Term /\ mm \in Seq(Entry)
  <2>1. t \in Nat /\ u \in Nat /\ t <= u
    BY <1>0, <1>1, TermsRise
  <2> QED BY <1>0, <1>1, <2>1 DEF TypeInv, StateTypeOK
<1>3. Agree(mm, lg, k)
  BY <1>0, <1>1, PrefixKept, Zenon
<1>4. SUFFICES Held(mm, u, n)'
  BY <1>1, Zenon DEF Held
<1>5. CASE n = k
  <2>1. Held(lg, t, k)
    BY <1>1, <1>5, Zenon DEF CommitBacked
  <2> QED BY <1>0, <1>2, <1>3, <1>5, <2>1, HeldStays, Zenon
<1>6. CASE n # k
  <2>1. l = i
    BY <1>0, <1>1, <1>6, Zenon DEF CommitMove
  <2>2. n # 0
    BY <1>1, <1>2
  <2>3. LeaderRaises(i) \/ \E m : FollowerRaises(i, m)
    BY <1>0, <1>1, <1>6, <2>1, <2>2, Zenon DEF CommitMove, Keeps, Restarts, Raises
  <2>4. CASE LeaderRaises(i)
    <3>1. PICK T \in Term, c \in Nat :
            T = currentTerm'[i] /\ c = commitIndex'[i] /\ log'[i] = leaderLog'[T] /\ Chosen(T, c)'
      BY <2>4, LeaderChooses, Zenon
    <3>2. T = u /\ c = n /\ mm = leaderLog'[T] /\ Chosen(T, n)'
      BY <1>1, <2>1, <3>1, Zenon
    <3>3. n \in 1..Len(mm) /\ Len(mm) \in Nat
      BY <1>2, <3>2, LenProperties DEF Chosen
    <3>4. Agree(mm, leaderLog'[T], n)
      <4>1. Agree(mm, mm, n)
        BY <1>2, <3>3, AgreeSelf
      <4> QED BY <3>2, <4>1
    <3>5. T <= u /\ n >= n
      BY <1>2, <3>2
    <3> QED BY <1>2, <3>2, <3>4, <3>5, Zenon DEF Held
  <2>5. ASSUME NEW m, FollowerRaises(i, m) PROVE Held(mm, u, n)'
    <3>1. m \in appends /\ n = m.leaderCommit
      BY <1>1, <2>1, <2>5, CommitRises, Zenon
    <3>2. Merges(i, m, Len(m.entries)) /\ currentTerm'[i] = m.term
      BY <2>5, Zenon DEF FollowerRaises, Merges
    <3>3. /\ m.term \in Term /\ leaderLog[m.term] \in Seq(Entry)
          /\ Agree(mm, leaderLog[m.term], ConfirmedThrough(m))
      BY <1>0, <1>1, <2>1, <3>2, MergeResult
    <3>4. n <= ConfirmedThrough(m) /\ Held(leaderLog[m.term], m.term, n)
      BY <1>1, <3>1, Zenon DEF MessagesBacked
    <3>5. ConfirmedThrough(m) \in Nat
      BY <1>0, <3>1, LenProperties DEF TypeInv, NetworkTypeOK, AppendEntries, ConfirmedThrough
    <3>6. Agree(mm, leaderLog[m.term], n)
      BY <1>2, <3>3, <3>4, <3>5, AgreeShorter
    <3>7. PICK x, y : x = leaderLog[m.term] /\ y = m.term
      OBVIOUS
    <3>8. y \in Nat /\ y <= u
      BY <1>1, <1>2, <2>1, <3>2, <3>7
    <3> QED BY <1>0, <1>2, <3>4, <3>6, <3>7, <3>8, HeldStays, Zenon
  <2> QED BY <2>3, <2>4, <2>5, Zenon
<1> QED BY <1>5, <1>6

(* Requests carry commit indices that are backed.                          *)
LEMMA MessagesKept ==
    ASSUME NEW i \in Node, CommitStep(i), MessagesBacked, CommitBacked'
    PROVE  MessagesBacked'
<1>0. /\ Step(i) /\ TypeInv /\ TypeInv' /\ LogInv' /\ Sends(i) /\ Window' /\ Grown(leaderLog, leaderLog')
      /\ leaderLog \in [Term -> Seq(Entry)] /\ leaderLog' \in [Term -> Seq(Entry)]
  BY StepTypes, Zenon DEF CommitStep
<1> SUFFICES ASSUME NEW m \in appends'
             PROVE  /\ m.leaderCommit <= ConfirmedThrough(m) /\ m.leaderCommit <= Len(committed')
                    /\ m.leaderCommit > 0 => Held(leaderLog[m.term], m.term, m.leaderCommit)'
  BY Zenon DEF MessagesBacked
<1>1. PICK u, n : u = m.term /\ n = m.leaderCommit
  OBVIOUS
<1>2. PICK mm : mm = leaderLog'[u]
  OBVIOUS
<1>3. u \in Term /\ u \in Nat /\ n \in Nat /\ mm \in Seq(Entry)
  <2>1. u \in Term /\ n \in Nat
    BY <1>0, <1>1, Zenon DEF TypeInv, NetworkTypeOK, AppendEntries
  <2> QED BY <1>0, <1>2, <2>1, TermsAreNat
<1>4. SUFFICES /\ n <= ConfirmedThrough(m) /\ n <= Len(committed')
               /\ n > 0 => Held(mm, u, n)'
  BY <1>1, <1>2, Zenon DEF Held
<1>5. CASE m \in appends
  <2>1. /\ n <= ConfirmedThrough(m) /\ n <= Len(committed)
        /\ n > 0 => Held(leaderLog[u], u, n)
    BY <1>1, <1>5, Zenon DEF MessagesBacked
  <2>2. n <= Len(committed')
    BY <1>3, <2>1, RecordGrows
  <2>3. ASSUME n > 0 PROVE Held(mm, u, n)'
    <3>1. PICK x : x = leaderLog[u]
      OBVIOUS
    <3>2. Held(x, u, n)
      BY <2>1, <2>3, <3>1, Zenon
    <3>3. n <= Len(x)
      BY <3>2, Zenon DEF Held, Agree
    <3>4. Agree(mm, x, Len(x)) /\ x \in Seq(Entry) /\ Len(x) \in Nat
      BY <1>0, <1>2, <1>3, <3>1, LenProperties DEF Grown
    <3>5. Agree(mm, x, n)
      BY <1>3, <3>3, <3>4, AgreeShorter
    <3>6. u <= u
      BY <1>3
    <3> QED BY <1>0, <1>3, <3>2, <3>5, <3>6, HeldStays, Zenon
  <2> QED BY <2>1, <2>2, <2>3
<1>6. CASE m \notin appends
  <2>1. role'[i] = Leader
    BY <1>0, <1>6, Zenon DEF Sends
  <2>2. PICK j \in Peers(i) :
          m = AppendEntriesTo(i, j, currentTerm'[i], log'[i], nextIndex'[i][j], commitIndex'[i])
    BY <1>0, <1>6, Zenon DEF Sends
  <2>3. j \in Node /\ log'[i] \in Seq(Entry) /\ nextIndex'[i][j] \in Nat \ {0}
    BY <1>0 DEF Peers, TypeInv, StateTypeOK
  <2>4. nextIndex'[i][j] <= Len(log'[i]) + 1
    BY <1>0, <2>1, <2>3, Zenon DEF Window
  <2>5. ConfirmedThrough(m) = Len(log'[i])
    <3>1. PICK t, lg, next, c : /\ t = currentTerm'[i] /\ lg = log'[i] /\ next = nextIndex'[i][j]
                                /\ c = commitIndex'[i]
      OBVIOUS
    <3>2. /\ lg \in Seq(Entry) /\ next \in Nat \ {0} /\ next <= Len(lg) + 1
          /\ m = AppendEntriesTo(i, j, t, lg, next, c)
      BY <2>2, <2>3, <2>4, <3>1, Zenon
    <3>3. IsSlice(m, lg) /\ ConfirmedThrough(m) = Len(lg)
      BY <3>2, SentIsSlice
    <3> QED BY <3>1, <3>3
  <2>6. u = currentTerm'[i] /\ n = commitIndex'[i]
    BY <1>1, <2>2 DEF AppendEntriesTo
  <2>7. log'[i] = mm
    BY <1>0, <1>2, <2>1, <2>6, Zenon DEF LogInv, LeaderHoldsLog
  <2>8. n <= Len(committed')
    BY <1>0, <2>6, Zenon DEF TypeInv, CommitRecorded
  <2>9. n > 0 => Held(mm, u, n)'
    <3>1. commitIndex'[i] > 0 => Held(log[i], currentTerm[i], commitIndex[i])'
      BY Zenon DEF CommitBacked
    <3> QED BY <2>6, <2>7, <3>1, Zenon DEF Held
  <2>10. n <= Len(mm)
    <3>1. n > 0 => n <= Len(mm)
      BY <2>9, Zenon DEF Held, Agree
    <3>2. Len(mm) \in Nat
      BY <1>3, LenProperties
    <3> QED BY <1>3, <3>1, <3>2
  <2> QED BY <2>5, <2>7, <2>8, <2>9, <2>10, Zenon
<1> QED BY <1>5, <1>6

(* What was handed on stays a prefix of the committed log.                 *)
LEMMA AppliedKept ==
    ASSUME NEW i \in Node, CommitStep(i), CommitBacked, CommitBacked', MessagesBacked, AppliedFromLog
    PROVE  AppliedFromLog'
<1>0. /\ Step(i) /\ VoteInv /\ TypeInv /\ TypeInv' /\ CommitMove(i)
      /\ applied \in [Node -> Seq(Entry)]
      /\ log \in [Node -> Seq(Entry)] /\ log' \in [Node -> Seq(Entry)]
      /\ commitIndex \in [Node -> Nat] /\ commitIndex' \in [Node -> Nat]
  BY StepTypes, Zenon DEF CommitStep, AppliedFromLog, TypeInv, StateTypeOK
<1>1. \A j \in Node : /\ Len(applied[j]) \in Nat /\ Len(log[j]) \in Nat /\ Len(log'[j]) \in Nat
  BY <1>0, LenProperties
<1>2. ASSUME NEW j \in Node, commitIndex'[j] >= commitIndex[j]
      PROVE  Len(applied[j]) <= commitIndex'[j] /\ Agree(applied[j], log'[j], Len(applied[j]))
  <2>1. Len(applied[j]) <= commitIndex[j] /\ Agree(applied[j], log[j], Len(applied[j]))
    BY Zenon DEF AppliedFromLog
  <2>2. Agree(log'[j], log[j], commitIndex[j])
    BY <1>0, PrefixKept
  <2>3. Agree(log'[j], log[j], Len(applied[j]))
    BY <1>0, <1>1, <2>1, <2>2, AgreeShorter
  <2>4. Len(applied[j]) <= commitIndex'[j]
    BY <1>0, <1>1, <1>2, <2>1
  <2> QED BY <2>1, <2>3, <2>4, AgreeFlip, AgreeChain, Zenon
<1>3. commitIndex'[i] <= Len(log'[i])
  <2>1. CASE commitIndex'[i] > 0
    <3>1. Held(log[i], currentTerm[i], commitIndex[i])'
      BY <2>1, Zenon DEF CommitBacked
    <3> QED BY <3>1, Zenon DEF Held, Agree
  <2>2. CASE ~ (commitIndex'[i] > 0)
    BY <1>0, <1>1, <2>2
  <2> QED BY <2>1, <2>2
<1>4. \A j \in Node : j # i => commitIndex'[j] >= commitIndex[j]
  BY <1>0 DEF CommitMove
<1>5. ASSUME NEW a \in Seq(Entry), applied' = [applied EXCEPT ![i] = a],
             Len(a) <= commitIndex'[i], Agree(a, log'[i], Len(a))
      PROVE  AppliedFromLog'
  <2>1. applied' \in [Node -> Seq(Entry)]
    BY <1>0, <1>5
  <2>2. applied'[i] = a /\ \A j \in Node : j # i => applied'[j] = applied[j]
    BY <1>0, <1>5
  <2>3. ASSUME NEW j \in Node
        PROVE  Len(applied'[j]) <= commitIndex'[j] /\ Agree(applied'[j], log'[j], Len(applied'[j]))
    BY <1>2, <1>4, <1>5, <2>2, Zenon
  <2> QED BY <2>1, <2>3, Zenon DEF AppliedFromLog
<1>6. CASE Restarts(i)
  <2>1. <<>> \in Seq(Entry) /\ Len(<<>>) = 0
    OBVIOUS
  <2>2. Len(<<>>) <= commitIndex'[i] /\ Agree(<<>>, log'[i], Len(<<>>))
    BY <1>0, <1>1, <2>1 DEF Agree
  <2> QED BY <1>5, <1>6, <2>1, <2>2, Zenon DEF Restarts
<1>7. CASE ~ Restarts(i)
  <2>1. commitIndex'[i] >= commitIndex[i] /\ Hands(i)
    BY <1>0, <1>7, CommitRises, Zenon DEF CommitMove, Keeps, Raises
  <2>2. Len(applied[i]) <= commitIndex'[i] /\ Agree(applied[i], log'[i], Len(applied[i]))
    BY <1>2, <2>1, Zenon
  <2>3. CASE applied' = applied
    <3>1. applied' = [applied EXCEPT ![i] = applied[i]]
      BY <1>0, <2>3
    <3>2. applied[i] \in Seq(Entry)
      BY <1>0
    <3> QED BY <1>5, <2>2, <3>1, <3>2, Zenon
  <2>4. ASSUME applied' = [applied EXCEPT ![i] = applied[i]] PROVE AppliedFromLog'
    <3>1. applied[i] \in Seq(Entry)
      BY <1>0
    <3> QED BY <1>5, <2>2, <2>4, <3>1, Zenon
  <2>5. ASSUME NEW n, n \in Len(applied[i])..commitIndex'[i] \/ n = commitIndex'[i],
               applied' = [applied EXCEPT ![i] = applied[i] \o SubSeq(log'[i], Len(applied[i]) + 1, n)]
        PROVE  AppliedFromLog'
    <3>1. PICK p, lg, c, L : p = applied[i] /\ lg = log'[i] /\ c = commitIndex'[i] /\ L = Len(applied[i])
      OBVIOUS
    <3>2. /\ p \in Seq(Entry) /\ lg \in Seq(Entry) /\ Len(lg) \in Nat /\ L \in Nat /\ L = Len(p)
          /\ n \in Nat /\ L <= n /\ n <= c /\ c <= Len(lg) /\ c \in Nat
      BY <1>0, <1>1, <1>3, <2>2, <2>5, <3>1
    <3>3. \A q \in 1..L : p[q] = lg[q]
      BY <2>2, <3>1, Zenon DEF Agree
    <3> DEFINE s == SubSeq(lg, L + 1, n)
    <3>4. s \in Seq(Entry) /\ Len(s) = n - L /\ \A q \in 1..(n - L) : s[q] = lg[L + q]
      BY <3>2
    <3> HIDE DEF s
    <3>5. /\ p \o s \in Seq(Entry) /\ Len(p \o s) = n
          /\ \A q \in 1..n : (p \o s)[q] = IF q <= L THEN p[q] ELSE s[q - L]
      BY <3>2, <3>4
    <3>6. \A q \in 1..n : (p \o s)[q] = lg[q]
      <4> SUFFICES ASSUME NEW q \in 1..n PROVE (p \o s)[q] = lg[q]
        OBVIOUS
      <4>1. CASE q <= L
        BY <3>2, <3>3, <3>5, <4>1
      <4>2. CASE q > L
        <5>1. q - L \in 1..(n - L) /\ L + (q - L) = q
          BY <3>2, <4>2
        <5> QED BY <3>2, <3>4, <3>5, <4>2, <5>1
      <4>3. q <= L \/ q > L
        BY <3>2
      <4> QED BY <4>1, <4>2, <4>3
    <3>7. Len(p \o s) <= c /\ Agree(p \o s, lg, Len(p \o s))
      <4>1. n <= c /\ n <= Len(lg) /\ n <= n
        BY <3>2
      <4> QED BY <3>5, <3>6, <4>1, Zenon DEF Agree
    <3>8. applied' = [applied EXCEPT ![i] = p \o s]
      BY <2>5, <3>1 DEF s
    <3> QED BY <1>5, <3>1, <3>5, <3>7, <3>8, Zenon
  <2> QED BY <2>1, <2>3, <2>4, <2>5, Zenon DEF Hands
<1> QED BY <1>6, <1>7

(* All of it.                                                              *)
CommitInv == CommitBacked /\ MessagesBacked /\ RecordBacked /\ MatchBacked /\ AppliedFromLog

(* The inductive invariant, except for the votes (ElectionInv), whose      *)
(* consequence Election Safety is part of Known.                           *)
Safe == Known /\ Window /\ VoteInv /\ CommitInv

(* The k-th entry of the record, in the log of the term that chose it.     *)
LEMMA RecordEntry ==
    ASSUME Safe, NEW k \in 1..Len(committed)
    PROVE  \E T \in Term : \E c \in Nat :
              /\ T = committed[k].at /\ k \in Nat /\ k <= c /\ Chosen(T, c)
              /\ leaderLog[T][k] = committed[k].entry
<1>1. committed \in Seq([entry : Entry, at : Term])
  BY DEF Safe, Known, TypeInv, ObserverTypeOK
<1>2. committed[k].at \in Term /\ k \in Nat
  <2> DEFINE R == [entry : Entry, at : Term]
  <2>1. committed \in Seq(R)
    BY <1>1
  <2> HIDE DEF R
  <2>2. committed[k] \in R /\ k \in Nat
    BY <2>1
  <2> QED BY <2>2 DEF R
<1>3. PICK c \in Nat : c >= k /\ Chosen(committed[k].at, c)
                       /\ leaderLog[committed[k].at][k] = committed[k].entry
  BY Zenon DEF Safe, CommitInv, RecordBacked
<1>4. k <= c
  BY <1>2, <1>3
<1> QED BY <1>2, <1>3, <1>4, Zenon

(* A leader holds what its own or an earlier term committed.               *)
LEMMA LeaderCompletenessFollows == Safe => LeaderCompleteness
<1> SUFFICES ASSUME Safe, NEW i \in Node, role[i] = Leader, NEW k \in 1..Len(committed),
                    committed[k].at <= currentTerm[i]
             PROVE  Holds(log[i], k, committed[k].entry)
  BY Zenon DEF LeaderCompleteness
<1>1. PICK T \in Term, c \in Nat :
        /\ T = committed[k].at /\ k \in Nat /\ k <= c /\ Chosen(T, c)
        /\ leaderLog[T][k] = committed[k].entry
  BY RecordEntry, Zenon
<1>2. PICK U \in Term : U = currentTerm[i]
  BY DEF Safe, Known, TypeInv, StateTypeOK
<1>3. log[i] = leaderLog[U] /\ leadersByTerm[U] # {}
  BY <1>2, Zenon DEF Safe, Known, LogInv, LeaderHoldsLog, LeadersInv, LeadersWon
<1>4. /\ Known /\ VoteInv /\ T \in Nat /\ U \in Nat /\ (T = U \/ T < U)
      /\ leaderLog[T] \in Seq(Entry) /\ leaderLog[U] \in Seq(Entry)
      /\ Len(leaderLog[T]) \in Nat /\ c \in 1..Len(leaderLog[T]) /\ k \in 1..c
  BY <1>1, <1>2, TermsAreNat, LenProperties DEF Safe, Known, TypeInv, ObserverTypeOK, Chosen
<1>5. Agree(leaderLog[U], leaderLog[T], c)
  <2>1. CASE T = U
    BY <1>4, <2>1, AgreeSelf
  <2>2. CASE T < U
    BY <1>1, <1>3, <1>4, <2>2, ChosenSurvives
  <2> QED BY <1>4, <2>1, <2>2
<1>6. Len(leaderLog[U]) \in Nat
  BY <1>4, LenProperties
<1> QED BY <1>1, <1>3, <1>4, <1>5, <1>6 DEF Holds, Agree

(* A node's log up to its commit index is the record.                      *)
LEMMA NoLostCommitFollows == Safe => NoLostCommit
<1> SUFFICES ASSUME Safe, NEW i \in Node, NEW k \in 1..commitIndex[i]
             PROVE  k <= Len(committed) /\ Holds(log[i], k, committed[k].entry)
  BY Zenon DEF NoLostCommit
<1>0. /\ Known /\ VoteInv /\ CommitBacked /\ TypeInv /\ commitIndex[i] \in Nat /\ Len(committed) \in Nat
      /\ commitIndex[i] <= Len(committed)
  BY LenProperties DEF Safe, Known, CommitInv, TypeInv, StateTypeOK, ObserverTypeOK, CommitRecorded
<1>1. k \in 1..Len(committed) /\ k \in Nat /\ commitIndex[i] > 0 /\ k <= commitIndex[i] /\ k <= Len(committed)
  BY <1>0
<1>2. PICK T \in Term, c \in Nat :
        /\ T = committed[k].at /\ k <= c /\ Chosen(T, c) /\ leaderLog[T][k] = committed[k].entry
  BY <1>1, RecordEntry, Zenon
<1>3. PICK U \in Term, d \in Nat :
        d >= commitIndex[i] /\ Chosen(U, d) /\ Agree(log[i], leaderLog[U], commitIndex[i])
  BY <1>0, <1>1, Zenon DEF CommitBacked, Held
<1>4. Agree(leaderLog[T], leaderLog[U], k)
  <2>1. k <= d
    BY <1>0, <1>1, <1>3
  <2> QED BY <1>0, <1>1, <1>2, <1>3, <2>1, ChosenAgree, Zenon
<1>5. k <= Len(log[i]) /\ log[i][k] = leaderLog[U][k]
  <2>1. Len(log[i]) \in Nat
    BY <1>0, NodeTypes
  <2> QED BY <1>0, <1>1, <1>3, <2>1 DEF Agree
<1>6. leaderLog[T][k] = leaderLog[U][k]
  <2>1. k \in 1..k
    BY <1>1
  <2> QED BY <1>4, <2>1, Zenon DEF Agree
<1> QED BY <1>1, <1>2, <1>5, <1>6, Zenon DEF Holds

(* The majority that stored an entry when it was chosen stores it still.   *)
LEMMA DurableCommitFollows == Safe => DurableCommit
<1> SUFFICES ASSUME Safe, NEW k \in 1..Len(committed)
             PROVE  Cardinality({i \in Node : Holds(log[i], k, committed[k].entry)}) >= Majority
  BY Zenon DEF DurableCommit
<1>0. Known /\ VoteInv /\ TypeInv /\ AcksHeld
  BY DEF Safe, Known, VoteInv, AckInv
<1>1. PICK T \in Term, c \in Nat :
        /\ T = committed[k].at /\ k \in Nat /\ k <= c /\ Chosen(T, c)
        /\ leaderLog[T][k] = committed[k].entry
  BY RecordEntry, Zenon
<1>2. PICK Q \in SUBSET Node : Cardinality(Q) >= Majority /\ \A j \in Q : Stored(j, T, c)
  BY <1>1, Zenon DEF Chosen
<1>3. ASSUME NEW j \in Q PROVE Holds(log[j], k, committed[k].entry)
  <2>1. j \in Node /\ currentTerm[j] \in Nat /\ Stored(j, T, c) /\ Len(log[j]) \in Nat
    BY <1>0, <1>2, NodeTypes, TermsAreNat
  <2>2. PICK U \in Nat : U = currentTerm[j] + 1
    BY <2>1
  <2>3. Survives(T, c, U)
    BY <1>0, <1>1, ChosenSurvives, Zenon DEF Survives
  <2>4. U > currentTerm[j]
    BY <2>1, <2>2
  <2>5. Agree(log[j], leaderLog[T], c)
    BY <1>0, <2>1, <2>3, <2>4, Zenon DEF AcksHeld
  <2>6. k \in 1..c /\ k <= Len(log[j])
    BY <1>1, <2>1, <2>5 DEF Agree
  <2> QED BY <1>1, <2>5, <2>6, Zenon DEF Holds, Agree
<1> DEFINE P == {i \in Node : Holds(log[i], k, committed[k].entry)}
<1>4. P \in SUBSET Node /\ Q \in SUBSET P
  BY <1>3
<1> HIDE DEF P
<1>5. Cardinality(P) >= Majority
  <2>1. /\ Cardinality(Q) \in Nat /\ Cardinality(P) \in Nat /\ Majority \in Nat
        /\ Cardinality(Q) <= Cardinality(P)
    BY <1>0, <1>4, NodeCounts, Zenon
  <2> QED BY <1>2, <2>1
<1> QED BY <1>5 DEF P

(* What a node applied is a prefix of the record.                          *)
LEMMA StateMachineSafetyFollows == Safe => StateMachineSafety
<1> SUFFICES ASSUME Safe, NEW i \in Node
             PROVE  /\ Len(applied[i]) <= commitIndex[i]
                    /\ \A k \in 1..Len(applied[i]) :
                          k <= Len(committed) /\ applied[i][k] = committed[k].entry
  BY Zenon DEF StateMachineSafety
<1>1. /\ applied[i] \in Seq(Entry) /\ Len(applied[i]) <= commitIndex[i]
      /\ \A k \in 1..Len(applied[i]) : applied[i][k] = log[i][k]
  BY DEF Safe, CommitInv, AppliedFromLog, Agree
<1>2. Len(applied[i]) \in Nat /\ commitIndex[i] \in Nat
  BY <1>1, LenProperties, NodeTypes DEF Safe, Known
<1>3. \A k \in 1..Len(applied[i]) : k \in 1..commitIndex[i]
  BY <1>1, <1>2
<1>4. \A k \in 1..commitIndex[i] : k <= Len(committed) /\ log[i][k] = committed[k].entry
  BY NoLostCommitFollows, Zenon DEF NoLostCommit, Holds
<1> QED BY <1>1, <1>3, <1>4, Zenon

(* A match index is true, and below the next index.                        *)
LEMMA ReplicationWindowFollows == Safe => ReplicationWindow
<1> SUFFICES ASSUME Safe, NEW i \in Node, role[i] = Leader, NEW j \in Peers(i)
             PROVE  /\ matchIndex[i][j] < nextIndex[i][j]
                    /\ nextIndex[i][j] <= Len(log[i]) + 1
                    /\ currentTerm[j] = currentTerm[i] =>
                          \A k \in 1..matchIndex[i][j] : Holds(log[j], k, log[i][k])
  BY Zenon DEF ReplicationWindow
<1>0. /\ j \in Node /\ TypeInv /\ AcksHeld /\ MatchBacked
      /\ matchIndex[i][j] < nextIndex[i][j] /\ nextIndex[i][j] <= Len(log[i]) + 1
  <2>1. j \in Node
    BY DEF Peers
  <2> QED BY <2>1, Zenon DEF Safe, Known, Window, VoteInv, AckInv, CommitInv
<1> SUFFICES ASSUME currentTerm[j] = currentTerm[i], NEW k \in 1..matchIndex[i][j]
             PROVE  Holds(log[j], k, log[i][k])
  BY <1>0, Zenon
<1>1. PICK T \in Term, c \in Nat : T = currentTerm[i] /\ c = matchIndex[i][j]
  BY <1>0, NodeTypes
<1>2. log[i] = leaderLog[T] /\ c # 0 /\ k \in 1..c /\ k \in Nat
  BY <1>1 DEF Safe, Known, LogInv, LeaderHoldsLog
<1>3. Stored(j, T, c)
  <2>1. PICK m \in appendReplies : /\ m.from = j /\ m.term = T /\ m.success
                                   /\ m.conflictIndex = c
    BY <1>0, <1>1, <1>2 DEF MatchBacked
  <2>2. c <= m.conflictIndex
    BY <1>1, <2>1
  <2> QED BY <2>1, <2>2, Zenon DEF Stored
<1>4. PICK U \in Nat : U = T + 1
  BY TermsAreNat
<1>5. Survives(T, c, U)
  <2> SUFFICES ASSUME NEW V \in Term, T < V, V < U PROVE FALSE
    BY Zenon DEF Survives
  <2> QED BY <1>4, TermsAreNat
<1>6. U > currentTerm[j]
  BY <1>1, <1>4, TermsAreNat
<1>7. Agree(log[j], leaderLog[T], c)
  BY <1>0, <1>3, <1>5, <1>6, Zenon DEF AcksHeld
<1>8. k <= Len(log[j])
  <2>1. Len(log[j]) \in Nat
    BY <1>0, NodeTypes
  <2> QED BY <1>2, <1>7, <2>1 DEF Agree
<1> QED BY <1>2, <1>7, <1>8, Zenon DEF Holds, Agree

(* Nothing is committed at the start.                                      *)
LEMMA InitCommits == Init => CommitInv
<1> SUFFICES ASSUME Init PROVE CommitInv
  OBVIOUS
<1>1. /\ \A i \in Node : role[i] = Follower /\ commitIndex[i] = 0 /\ applied[i] = <<>>
      /\ appends = {} /\ committed = <<>> /\ applied = [i \in Node |-> <<>>]
  BY Zenon DEF Init
<1>2. /\ Follower # Leader /\ 1..Len(<<>>) = {} /\ ~ 0 > 0 /\ Len(<<>>) <= 0 /\ <<>> \in Seq(Entry)
      /\ \A s : Agree(<<>>, log[s], 0) <=> 0 <= Len(log[s])
  BY DEF Follower, Leader, Agree
<1>3. \A i \in Node : log[i] = <<>>
  BY Zenon DEF Init
<1>4. AppliedFromLog
  <2>1. Agree(<<>>, <<>>, Len(<<>>))
    BY DEF Agree
  <2>2. applied \in [Node -> Seq(Entry)]
    BY <1>1, <1>2
  <2> QED BY <1>1, <1>2, <1>3, <2>1, <2>2, Zenon DEF AppliedFromLog
<1> QED BY <1>1, <1>2, <1>4, Zenon
        DEF CommitInv, CommitBacked, MessagesBacked, RecordBacked, MatchBacked

(* Every action of a node is such a step.                                  *)
LEMMA StepCommits ==
    ASSUME NEW i \in Node, Known, Known', VoteInv, Window',
           Tick(i) \/ Propose(i) \/ PumpApply(i) \/ Handle(i) \/ Crash(i)
    PROVE  CommitStep(i)
<1>1. TypeInv /\ LeadersInv
  BY DEF Known
<1>2. Step(i)
  BY <1>1, ActionsMove, ActionsAck, ActionsCast, Zenon DEF Step
<1>3. Sends(i) /\ WindowMove(i) /\ CommitMove(i)
  BY <1>1, ActionsSend, ActionsMoveWindow, ActionsCommit, Zenon
<1> QED BY <1>2, <1>3, Zenon DEF CommitStep

(* Every step keeps the commit invariant.                                  *)
LEMMA NextCommits ==
    Known /\ Known' /\ Window' /\ VoteInv /\ CommitInv /\ [Next]_vars => CommitInv'
<1> SUFFICES ASSUME Known, Known', Window', VoteInv, CommitInv, [Next]_vars PROVE CommitInv'
  OBVIOUS
<1>1. CASE UNCHANGED vars
  <2>1. UNCHANGED <<currentTerm, log, role, matchIndex, commitIndex, applied, appends,
                    appendReplies, committed, leadersByTerm, leaderLog>>
    BY <1>1, Zenon DEF vars, persistent, roleVars, leaderVars, commitVars, network, observers
  <2>1a. \A j, T, c : Stored(j, T, c)' <=> Stored(j, T, c)
    BY <2>1, Zenon DEF Stored
  <2>2. \A T, c : Chosen(T, c)' <=> Chosen(T, c)
    BY <2>1, <2>1a, Zenon DEF Chosen
  <2>3. \A lg, t, k : Held(lg, t, k)' <=> Held(lg, t, k)
    BY <2>1, <2>2, Zenon DEF Held
  <2>4. CommitBacked' /\ MessagesBacked' /\ RecordBacked' /\ AppliedFromLog'
    BY <2>1, <2>2, <2>3, Zenon
       DEF CommitInv, CommitBacked, MessagesBacked, RecordBacked, AppliedFromLog
  <2>5. MatchBacked'
    BY <2>1 DEF CommitInv, MatchBacked
  <2> QED BY <2>4, <2>5 DEF CommitInv
<1>2. CASE Next
  <2>1. PICK i \in Node : CommitStep(i)
    BY <1>2, StepCommits, Zenon DEF Next
  <2>2. CommitBacked /\ MessagesBacked /\ RecordBacked /\ MatchBacked /\ AppliedFromLog
    BY DEF CommitInv
  <2>3. MatchBacked'
    BY <2>1, <2>2, MatchKept, Zenon
  <2>4. RecordBacked'
    BY <2>1, <2>2, <2>3, RecordKept, Zenon
  <2>5. CommitBacked'
    BY <2>1, <2>2, <2>3, CommitKept, Zenon
  <2>6. MessagesBacked'
    BY <2>1, <2>2, <2>5, MessagesKept, Zenon
  <2>7. AppliedFromLog'
    BY <2>1, <2>2, <2>5, AppliedKept, Zenon
  <2> QED BY <2>3, <2>4, <2>5, <2>6, <2>7 DEF CommitInv
<1> QED BY <1>1, <1>2

=============================================================================
