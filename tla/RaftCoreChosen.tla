--------------------------- MODULE RaftCoreChosen ---------------------------
(***************************************************************************)
(* Proofs about RaftCore, fourth part: what is chosen, and what a commit   *)
(* index may be raised to.                                                 *)
(*                                                                         *)
(* An index is chosen when a majority stored it (Chosen). By the up-to-    *)
(* date test of onRequestVote and induction over the terms every later     *)
(* leader holds it (ChosenSurvives). Every action moves the commit index,  *)
(* the record of committed entries and the applied prefix in one of four   *)
(* ways (CommitMove), and a leader raises its index to a chosen entry only *)
(* (LeaderChooses).                                                        *)
(***************************************************************************)
EXTENDS RaftCoreVotes

(* Index c of the log of term T is chosen: a majority stored it while T    *)
(* was current, and the entry is T's own.                                  *)
Chosen(T, c) ==
    /\ c \in 1..Len(leaderLog[T]) /\ leaderLog[T][c].term = T
    /\ \E Q \in SUBSET Node : Cardinality(Q) >= Majority /\ \A j \in Q : Stored(j, T, c)

VoteInv == AckInv /\ BallotInv /\ BallotsGood /\ WinsGood

(* The terms of a log never fall.                                          *)
LEMMA TermsSorted ==
    ASSUME TypeInv, LogInv, NEW lg \in Seq(Entry), FromLeaders(lg, leaderLog),
           NEW k \in 1..Len(lg), NEW q \in 1..k
    PROVE  lg[q].term \in Nat /\ lg[k].term \in Nat /\ lg[q].term <= lg[k].term
<1>1. /\ Len(lg) \in Nat /\ k \in Nat /\ q \in 1..Len(lg)
      /\ lg[k].term \in Term /\ lg[k].term \in Nat /\ lg[q].term \in Nat
  BY EntryTypes
<1>2. PICK t \in Term : t = lg[k].term
  BY <1>1
<1>3. Agree(lg, leaderLog[t], k)
  BY <1>2, Zenon DEF FromLeaders
<1>4. q \in 1..Len(leaderLog[t]) /\ lg[q] = leaderLog[t][q]
  <2>1. k <= Len(leaderLog[t]) /\ \A x \in 1..k : lg[x] = leaderLog[t][x]
    BY <1>3 DEF Agree
  <2>2. Len(leaderLog[t]) \in Nat
    BY LenProperties DEF TypeInv, ObserverTypeOK
  <2> QED BY <1>1, <2>1, <2>2
<1>5. leaderLog[t][q].term <= t
  BY <1>4, LeaderLogTerms
<1> QED BY <1>1, <1>2, <1>4, <1>5

(* The log a majority voted for holds what a majority stored before.       *)
LEMMA WinnerHolds ==
    ASSUME Known, VoteInv, NEW T \in Term, NEW U \in Term, NEW c \in Nat, T < U,
           Chosen(T, c), Survives(T, c, U), leadersByTerm[U] # {}
    PROVE  Agree(leaderLog[U], leaderLog[T], c)
<1>0. /\ TypeInv /\ LogInv /\ T \in Nat /\ U \in Nat
      /\ SelfBallotsUnique /\ SelfBallotTerms /\ BallotsUpToDate /\ BallotLogs
  BY TermsAreNat DEF Known, VoteInv, BallotInv
<1>1. /\ leaderLog[T] \in Seq(Entry) /\ leaderLog[U] \in Seq(Entry)
      /\ Len(leaderLog[T]) \in Nat /\ Len(leaderLog[U]) \in Nat
      /\ c \in 1..Len(leaderLog[T]) /\ leaderLog[T][c].term = T
  BY <1>0, LenProperties DEF TypeInv, ObserverTypeOK, Chosen
<1>2. PICK w : w \in leadersByTerm[U]
  OBVIOUS
<1>3. PICK s \in ballots : /\ SelfBallot(s) /\ s.voter = w /\ s.term = U
                           /\ Agree(s.log, leaderLog[U], Len(s.log))
  BY <1>2, Zenon DEF VoteInv, WinsGood
<1>4. PICK P \in SUBSET Node : Cardinality(P) >= Majority /\ \A v \in P : GoodVote(v, w, U)
  BY <1>2, Zenon DEF VoteInv, WinsGood
<1>5. PICK Q \in SUBSET Node : Cardinality(Q) >= Majority /\ \A j \in Q : Stored(j, T, c)
  BY Zenon DEF Chosen
<1>6. PICK v \in Node : v \in P /\ v \in Q
  BY <1>0, <1>4, <1>5, MajoritiesShareNode, Zenon
<1>7. PICK b \in ballots : b.term = U /\ b.voter = v /\ b.candidate = w /\ Good(b)
  BY <1>4, <1>6, Zenon DEF GoodVote
<1>8. Agree(b.log, leaderLog[T], c)
  BY <1>5, <1>6, <1>7, Zenon DEF Good
<1>9. UpToDate(s.log, b.log)
  <2>1. PICK r \in ballots : SelfBallot(r) /\ r.voter = w /\ r.term = U /\ UpToDate(r.log, b.log)
    BY <1>0, <1>7, Zenon DEF BallotsUpToDate
  <2>2. r = s
    BY <1>0, <1>3, <2>1, Zenon DEF SelfBallotsUnique
  <2> QED BY <2>1, <2>2, Zenon
<1>10. PICK a, z : a = s.log /\ z = b.log
  OBVIOUS
<1>11. /\ a \in Seq(Entry) /\ z \in Seq(Entry) /\ Len(a) \in Nat /\ Len(z) \in Nat
       /\ FromLeaders(a, leaderLog) /\ FromLeaders(z, leaderLog)
       /\ LastTerm(a) \in Nat /\ LastTerm(z) \in Nat
  <2>1. a \in Seq(Entry) /\ z \in Seq(Entry) /\ FromLeaders(a, leaderLog) /\ FromLeaders(z, leaderLog)
    BY <1>0, <1>3, <1>7, <1>10, BallotTypes, Zenon DEF BallotLogs
  <2> QED BY <2>1, LenProperties, LastTermType, TermsAreNat
<1>12. c \in 1..Len(z) /\ z[c].term = T
  BY <1>1, <1>8, <1>10, <1>11 DEF Agree
<1>13. T <= LastTerm(z)
  <2>1. Len(z) \in 1..Len(z) /\ c \in 1..Len(z)
    BY <1>11, <1>12
  <2>2. z[c].term <= z[Len(z)].term
    BY <1>0, <1>11, <2>1, TermsSorted
  <2> QED BY <1>12, <2>1, <2>2 DEF LastTerm, TermAt
<1>14. LastTerm(a) > LastTerm(z) \/ (LastTerm(a) = LastTerm(z) /\ Len(a) >= Len(z))
  BY <1>9, <1>10 DEF UpToDate, CandidateLogAtLeastAsUpToDate
<1>15. PICK n \in 1..Len(a) : n = Len(a)
  <2>1. CASE Len(a) = 0
    <3>1. LastTerm(a) = 0
      BY <2>1 DEF LastTerm, TermAt
    <3> QED BY <1>11, <1>12, <1>14, <2>1, <3>1
  <2>2. CASE Len(a) # 0
    BY <1>11, <2>2
  <2> QED BY <2>1, <2>2
<1>16. /\ a[n].term = LastTerm(a) /\ a[n].term < U /\ a[n].term \in Term /\ a[n].term \in Nat
       /\ n \in Nat
  BY <1>0, <1>3, <1>10, <1>11, <1>15, EntryTypes DEF LastTerm, TermAt, SelfBallotTerms
<1>17. PICK y \in Term : y = a[n].term
  BY <1>16
<1>18. Agree(a, leaderLog[y], n) /\ leaderLog[y] \in Seq(Entry)
  BY <1>0, <1>11, <1>17, Zenon DEF FromLeaders, TypeInv, ObserverTypeOK
<1>19. n >= c /\ Agree(leaderLog[y], leaderLog[T], c)
  <2>1. CASE y = T
    <3>1. Len(a) >= Len(z)
      BY <1>0, <1>11, <1>13, <1>14, <1>16, <1>17, <2>1
    <3> QED BY <1>1, <1>11, <1>12, <1>15, <2>1, <3>1, AgreeSelf
  <2>2. CASE y # T
    <3>1. T < y /\ y < U
      BY <1>0, <1>11, <1>13, <1>14, <1>16, <1>17, <2>2
    <3>2. leadersByTerm[y] # {}
      <4>1. leaderLog[y] # <<>>
        BY <1>16, <1>18, <1>15 DEF Agree
      <4> QED BY <1>0, <4>1, Zenon DEF LogInv, LostTermsEmpty
    <3>3. Agree(leaderLog[y], leaderLog[T], c)
      BY <3>1, <3>2, Zenon DEF Survives
    <3>4. n >= c
      <4> SUFFICES ASSUME n < c PROVE FALSE
        BY <1>16
      <4>1. n \in 1..Len(leaderLog[T]) /\ n \in 1..c
        BY <1>1, <1>11, <1>15, <1>16
      <4>2. a[n] = leaderLog[y][n]
        BY <1>11, <1>15, <1>16, <1>18 DEF Agree
      <4>3. leaderLog[y][n] = leaderLog[T][n]
        BY <3>3, <4>1, Zenon DEF Agree
      <4>4. leaderLog[T][n].term <= T
        BY <1>0, <4>1, LeaderLogTerms
      <4> QED BY <1>0, <1>16, <1>17, <3>1, <4>2, <4>3, <4>4
    <3> QED BY <3>3, <3>4
  <2> QED BY <2>1, <2>2
<1>20. Agree(a, leaderLog[y], c)
  BY <1>11, <1>16, <1>18, <1>19, AgreeShorter
<1>21. Agree(a, leaderLog[U], c)
  <2>1. Agree(a, leaderLog[U], Len(a))
    BY <1>3, <1>10, Zenon
  <2> QED BY <1>1, <1>11, <1>15, <1>19, <2>1, AgreeShorter
<1> QED BY <1>19, <1>20, <1>21, AgreeFlip, AgreeChain, Zenon

(* What is chosen in a term is in the log of every later one.              *)
LEMMA ChosenSurvives ==
    ASSUME Known, VoteInv, NEW T \in Term, NEW U \in Term, NEW c \in Nat, T < U,
           Chosen(T, c), leadersByTerm[U] # {}
    PROVE  Agree(leaderLog[U], leaderLog[T], c)
<1> DEFINE S == {V \in Term : /\ T < V /\ leadersByTerm[V] # {}
                              /\ ~ Agree(leaderLog[V], leaderLog[T], c)}
<1> SUFFICES ASSUME S # {} PROVE FALSE
  OBVIOUS
<1>1. S \in SUBSET Nat /\ S \in SUBSET Term
  BY TermsAreNat
<1>2. PICK V \in S : \A x \in S : V <= x
  <2>1. TypeInv
    BY DEF Known
  <2> QED BY <1>1, <2>1, LeastExists, Zenon
<1>3. V \in Term /\ V \in Nat /\ T < V /\ leadersByTerm[V] # {} /\ ~ Agree(leaderLog[V], leaderLog[T], c)
  BY <1>1
<1>4. Survives(T, c, V)
  <2> SUFFICES ASSUME NEW x \in Term, T < x, x < V, leadersByTerm[x] # {}
               PROVE  Agree(leaderLog[x], leaderLog[T], c)
    BY Zenon DEF Survives
  <2>1. x \notin S
    BY <1>2, <1>3, TermsAreNat
  <2> QED BY <2>1
<1> HIDE DEF S
<1> QED BY <1>3, <1>4, WinnerHolds, Zenon

(* The logs of two terms agree as far as both are chosen.                  *)
LEMMA ChosenAgree ==
    ASSUME Known, VoteInv, NEW T \in Term, NEW U \in Term, NEW c \in Nat, NEW d \in Nat, NEW k \in Nat,
           Chosen(T, c), Chosen(U, d), k <= c, k <= d
    PROVE  Agree(leaderLog[T], leaderLog[U], k)
<1>1. /\ T \in Nat /\ U \in Nat
      /\ leaderLog[T] \in Seq(Entry) /\ leaderLog[U] \in Seq(Entry)
      /\ c \in 1..Len(leaderLog[T]) /\ d \in 1..Len(leaderLog[U])
      /\ Len(leaderLog[T]) \in Nat /\ Len(leaderLog[U]) \in Nat
  BY TermsAreNat, LenProperties DEF Known, TypeInv, ObserverTypeOK, Chosen
<1>2. leadersByTerm[T] # {} /\ leadersByTerm[U] # {}
  <2>1. leaderLog[T] # <<>> /\ leaderLog[U] # <<>>
    BY <1>1
  <2> QED BY <2>1, Zenon DEF Known, LogInv, LostTermsEmpty
<1>3. CASE T < U
  <2>1. Agree(leaderLog[U], leaderLog[T], c)
    BY <1>2, <1>3, ChosenSurvives
  <2> QED BY <1>1, <2>1, AgreeShorter, AgreeFlip
<1>4. CASE U < T
  <2>1. Agree(leaderLog[T], leaderLog[U], d)
    BY <1>2, <1>4, ChosenSurvives
  <2> QED BY <1>1, <2>1, AgreeShorter
<1>5. CASE T = U
  BY <1>1, <1>5, AgreeSelf
<1> QED BY <1>1, <1>3, <1>4, <1>5

(* Chosen is for ever.                                                     *)
LEMMA ChosenStays ==
    ASSUME NEW i \in Node, Step(i), NEW T \in Term, NEW c \in Nat, Chosen(T, c)
    PROVE  Chosen(T, c)'
<1>0. /\ leaderLog[T] \in Seq(Entry) /\ leaderLog'[T] \in Seq(Entry)
      /\ Agree(leaderLog'[T], leaderLog[T], Len(leaderLog[T]))
      /\ Len(leaderLog[T]) \in Nat /\ Len(leaderLog'[T]) \in Nat
  BY StepTypes, LenProperties DEF Grown
<1>1. /\ leadersByTerm[T] \subseteq leadersByTerm'[T] /\ appendReplies \subseteq appendReplies'
  BY StepTypes, Zenon DEF Step, Acks
<1>2. c \in 1..Len(leaderLog[T]) /\ leaderLog[T][c].term = T
  BY Zenon DEF Chosen
<1>3. c \in 1..Len(leaderLog'[T]) /\ leaderLog'[T][c].term = T
  BY <1>0, <1>2 DEF Agree
<1>4. c <= Len(leaderLog'[T])
  BY <1>0, <1>3
<1>5. \A j : Stored(j, T, c) => Stored(j, T, c)'
  BY <1>1, <1>4, Zenon DEF Stored
<1> QED BY <1>3, <1>5, Zenon DEF Chosen

(* Before the first election nobody stored or voted anything.              *)
LEMMA InitVotes == Init => VoteInv
<1> SUFFICES ASSUME Init PROVE VoteInv
  OBVIOUS
<1>1. /\ \A i \in Node : role[i] = Follower
      /\ requestVotes = {} /\ appendReplies = {} /\ ballots = {}
      /\ \A t \in Term : leadersByTerm[t] = {}
  BY Zenon DEF Init
<1>2. Follower # Candidate
  BY DEF Follower, Candidate
<1>3. AckInv
  BY <1>1, Zenon DEF AckInv, AcksBounded, RepliesPast, AcksHeld, Stored
<1> QED BY <1>1, <1>2, <1>3, Zenon
        DEF VoteInv, BallotInv, BallotsGood, WinsGood, CandidateBallot, SelfBallotsUnique,
            SelfBallotTerms, RequestsTrue, BallotsUpToDate, BallotLogs

(* Every step keeps the invariant.                                         *)
LEMMA NextVotes ==
    Known /\ Known' /\ ElectionInv /\ ElectionInv' /\ VoteInv /\ [Next]_vars => VoteInv'
<1> SUFFICES ASSUME Known, Known', ElectionInv, ElectionInv', VoteInv, [Next]_vars PROVE VoteInv'
  OBVIOUS
<1>1. CASE UNCHANGED vars
  <2>1. UNCHANGED <<currentTerm, log, role, requestVotes, appendReplies, ballots,
                    leadersByTerm, leaderLog>>
    BY <1>1, Zenon DEF vars, persistent, roleVars, network, observers
  <2>2. \A j, T, c : Stored(j, T, c)' <=> Stored(j, T, c)
    BY <2>1, Zenon DEF Stored
  <2>3. \A T, c, U : Survives(T, c, U)' <=> Survives(T, c, U)
    BY <2>1, Zenon DEF Survives
  <2>4. \A b : Good(b)' <=> Good(b)
    BY <2>1, <2>2, <2>3, Zenon DEF Good
  <2>5. AckInv'
    BY <2>1, <2>2, <2>3, Zenon DEF VoteInv, AckInv, AcksBounded, RepliesPast, AcksHeld
  <2>6. BallotInv'
    BY <2>1, Zenon DEF VoteInv, BallotInv, CandidateBallot, SelfBallotsUnique, SelfBallotTerms,
                       RequestsTrue, BallotsUpToDate, BallotLogs
  <2>7. \A v, w, U : GoodVote(v, w, U)' <=> GoodVote(v, w, U)
    BY <2>1, <2>4, Zenon DEF GoodVote
  <2>8. BallotsGood'
    BY <2>1, <2>4, Zenon DEF VoteInv, BallotsGood
  <2>9. WinsGood'
    BY <2>1, <2>7, Zenon DEF VoteInv, WinsGood
  <2> QED BY <2>5, <2>6, <2>8, <2>9 DEF VoteInv
<1>2. CASE Next
  <2>1. PICK i \in Node : Tick(i) \/ Propose(i) \/ PumpApply(i) \/ Handle(i) \/ Crash(i)
    BY <1>2, Zenon DEF Next
  <2>2. TypeInv /\ AckInv /\ BallotInv /\ BallotsGood /\ WinsGood
        /\ BallotsHonoured /\ WinsHaveMajority'
    BY Zenon DEF Known, VoteInv, ElectionInv
  <2>3. Step(i)
    BY <2>1, <2>2, ActionsMove, ActionsAck, ActionsCast, Zenon DEF Step
  <2>4. AckInv'
    BY <2>2, <2>3, AcksKept, Zenon
  <2>5. BallotInv'
    BY <2>2, <2>3, BallotsKept, Zenon
  <2>6. BallotsGood' /\ WinsGood'
    BY <2>2, <2>3, GoodKept, Zenon
  <2> QED BY <2>4, <2>5, <2>6 DEF VoteInv
<1> QED BY <1>1, <1>2

-----------------------------------------------------------------------------
(* What a step does to the commit index of node i, to what the node handed *)
(* on, and to the record: nothing more than hand on, start again, or raise *)
(* the index, as a leader or after a request.                              *)
Hands(i) ==
    \/ applied' = applied
    \/ \E a : /\ applied' = [applied EXCEPT ![i] = a]
              /\ \/ a = applied[i]
                 \/ \E n : /\ n \in Len(applied[i])..commitIndex'[i] \/ n = commitIndex'[i]
                           /\ a = applied[i] \o SubSeq(log'[i], Len(applied[i]) + 1, n)

Keeps(i) == commitIndex'[i] = commitIndex[i] /\ committed' = committed /\ Hands(i)

Restarts(i) ==
    /\ commitIndex'[i] = 0 /\ committed' = committed
    /\ applied' = [applied EXCEPT ![i] = <<>>]

LeaderRaises(i) ==
    /\ role[i] = Leader /\ role'[i] = Leader /\ currentTerm'[i] = currentTerm[i]
    /\ commitIndex'[i] \in Committable(i, log'[i], matchIndex'[i])

FollowerRaises(i, m) ==
    /\ Merges(i, m, Len(m.entries)) /\ m.leaderCommit > commitIndex[i]
    /\ commitIndex'[i] = Min({m.leaderCommit, ConfirmedThrough(m)})

Raises(i) ==
    /\ LeaderRaises(i) \/ \E m : FollowerRaises(i, m)
    /\ committed' = IF commitIndex'[i] > Len(committed)
                    THEN ObserveCommit(log'[i], commitIndex'[i], currentTerm'[i]) ELSE committed
    /\ Hands(i)

CommitMove(i) ==
    /\ \A j \in Node : j # i => commitIndex'[j] = commitIndex[j]
    /\ Keeps(i) \/ Restarts(i) \/ Raises(i)

(* A win is flagged as observeElectionWin does.                            *)
FlagMove(i) ==
    \/ flaggedWins' = flaggedWins
    \/ /\ Wins(i) /\ committed' = committed
       /\ flaggedWins' = ObserveElectionWin(i, currentTerm'[i])

(* A leader commits as advanceCommit does, or nothing it counts changed.   *)
CountMove(i) ==
    role'[i] = Leader =>
        \/ Wins(i)
        \/ /\ role[i] = Leader /\ currentTerm'[i] = currentTerm[i]
           /\ \/ commitIndex'[i] = AdvanceCommit(i, log'[i], matchIndex'[i])
              \/ /\ log'[i] = log[i] /\ matchIndex'[i] = matchIndex[i]
                 /\ commitIndex'[i] = commitIndex[i]

(* The conjuncts of Commit, for the node's new log and term.               *)
LEMMA CommitParts ==
    ASSUME TypeInv, NEW i \in Node, NEW lg, NEW c, NEW t,
           Commit(i, lg, c, t), log'[i] = lg, currentTerm'[i] = t
    PROVE  /\ commitIndex'[i] = c
           /\ \A j \in Node : j # i => commitIndex'[j] = commitIndex[j]
           /\ Hands(i)
           /\ committed' = IF c > Len(committed) THEN ObserveCommit(log'[i], c, currentTerm'[i])
                           ELSE committed
           /\ c = commitIndex[i] => committed' = committed
<1>0. /\ commitIndex \in [Node -> Nat] /\ commitIndex[i] <= Len(committed)
      /\ commitIndex[i] \in Nat /\ Len(committed) \in Nat
  BY LenProperties DEF TypeInv, StateTypeOK, ObserverTypeOK, CommitRecorded
<1>1. /\ commitIndex' = [commitIndex EXCEPT ![i] = c]
      /\ committed' = IF c > Len(committed) THEN ObserveCommit(lg, c, t) ELSE committed
  BY Zenon DEF Commit
<1>2. PICK a : /\ a \in IF c = commitIndex[i] THEN {applied[i]} ELSE ApplyCommitted(i, lg, c)
               /\ applied' = [applied EXCEPT ![i] = a]
  BY Zenon DEF Commit
<1>3. commitIndex'[i] = c /\ \A j \in Node : j # i => commitIndex'[j] = commitIndex[j]
  BY <1>0, <1>1
<1>4. a = applied[i] \/ \E n : /\ n \in Len(applied[i])..c \/ n = c
                               /\ a = applied[i] \o SubSeq(lg, Len(applied[i]) + 1, n)
  <2>1. CASE c = commitIndex[i]
    BY <1>2, <2>1
  <2>2. CASE c # commitIndex[i]
    <3>1. a \in ApplyCommitted(i, lg, c)
      BY <1>2, <2>2
    <3>2. PICK n : /\ n \in IF ApplySink THEN Len(applied[i])..c ELSE {c}
                   /\ a = applied[i] \o SubSeq(lg, Len(applied[i]) + 1, n)
      BY <3>1, Zenon DEF ApplyCommitted
    <3>3. n \in Len(applied[i])..c \/ n = c
      BY <3>2
    <3> QED BY <3>2, <3>3, Zenon
  <2> QED BY <2>1, <2>2
<1>5. Hands(i)
  BY <1>2, <1>3, <1>4, Zenon DEF Hands
<1>6. c = commitIndex[i] => ~ (c > Len(committed))
  BY <1>0
<1> QED BY <1>1, <1>3, <1>5, <1>6, Zenon

(* Every action commits this way.                                          *)
LEMMA ActionsCommit ==
    ASSUME TypeInv, NEW i \in Node,
           Tick(i) \/ Propose(i) \/ PumpApply(i) \/ Handle(i) \/ Crash(i)
    PROVE  CommitMove(i)
<1>0. /\ StateTypeOK /\ NetworkTypeOK /\ currentTerm[i] \in Nat /\ log[i] \in Seq(Entry)
      /\ commitIndex[i] \in Nat /\ matchIndex[i] \in [Node -> Nat]
  BY NodeTypes, TermsAreNat DEF TypeInv
<1>1. CASE UNCHANGED <<commitIndex, applied, committed>>
  BY <1>1, Zenon DEF CommitMove, Keeps, Hands
<1>2. CASE Tick(i)
  BY <1>1, <1>2, Zenon DEF Tick, StartElection, SendHeartbeats, commitVars, observers
<1>3. CASE PumpApply(i)
  <2>1. PICK a \in ApplyCommitted(i, log[i], commitIndex[i]) : applied' = [applied EXCEPT ![i] = a]
    BY <1>3, Zenon DEF PumpApply
  <2>2. commitIndex' = commitIndex /\ log' = log /\ committed' = committed
    BY <1>3, Zenon DEF PumpApply, persistent, observers
  <2>3. PICK n : /\ n \in IF ApplySink THEN Len(applied[i])..commitIndex[i] ELSE {commitIndex[i]}
                 /\ a = applied[i] \o SubSeq(log[i], Len(applied[i]) + 1, n)
    BY <2>1, Zenon DEF ApplyCommitted
  <2>4. n \in Len(applied[i])..commitIndex[i] \/ n = commitIndex[i]
    BY <2>3
  <2> QED BY <2>1, <2>2, <2>3, <2>4, Zenon DEF CommitMove, Keeps, Hands
<1>4. CASE Crash(i)
  <2>1. /\ commitIndex' = [commitIndex EXCEPT ![i] = 0] /\ applied' = [applied EXCEPT ![i] = <<>>]
        /\ committed' = committed
    BY <1>4, Zenon
       DEF Crash, Restart, CrashAfterTermRule, CrashDuringAppend, CrashDuringPropose, ResetVolatile,
           observers
  <2>2. commitIndex'[i] = 0 /\ \A j \in Node : j # i => commitIndex'[j] = commitIndex[j]
    BY <1>0, <2>1 DEF StateTypeOK
  <2> QED BY <2>1, <2>2, Zenon DEF CommitMove, Restarts
<1>5. ASSUME NEW lg \in Seq(Entry), NEW match, NEW c, c = AdvanceCommit(i, lg, match),
             Commit(i, lg, c, currentTerm[i]), log'[i] = lg, matchIndex'[i] = match,
             role[i] = Leader, UNCHANGED <<role, currentTerm>>
      PROVE  CommitMove(i)
  <2>1. c = commitIndex[i] \/ c \in Committable(i, lg, match)
    BY <1>0, <1>5, AdvanceCommitProperties
  <2>2. currentTerm'[i] = currentTerm[i] /\ role'[i] = Leader
    BY <1>5
  <2>3. /\ commitIndex'[i] = c
        /\ \A j \in Node : j # i => commitIndex'[j] = commitIndex[j]
        /\ Hands(i)
        /\ committed' = IF c > Len(committed) THEN ObserveCommit(log'[i], c, currentTerm'[i])
                        ELSE committed
        /\ c = commitIndex[i] => committed' = committed
    BY <1>5, <2>2, CommitParts, Zenon
  <2> QED BY <1>5, <2>1, <2>2, <2>3, Zenon DEF CommitMove, Keeps, Raises, LeaderRaises
<1>6. ASSUME NEW cmds \in Batch, ProposeBatch(i, cmds) PROVE CommitMove(i)
  <2> DEFINE more == [k \in 1..Len(cmds) |-> [term |-> currentTerm[i], cmd |-> cmds[k]]]
             lg == log[i] \o more
             c  == AdvanceCommit(i, lg, matchIndex[i])
  <2>0. Len(cmds) \in 0..Len(cmds) /\ DOMAIN cmds = 1..Len(cmds)
    <3>1. PICK s \in Nat : cmds \in [1..s -> Command]
      BY BoundAssumption DEF Batch
    <3>2. Len(cmds) = s /\ DOMAIN cmds = 1..s
      BY <3>1, FunctionIsSeq
    <3> QED BY <3>1, <3>2
  <2>1. lg \in Seq(Entry)
    <3>1. currentTerm[i] \in Term
      BY NodeTypes
    <3>2. more \in Seq(Entry)
      BY <2>0, <3>1, BatchEntries
    <3> HIDE DEF more
    <3> QED BY <1>0, <3>2, Appended
  <2>2. /\ role[i] = Leader /\ UNCHANGED <<currentTerm, role, matchIndex>>
        /\ log' = [log EXCEPT ![i] = lg] /\ Commit(i, lg, c, currentTerm[i])
    BY <1>6, <2>0, Zenon DEF ProposeBatch, roleVars, leaderVars
  <2> HIDE DEF lg
  <2>3. log'[i] = lg /\ matchIndex'[i] = matchIndex[i]
    BY <1>0, <2>2, Zenon DEF StateTypeOK
  <2> QED BY <1>5, <2>1, <2>2, <2>3, Zenon
<1>7. ASSUME NEW m \in appendReplies, OnAppendAck(i, m) PROVE CommitMove(i)
  <2> DEFINE match == [matchIndex[i] EXCEPT ![m.from] = m.conflictIndex]
             c     == AdvanceCommit(i, log[i], match)
  <2>1. /\ role[i] = Leader /\ UNCHANGED <<currentTerm, role, log>>
        /\ matchIndex' = [matchIndex EXCEPT ![i] = match] /\ Commit(i, log[i], c, currentTerm[i])
    BY <1>7, Zenon DEF OnAppendAck, roleVars, persistent
  <2> HIDE DEF match
  <2>2. matchIndex'[i] = match /\ log'[i] = log[i]
    BY <1>0, <2>1, Zenon DEF StateTypeOK
  <2> QED BY <1>0, <1>5, <2>1, <2>2, Zenon
<1>8. ASSUME NEW m \in appends, OnAppendEntries(i, m) PROVE CommitMove(i)
  <2> DEFINE t  == TermAfter(i, m.term)
             ok == PassesConsistencyCheck(i, m)
             lg == IF ok THEN MergedLog(log[i], m, Len(m.entries)) ELSE log[i]
             c  == IF ok /\ m.leaderCommit > commitIndex[i]
                   THEN Min({m.leaderCommit, ConfirmedThrough(m)}) ELSE commitIndex[i]
  <2>0. m.term \in Term
    BY <1>0, Zenon DEF NetworkTypeOK, AppendEntries
  <2>1. /\ m.to = i /\ m.term >= currentTerm[i]
        /\ currentTerm' = [currentTerm EXCEPT ![i] = t]
        /\ role' = [role EXCEPT ![i] = Follower]
        /\ log' = [log EXCEPT ![i] = lg]
        /\ Commit(i, lg, c, t)
        /\ UNCHANGED <<leaderLog, leadersByTerm>>
    BY <1>8, Zenon DEF OnAppendEntries
  <2>2. (ok /\ m.leaderCommit > commitIndex[i]) \/ c = commitIndex[i]
    OBVIOUS
  <2>3. ok => lg = MergedLog(log[i], m, Len(m.entries))
    OBVIOUS
  <2>3a. ok /\ m.leaderCommit > commitIndex[i] => c = Min({m.leaderCommit, ConfirmedThrough(m)})
    OBVIOUS
  <2>4. t = m.term
    BY <2>0, <2>1, TermRuleMove
  <2> HIDE DEF t, lg, c
  <2>5. currentTerm'[i] = t /\ log'[i] = lg /\ role'[i] = Follower
    BY <1>0, <2>1, Zenon DEF StateTypeOK
  <2>6. /\ commitIndex'[i] = c
        /\ \A j \in Node : j # i => commitIndex'[j] = commitIndex[j]
        /\ Hands(i)
        /\ committed' = IF c > Len(committed) THEN ObserveCommit(log'[i], c, currentTerm'[i])
                        ELSE committed
        /\ c = commitIndex[i] => committed' = committed
    BY <2>1, <2>5, CommitParts, Zenon
  <2>7. CASE c = commitIndex[i]
    BY <2>6, <2>7, Zenon DEF CommitMove, Keeps
  <2>8. CASE ok /\ m.leaderCommit > commitIndex[i]
    <3>1. Merges(i, m, Len(m.entries))
      BY <2>1, <2>3, <2>4, <2>5, <2>8, AllEntries, Zenon DEF Merges
    <3> QED BY <2>3a, <2>6, <2>8, <3>1, Zenon DEF CommitMove, Raises, FollowerRaises
  <2> QED BY <2>2, <2>7, <2>8
<1>9. ASSUME NEW m, OnRequestVote(i, m) \/ OnRequestVoteReply(i, m) \/ OnStaleAppendEntries(i, m)
                    \/ OnStaleAppendReply(i, m) \/ OnAppendReject(i, m)
      PROVE  CommitMove(i)
  <2>1. UNCHANGED <<commitIndex, applied, committed>>
    BY <1>9, Zenon DEF OnRequestVote, OnRequestVoteReply, OnStaleAppendEntries, OnStaleAppendReply,
                       OnAppendReject, commitVars, observers
  <2> QED BY <1>1, <2>1
<1> QED BY <1>2, <1>3, <1>4, <1>6, <1>7, <1>8, <1>9, Zenon DEF Propose, Handle

(* Every action flags and counts this way.                                 *)
LEMMA ActionsCount ==
    ASSUME TypeInv, NEW i \in Node,
           Tick(i) \/ Propose(i) \/ PumpApply(i) \/ Handle(i) \/ Crash(i)
    PROVE  FlagMove(i) /\ CountMove(i)
<1>0. /\ StateTypeOK /\ NetworkTypeOK /\ currentTerm[i] \in Nat
      /\ Follower # Leader /\ Candidate # Leader
  BY NodeTypes, TermsAreNat DEF TypeInv, Follower, Candidate, Leader
<1>1. ASSUME NEW t \in Term, BecomeLeader(i, t), currentTerm' = [currentTerm EXCEPT ![i] = t],
             log' = log, committed' = committed, role[i] # Leader,
             t > currentTerm[i] \/ (t = currentTerm[i] /\ role[i] = Candidate)
      PROVE  FlagMove(i) /\ CountMove(i)
  <2>1. /\ leadersByTerm' = [leadersByTerm EXCEPT ![t] = @ \cup {i}]
        /\ leaderLog' = [leaderLog EXCEPT ![t] = log[i]]
        /\ role' = [role EXCEPT ![i] = Leader]
        /\ flaggedWins' = ObserveElectionWin(i, t)
    BY <1>1, Zenon DEF BecomeLeader
  <2>2. currentTerm'[i] = t /\ role'[i] = Leader
    BY <1>0, <1>1, <2>1, Zenon DEF StateTypeOK
  <2>3. Wins(i)
    BY <1>1, <2>1, <2>2, Zenon DEF Wins
  <2> QED BY <1>1, <2>1, <2>2, <2>3, Zenon DEF FlagMove, CountMove
<1>2. ASSUME flaggedWins' = flaggedWins, role'[i] # Leader PROVE FlagMove(i) /\ CountMove(i)
  BY <1>2, Zenon DEF FlagMove, CountMove
<1>3. ASSUME flaggedWins' = flaggedWins, role[i] = Leader, currentTerm'[i] = currentTerm[i],
             \/ commitIndex'[i] = AdvanceCommit(i, log'[i], matchIndex'[i])
             \/ /\ log'[i] = log[i] /\ matchIndex'[i] = matchIndex[i]
                /\ commitIndex'[i] = commitIndex[i]
      PROVE  FlagMove(i) /\ CountMove(i)
  BY <1>3, Zenon DEF FlagMove, CountMove
<1>4. ASSUME flaggedWins' = flaggedWins, UNCHANGED <<log, matchIndex, commitIndex, leadersByTerm, leaderLog>>,
             role'[i] = Leader => role[i] = Leader /\ currentTerm'[i] = currentTerm[i]
      PROVE  FlagMove(i) /\ CountMove(i)
  BY <1>4, Zenon DEF FlagMove, CountMove
<1>5. CASE StartElection(i)
  <2> DEFINE t == currentTerm[i] + 1
  <2>1. t \in Term /\ t > currentTerm[i]
    BY <1>5, ElectionTerm, Zenon
  <2>2. /\ currentTerm' = [currentTerm EXCEPT ![i] = t] /\ log' = log /\ role[i] # Leader
        /\ committed' = committed
        /\ BecomeLeader(i, t) \/ (role' = [role EXCEPT ![i] = Candidate] /\ flaggedWins' = flaggedWins)
    BY <1>5, Zenon DEF StartElection
  <2>3. role' = [role EXCEPT ![i] = Candidate] => role'[i] # Leader
    BY <1>0, Zenon DEF StateTypeOK
  <2> HIDE DEF t
  <2> QED BY <1>1, <1>2, <2>1, <2>2, <2>3, Zenon
<1>6. CASE SendHeartbeats(i) \/ PumpApply(i)
  <2>1. UNCHANGED <<flaggedWins, role, currentTerm, log, matchIndex, commitIndex, leadersByTerm, leaderLog>>
    BY <1>6, Zenon
       DEF SendHeartbeats, PumpApply, persistent, roleVars, leaderVars, commitVars, observers
  <2> QED BY <1>4, <2>1, Zenon
<1>7. ASSUME NEW cmds \in Batch, ProposeBatch(i, cmds) PROVE FlagMove(i) /\ CountMove(i)
  <2> DEFINE lg == log[i] \o [k \in DOMAIN cmds |-> [term |-> currentTerm[i], cmd |-> cmds[k]]]
             c  == AdvanceCommit(i, lg, matchIndex[i])
  <2>1. /\ role[i] = Leader /\ UNCHANGED <<currentTerm, role, matchIndex, flaggedWins>>
        /\ log' = [log EXCEPT ![i] = lg] /\ commitIndex' = [commitIndex EXCEPT ![i] = c]
    BY <1>7, Zenon DEF ProposeBatch, roleVars, leaderVars, Commit
  <2>2. c = AdvanceCommit(i, lg, matchIndex[i])
    OBVIOUS
  <2> HIDE DEF lg, c
  <2>3. log'[i] = lg /\ matchIndex'[i] = matchIndex[i] /\ commitIndex'[i] = c
    BY <1>0, <2>1, Zenon DEF StateTypeOK
  <2>4. commitIndex'[i] = AdvanceCommit(i, log'[i], matchIndex'[i])
    BY <2>2, <2>3, Zenon
  <2> QED BY <1>3, <2>1, <2>4, Zenon
<1>8. ASSUME NEW m \in appendReplies, OnAppendAck(i, m) PROVE FlagMove(i) /\ CountMove(i)
  <2> DEFINE match == [matchIndex[i] EXCEPT ![m.from] = m.conflictIndex]
             c     == AdvanceCommit(i, log[i], match)
  <2>1. /\ role[i] = Leader /\ UNCHANGED <<currentTerm, role, log, flaggedWins>>
        /\ matchIndex' = [matchIndex EXCEPT ![i] = match]
        /\ commitIndex' = [commitIndex EXCEPT ![i] = c]
    BY <1>8, Zenon DEF OnAppendAck, roleVars, persistent, Commit
  <2>2. c = AdvanceCommit(i, log[i], match)
    OBVIOUS
  <2> HIDE DEF match, c
  <2>3. matchIndex'[i] = match /\ log'[i] = log[i] /\ commitIndex'[i] = c
    BY <1>0, <2>1, Zenon DEF StateTypeOK
  <2>4. commitIndex'[i] = AdvanceCommit(i, log'[i], matchIndex'[i])
    BY <2>2, <2>3, Zenon
  <2> QED BY <1>3, <2>1, <2>4, Zenon
<1>9. ASSUME NEW m \in requestVotes, OnRequestVote(i, m) PROVE FlagMove(i) /\ CountMove(i)
  <2>0. m.term \in Term
    BY <1>0, Zenon DEF NetworkTypeOK, RequestVote
  <2>1. /\ currentTerm' = [currentTerm EXCEPT ![i] = TermAfter(i, m.term)]
        /\ role' = [role EXCEPT ![i] = RoleAfter(i, m.term)]
        /\ UNCHANGED <<flaggedWins, log, matchIndex, commitIndex, leadersByTerm, leaderLog>>
    BY <1>9, Zenon DEF OnRequestVote, leaderVars, commitVars
  <2>2. currentTerm'[i] = TermAfter(i, m.term) /\ role'[i] = RoleAfter(i, m.term)
    BY <1>0, <2>1, Zenon DEF StateTypeOK
  <2>3. role'[i] = Leader => role[i] = Leader /\ currentTerm'[i] = currentTerm[i]
    BY <2>0, <2>2, TermRuleMove
  <2> QED BY <1>4, <2>1, <2>3, Zenon
<1>10. ASSUME NEW m \in voteReplies, OnRequestVoteReply(i, m) PROVE FlagMove(i) /\ CountMove(i)
  <2>0. m.term \in Term /\ TermAfter(i, m.term) \in Term
    <3>1. m.term \in Term
      BY <1>0, Zenon DEF NetworkTypeOK, RequestVoteReply
    <3> QED BY <3>1, TermRuleType
  <2>1. /\ currentTerm' = [currentTerm EXCEPT ![i] = TermAfter(i, m.term)]
        /\ log' = log /\ committed' = committed
        /\ \/ role[i] = Candidate /\ m.term = currentTerm[i] /\ BecomeLeader(i, TermAfter(i, m.term))
           \/ /\ role' = [role EXCEPT ![i] = RoleAfter(i, m.term)]
              /\ UNCHANGED <<flaggedWins, matchIndex, commitIndex, leadersByTerm, leaderLog>>
    BY <1>10, Zenon DEF OnRequestVoteReply, leaderVars, commitVars
  <2>2. CASE role[i] = Candidate /\ m.term = currentTerm[i] /\ BecomeLeader(i, TermAfter(i, m.term))
    <3>1. TermAfter(i, m.term) = currentTerm[i]
      BY <1>0, <2>2 DEF TermAfter, NewTerm
    <3> QED BY <1>0, <1>1, <2>0, <2>1, <2>2, <3>1, Zenon
  <2>3. CASE /\ role' = [role EXCEPT ![i] = RoleAfter(i, m.term)]
             /\ UNCHANGED <<flaggedWins, matchIndex, commitIndex, leadersByTerm, leaderLog>>
    <3>1. currentTerm'[i] = TermAfter(i, m.term) /\ role'[i] = RoleAfter(i, m.term)
      BY <1>0, <2>1, <2>3, Zenon DEF StateTypeOK
    <3>2. role'[i] = Leader => role[i] = Leader /\ currentTerm'[i] = currentTerm[i]
      BY <2>0, <3>1, TermRuleMove
    <3> QED BY <1>4, <2>1, <2>3, <3>2, Zenon
  <2> QED BY <2>1, <2>2, <2>3
<1>11. ASSUME NEW m, OnStaleAppendEntries(i, m) \/ OnAppendReject(i, m)
       PROVE  FlagMove(i) /\ CountMove(i)
  <2>1. UNCHANGED <<flaggedWins, role, currentTerm, log, matchIndex, commitIndex, leadersByTerm, leaderLog>>
    BY <1>11, Zenon DEF OnStaleAppendEntries, OnAppendReject, persistent, roleVars, leaderVars,
                        commitVars, observers
  <2> QED BY <1>4, <2>1, Zenon
<1>12. ASSUME role' = [role EXCEPT ![i] = Follower], flaggedWins' = flaggedWins
       PROVE  FlagMove(i) /\ CountMove(i)
  <2>1. role'[i] # Leader
    BY <1>0, <1>12, Zenon DEF StateTypeOK
  <2> QED BY <1>2, <1>12, <2>1, Zenon
<1>13. ASSUME NEW m, OnAppendEntries(i, m) \/ OnStaleAppendReply(i, m)
       PROVE  FlagMove(i) /\ CountMove(i)
  BY <1>12, <1>13, Zenon DEF OnAppendEntries, OnStaleAppendReply, observers
<1>14. CASE Crash(i)
  BY <1>12, <1>14, Zenon
     DEF Crash, Restart, CrashAfterTermRule, CrashDuringAppend, CrashDuringPropose, ResetVolatile,
         observers
<1> QED BY <1>5, <1>6, <1>7, <1>8, <1>9, <1>10, <1>11, <1>13, <1>14, Zenon
           DEF Tick, Propose, Handle

(* The first k entries of lg are those of a log in which k or more are     *)
(* chosen, in term t or before.                                            *)
Held(lg, t, k) ==
    \E T \in Term : \E c \in Nat :
        T <= t /\ c >= k /\ Chosen(T, c) /\ Agree(lg, leaderLog[T], k)

(* A commit index, on a node or in a request, covers chosen entries only.  *)
CommitBacked ==
    \A i \in Node : commitIndex[i] > 0 => Held(log[i], currentTerm[i], commitIndex[i])
MessagesBacked ==
    \A m \in appends :
        /\ m.leaderCommit <= ConfirmedThrough(m) /\ m.leaderCommit <= Len(committed)
        /\ m.leaderCommit > 0 => Held(leaderLog[m.term], m.term, m.leaderCommit)

(* The record holds chosen entries, and the term that chose them.          *)
RecordBacked ==
    \A k \in 1..Len(committed) : \E c \in Nat :
        /\ c >= k /\ Chosen(committed[k].at, c)
        /\ leaderLog[committed[k].at][k] = committed[k].entry

(* A match index is the ack of the peer.                                   *)
MatchBacked ==
    \A i \in Node : role[i] = Leader => \A j \in Peers(i) :
        \/ matchIndex[i][j] = 0
        \/ \E m \in appendReplies : /\ m.from = j /\ m.term = currentTerm[i] /\ m.success
                                    /\ m.conflictIndex = matchIndex[i][j]

(* What a node handed on is a prefix of its log up to its commit index.    *)
AppliedFromLog ==
    /\ applied \in [Node -> Seq(Entry)]
    /\ \A i \in Node : /\ Len(applied[i]) <= commitIndex[i]
                       /\ Agree(applied[i], log[i], Len(applied[i]))

(* A step of node i, with all that is known of it.                         *)
CommitStep(i) ==
    /\ Step(i) /\ Sends(i) /\ WindowMove(i) /\ CommitMove(i)
    /\ VoteInv /\ Window'

(* What was chosen stays chosen, for every log that agrees that far.       *)
LEMMA HeldStays ==
    ASSUME NEW i \in Node, Step(i), NEW lg, NEW t \in Nat, NEW k \in Nat, Held(lg, t, k),
           NEW mm, NEW u \in Nat, t <= u, Agree(mm, lg, k)
    PROVE  Held(mm, u, k)'
<1>1. PICK T \in Term, c \in Nat : T <= t /\ c >= k /\ Chosen(T, c) /\ Agree(lg, leaderLog[T], k)
  BY Zenon DEF Held
<1>2. Chosen(T, c)'
  BY <1>1, ChosenStays, Zenon
<1>3. Agree(lg, leaderLog'[T], k)
  BY <1>1, AgreeGrown, Zenon
<1>4. Agree(mm, leaderLog'[T], k)
  BY <1>3, AgreeChain, Zenon
<1>5. T <= u
  BY <1>1, TermsAreNat
<1> QED BY <1>1, <1>2, <1>4, <1>5, Zenon DEF Held

(* A later leader has what was chosen.                                     *)
LEMMA HeldByLeader ==
    ASSUME Known, VoteInv, NEW lg, NEW t \in Nat, NEW k \in Nat, Held(lg, t, k),
           NEW U \in Term, t <= U, leadersByTerm[U] # {}
    PROVE  Agree(lg, leaderLog[U], k)
<1>1. PICK T \in Term, c \in Nat : T <= t /\ c >= k /\ Chosen(T, c) /\ Agree(lg, leaderLog[T], k)
  BY Zenon DEF Held
<1>2. T \in Nat /\ U \in Nat /\ (T = U \/ T < U)
  BY <1>1, TermsAreNat
<1>3. CASE T = U
  BY <1>1, <1>3, Zenon
<1>4. CASE T < U
  <2>1. Agree(leaderLog[U], leaderLog[T], c)
    BY <1>1, <1>4, ChosenSurvives
  <2>2. leaderLog[T] \in Seq(Entry) /\ leaderLog[U] \in Seq(Entry)
    BY DEF Known, TypeInv, ObserverTypeOK
  <2>3. Agree(leaderLog[T], leaderLog[U], k)
    BY <1>1, <2>1, <2>2, AgreeShorter, AgreeFlip
  <2> QED BY <1>1, <2>3, AgreeChain, Zenon
<1> QED BY <1>2, <1>3, <1>4

(* The commit index lies within the log.                                   *)
LEMMA CommitInLog ==
    ASSUME TypeInv, CommitBacked, NEW i \in Node
    PROVE  commitIndex[i] \in Nat /\ Len(log[i]) \in Nat /\ commitIndex[i] <= Len(log[i])
<1>1. commitIndex[i] \in Nat /\ Len(log[i]) \in Nat
  BY NodeTypes
<1>2. CASE commitIndex[i] > 0
  <2>1. Held(log[i], currentTerm[i], commitIndex[i])
    BY <1>2, Zenon DEF CommitBacked
  <2> QED BY <1>1, <2>1, Zenon DEF Held, Agree
<1> QED BY <1>1, <1>2

(* No step touches a log at or below the commit index.                     *)
LEMMA PrefixKept ==
    ASSUME NEW i \in Node, Step(i), VoteInv, CommitBacked, NEW j \in Node
    PROVE  Agree(log'[j], log[j], commitIndex[j])
<1>0. /\ TypeInv /\ LogInv /\ Known /\ LogMove(i) /\ Own(i) /\ log[j] \in Seq(Entry)
      /\ log \in [Node -> Seq(Entry)]
  BY StepTypes, Zenon DEF Step
<1>1. commitIndex[j] \in Nat /\ commitIndex[j] <= Len(log[j])
  BY <1>0, CommitInLog
<1>2. CASE log'[j] = log[j]
  BY <1>0, <1>1, <1>2, AgreeSelf
<1>3. ASSUME j = i, NEW more, Extends(i, more) PROVE Agree(log'[j], log[j], commitIndex[j])
  <2>1. more \in Seq(Entry) /\ log'[j] = log[j] \o more
    BY <1>0, <1>3, Zenon DEF Extends
  <2>2. Agree(log[j] \o more, log[j], Len(log[j])) /\ log[j] \o more \in Seq(Entry)
    BY <1>0, <2>1, Appended
  <2>3. Len(log[j]) \in Nat
    BY <1>0, LenProperties
  <2> QED BY <1>0, <1>1, <2>1, <2>2, <2>3, AgreeShorter, Zenon
<1>4. ASSUME j = i, NEW m, NEW n, Merges(i, m, n) PROVE Agree(log'[j], log[j], commitIndex[j])
  <2>1. /\ m.term \in Term /\ leaderLog[m.term] \in Seq(Entry) /\ log'[j] \in Seq(Entry)
        /\ \A c \in Nat : Agree(log[j], leaderLog[m.term], c) => Agree(log'[j], leaderLog[m.term], c)
    BY <1>0, <1>4, MergeResult
  <2>2. m \in appends /\ m.term >= currentTerm[j]
    BY <1>4, Zenon DEF Merges
  <2>3. leadersByTerm[m.term] # {}
    BY <1>0, <2>2, Zenon DEF Known, LeadersInv, SendersWon
  <2>4. currentTerm[j] \in Nat /\ currentTerm[j] <= m.term
    BY <2>1, <2>2, TermsRise, TermsAreNat
  <2>5. CASE commitIndex[j] > 0
    <3>1. Held(log[j], currentTerm[j], commitIndex[j])
      BY <2>5, Zenon DEF CommitBacked
    <3>2. Agree(log[j], leaderLog[m.term], commitIndex[j])
      BY <1>0, <1>1, <2>1, <2>3, <2>4, <3>1, HeldByLeader, Zenon
    <3>3. Agree(log'[j], leaderLog[m.term], commitIndex[j])
      BY <1>1, <2>1, <3>2, Zenon
    <3> QED BY <3>2, <3>3, AgreeFlip, AgreeChain, Zenon
  <2>6. CASE commitIndex[j] = 0
    <3>1. Len(log[j]) \in Nat /\ Len(log'[j]) \in Nat
      BY <1>0, <2>1, LenProperties
    <3> QED BY <2>6, <3>1 DEF Agree
  <2> QED BY <1>1, <2>5, <2>6
<1>5. j # i \/ log' = log \/ (\E more : Extends(i, more)) \/ (\E m, n : Merges(i, m, n))
  BY <1>0, Zenon DEF LogMove, Still, Wins
<1>6. j # i => log'[j] = log[j]
  BY <1>0, Zenon DEF Own
<1> QED BY <1>2, <1>3, <1>4, <1>5, <1>6, Zenon

(* Match indices stay acks.                                                *)
LEMMA MatchKept ==
    ASSUME NEW i \in Node, CommitStep(i), MatchBacked
    PROVE  MatchBacked'
<1>0. /\ TypeInv /\ LogMove(i) /\ Own(i) /\ WindowMove(i) /\ appendReplies \subseteq appendReplies'
      /\ matchIndex \in [Node -> [Node -> Nat]] /\ Follower # Leader
  BY DEF CommitStep, Step, Known, LogMove, Acks, TypeInv, StateTypeOK, Follower, Leader
<1> SUFFICES ASSUME NEW l \in Node, role'[l] = Leader, NEW j \in Peers(l), matchIndex'[l][j] # 0
             PROVE  \E m \in appendReplies' : /\ m.from = j /\ m.term = currentTerm'[l] /\ m.success
                                              /\ m.conflictIndex = matchIndex'[l][j]
  BY DEF MatchBacked
<1>j. j \in Node
  BY DEF Peers
<1>1. ASSUME role[l] = Leader, matchIndex'[l] = matchIndex[l], currentTerm'[l] = currentTerm[l]
      PROVE  \E m \in appendReplies' : /\ m.from = j /\ m.term = currentTerm'[l] /\ m.success
                                       /\ m.conflictIndex = matchIndex'[l][j]
  <2>1. matchIndex[l][j] # 0
    BY <1>1, Zenon
  <2>2. PICK m \in appendReplies : /\ m.from = j /\ m.term = currentTerm[l] /\ m.success
                                   /\ m.conflictIndex = matchIndex[l][j]
    BY <1>1, <2>1, Zenon DEF MatchBacked
  <2> QED BY <1>0, <1>1, <2>2, Zenon
<1>2. CASE l # i
  BY <1>0, <1>1, <1>2, Zenon DEF Own, WindowMove
<1>3. CASE l = i
  <2>1. role[i] = Leader => currentTerm'[i] = currentTerm[i]
    BY <1>0, <1>3, Zenon DEF LogMove, Still, Wins, Extends, Merges
  <2>2. CASE KeepsWindow(i)
    BY <1>1, <1>3, <2>1, <2>2, Zenon DEF KeepsWindow
  <2>3. CASE OpensWindow(i)
    BY <1>3, <1>j, <2>3, Zenon DEF OpensWindow
  <2>4. ASSUME NEW m, LowersWindow(i, m)
        PROVE  \E x \in appendReplies' : /\ x.from = j /\ x.term = currentTerm'[l] /\ x.success
                                         /\ x.conflictIndex = matchIndex'[l][j]
    BY <1>1, <1>3, <2>1, <2>4, Zenon DEF LowersWindow
  <2>5. ASSUME NEW m, MovesWindow(i, m)
        PROVE  \E x \in appendReplies' : /\ x.from = j /\ x.term = currentTerm'[l] /\ x.success
                                         /\ x.conflictIndex = matchIndex'[l][j]
    <3>1. /\ m \in appendReplies /\ m.term = currentTerm[i] /\ m.success /\ role[i] = Leader
          /\ currentTerm' = currentTerm
          /\ matchIndex'[i] = [matchIndex[i] EXCEPT ![m.from] = m.conflictIndex]
      BY <2>5, Zenon DEF MovesWindow
    <3>2. m.from \in Node /\ matchIndex[i] \in [Node -> Nat]
      BY <1>0, <3>1, Zenon DEF TypeInv, NetworkTypeOK, AppendEntriesReply
    <3>3. CASE j = m.from
      <4>1. matchIndex'[i][j] = m.conflictIndex
        BY <3>1, <3>2, <3>3, Zenon
      <4> QED BY <1>0, <1>3, <3>1, <3>3, <4>1, Zenon
    <3>4. CASE j # m.from
      <4>1. matchIndex'[i][j] = matchIndex[i][j]
        BY <1>j, <3>1, <3>2, <3>4, Zenon
      <4> QED BY <1>0, <1>3, <3>1, <4>1 DEF MatchBacked
    <3> QED BY <3>3, <3>4
  <2> QED BY <1>0, <1>3, <2>2, <2>3, <2>4, <2>5, Zenon DEF WindowMove
<1> QED BY <1>2, <1>3

(* What a leader counts is chosen.                                         *)
LEMMA LeaderChooses ==
    ASSUME NEW i \in Node, CommitStep(i), LeaderRaises(i), MatchBacked'
    PROVE  \E t \in Term : \E c \in Nat :
               /\ t = currentTerm'[i] /\ c = commitIndex'[i] /\ c > commitIndex[i]
               /\ log'[i] = leaderLog'[t] /\ Chosen(t, c)'
<1>1. PICK t, c, lg : t = currentTerm'[i] /\ c = commitIndex'[i] /\ lg = log'[i]
  OBVIOUS
<1>2. /\ TypeInv' /\ LogInv' /\ LeadersInv' /\ t \in Term /\ lg \in Seq(Entry) /\ commitIndex[i] \in Nat
      /\ matchIndex'[i] \in [Node -> Nat] /\ t = currentTerm[i] /\ role'[i] = Leader
  BY <1>1 DEF CommitStep, Step, Known, TypeInv, StateTypeOK, LeaderRaises
<1>3. Len(lg) \in Nat
  BY <1>2, LenProperties
<1>4. /\ c \in commitIndex[i] + 1 .. Len(lg)
      /\ \A q \in c..Len(lg) : lg[q].term = t
      /\ Cardinality({i} \cup {p \in Peers(i) : matchIndex'[i][p] >= c}) >= Majority
  BY <1>1, <1>2, Zenon DEF LeaderRaises, Committable
<1>5. c \in Nat /\ c > commitIndex[i] /\ c \in 1..Len(lg) /\ c \in c..Len(lg) /\ c # 0 /\ c <= Len(lg)
  BY <1>2, <1>3, <1>4
<1>6. lg = leaderLog'[t] /\ i \in leadersByTerm'[t]
  BY <1>1, <1>2, Zenon DEF LogInv, LeaderHoldsLog, LeadersInv, LeadersWon
<1>7. Stored(i, t, c)'
  BY <1>5, <1>6, Zenon DEF Stored
<1>8. ASSUME NEW p \in Peers(i), matchIndex'[i][p] >= c PROVE Stored(p, t, c)'
  <2>1. p \in Node /\ matchIndex'[i][p] \in Nat
    BY <1>2 DEF Peers
  <2>2. matchIndex'[i][p] # 0 /\ c <= matchIndex'[i][p]
    BY <1>5, <1>8, <2>1
  <2>3. PICK m \in appendReplies' : /\ m.from = p /\ m.term = currentTerm'[i] /\ m.success
                                    /\ m.conflictIndex = matchIndex'[i][p]
    BY <1>2, <1>8, <2>2 DEF MatchBacked
  <2> QED BY <1>1, <2>2, <2>3, Zenon DEF Stored
<1> DEFINE Q == {i} \cup {p \in Peers(i) : matchIndex'[i][p] >= c}
<1>9. Q \in SUBSET Node /\ Cardinality(Q) >= Majority
  BY <1>4 DEF Peers
<1>10. \A p \in Q : Stored(p, t, c)'
  BY <1>7, <1>8
<1> HIDE DEF Q
<1>11. c \in 1..Len(leaderLog'[t]) /\ leaderLog'[t][c].term = t
  BY <1>4, <1>5, <1>6
<1>12. Chosen(t, c)'
  BY <1>9, <1>10, <1>11, Zenon DEF Chosen
<1> QED BY <1>1, <1>2, <1>5, <1>6, <1>12, Zenon
=============================================================================
