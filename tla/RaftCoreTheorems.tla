-------------------------- MODULE RaftCoreTheorems --------------------------
(***************************************************************************)
(* The theorems about RaftCore, for every cluster, every bound, every      *)
(* number of crashes and every loss, repetition and order of the messages: *)
(* what the invariants of the parts before amount to along a behaviour,    *)
(* and that the core implements ReplicatedLog.                             *)
(***************************************************************************)
EXTENDS RaftCoreSafety, RaftRefinement, FiniteSetTheorems, WellFoundedInduction

(* The order on the naturals as a set of pairs, pointwise.                 *)
LEMMA LessIsRelated ==
    ASSUME NEW y \in Nat, NEW t \in Nat, y < t
    PROVE  <<y, t>> \in OpToRel(<, Nat)
BY Zenon DEF OpToRel

(* Sets of naturals have least elements, sets of nodes are counted by      *)
(* numbers, and two majorities of a finite cluster share a node.           *)
LEMMA CountingHolds == Counting
<1>1. ASSUME NEW S \in SUBSET Nat, S # {}
      PROVE  \E x \in S : \A y \in S : x <= y
  <2>1. IsWellFoundedOn(OpToRel(<, Nat), Nat)
    BY NatLessThanWellFounded, Zenon
  <2>2. PICK x \in S : \A y \in S : ~ (<<y, x>> \in OpToRel(<, Nat))
    BY <1>1, <2>1, WFMin, Zenon
  <2>3. ASSUME NEW y \in S PROVE x <= y
    <3>1. ~ (<<y, x>> \in OpToRel(<, Nat))
      BY <2>2, Zenon
    <3>2. ~ (y < x)
      BY <3>1, LessIsRelated, Zenon
    <3> QED BY <3>2
  <2> QED BY <2>3
<1>2. IsFiniteSet(Node) /\ Cardinality(Node) \in Nat
  BY NodeAssumption, FS_CardinalityType
<1>3. ASSUME NEW Q \in SUBSET Node, NEW P \in SUBSET Q
      PROVE  /\ Cardinality(P) \in Nat /\ Cardinality(Q) \in Nat /\ Majority \in Nat
             /\ Cardinality(P) <= Cardinality(Q)
  <2>1. IsFiniteSet(Q)
    BY <1>2, FS_Subset
  <2>2. IsFiniteSet(P) /\ Cardinality(P) <= Cardinality(Q)
    BY <2>1, FS_Subset
  <2>3. Cardinality(P) \in Nat /\ Cardinality(Q) \in Nat
    BY <2>1, <2>2, FS_CardinalityType
  <2> QED BY <1>2, <2>2, <2>3 DEF Majority
<1>4. ASSUME NEW P \in SUBSET Node, NEW Q \in SUBSET Node,
             Cardinality(P) >= Majority, Cardinality(Q) >= Majority
      PROVE  \E v \in P : v \in Q
  <2>1. Cardinality(P) \in Nat /\ Cardinality(Q) \in Nat
    BY <1>2, FS_Subset, FS_CardinalityType
  <2>2. Cardinality(P) + Cardinality(Q) > Cardinality(Node)
    BY <1>2, <1>4, <2>1 DEF Majority
  <2>3. P \cap Q # {}
    BY <1>2, <2>2, FS_MajoritiesIntersect
  <2> QED BY <2>3
<1> QED BY <1>1, <1>3, <1>4, Zenon DEF Counting

(* Type correctness of the state, the network and the observers.           *)
THEOREM TypesHold == Spec => []TypeInv
<1>1. Init => TypeInv
  BY CountingHolds, InitType
<1> QED BY <1>1, NextType, PTL DEF Spec

(* The votes a node casts and the wins they lead to, for ever.             *)
THEOREM ElectionInvHolds == Spec => []ElectionInv
BY TypesHold, InitElection, NextElection, PTL DEF Spec

(* Election Safety: at most one node ever wins a term, for every cluster,  *)
(* every number of crashes and every fate of the messages.                 *)
THEOREM ElectionSafetyHolds == Spec => []ElectionSafety
BY TypesHold, ElectionInvHolds, ElectionSafetyFollows, PTL

(* A node never votes for two candidates in one term, crashes and restarts *)
(* included.                                                               *)
THEOREM OneVotePerTermHolds == Spec => []OneVotePerTerm
<1>1. ElectionInv => OneVotePerTerm
  BY DEF ElectionInv
<1> QED BY <1>1, ElectionInvHolds, PTL

(* Only winners lead, send AppendEntries and are named as leaders.         *)
THEOREM LeadersInvHolds == Spec => []LeadersInv
BY TypesHold, InitLeaders, NextLeaders, PTL DEF Spec

(* A leader hint, which is what clients are redirected to, names a node    *)
(* that won the term the hint is held in, for every cluster, every number  *)
(* of crashes and every fate of the messages.                              *)
THEOREM LeaderHintTruthfulHolds == Spec => []LeaderHintTruthful
<1>1. LeadersInv => LeaderHintTruthful
  BY DEF LeadersInv
<1> QED BY <1>1, LeadersInvHolds, PTL

(* The handler of AppendEntries never meets a leader of the same term: the *)
(* violation that onAppendEntries would log is not reached.                *)
THEOREM NoRivalLeaderHolds == Spec => []NoRivalLeader
<1>1. TypeInv /\ ElectionSafety /\ LeadersInv => NoRivalLeader
  <2> SUFFICES ASSUME TypeInv, ElectionSafety, LeadersInv, NEW m \in appends,
                      role[m.to] = Leader, m.term = currentTerm[m.to]
               PROVE  FALSE
    BY DEF NoRivalLeader
  <2>1. m.to \in Node /\ m.term \in Term
    BY Zenon DEF TypeInv, NetworkTypeOK, AppendEntries
  <2>2. m.from \in leadersByTerm[m.term] /\ m.to # m.from
    BY DEF LeadersInv, SendersWon
  <2>3. m.to \in leadersByTerm[m.term]
    BY <2>1 DEF LeadersInv, LeadersWon
  <2> QED BY <2>1, <2>2, <2>3 DEF ElectionSafety
<1> QED BY <1>1, TypesHold, ElectionSafetyHolds, LeadersInvHolds, PTL

(* The logs and the requests of every run, for ever.                       *)
THEOREM LogInvHolds == Spec => [](LogInv /\ Window)
<1>1. Init => LogInv /\ Window
  BY InitLogs
<1>2. TypeInv /\ TypeInv' /\ ElectionSafety /\ ElectionSafety' /\ LeadersInv /\ (LogInv /\ Window)
        /\ [Next]_vars => (LogInv /\ Window)'
  BY NextLogs
<1> QED BY <1>1, <1>2, TypesHold, ElectionSafetyHolds, LeadersInvHolds, PTL DEF Spec

(* Log Matching: two logs with the same term at an index are the same up   *)
(* to it, for every cluster, every number of crashes and every fate of the *)
(* messages.                                                               *)
THEOREM LogMatchingHolds == Spec => []LogMatching
<1>1. TypeInv /\ LogInv => LogMatching
  <2> SUFFICES ASSUME TypeInv, LogInv, NEW i \in Node, NEW j \in Node,
                      NEW k \in 1..Min({Len(log[i]), Len(log[j])}),
                      log[i][k].term = log[j][k].term
               PROVE  \A q \in 1..k : log[i][q] = log[j][q]
    BY DEF LogMatching
  <2>1. log[i] \in Seq(Entry) /\ log[j] \in Seq(Entry) /\ Len(log[i]) \in Nat /\ Len(log[j]) \in Nat
    BY NodeTypes
  <2>2. {Len(log[i]), Len(log[j])} \in SUBSET Nat /\ {Len(log[i]), Len(log[j])} # {}
    BY <2>1
  <2> DEFINE least == Min({Len(log[i]), Len(log[j])})
  <2>3. least \in {Len(log[i]), Len(log[j])} /\ \A y \in {Len(log[i]), Len(log[j])} : least <= y
    BY <2>2, MinProperties, Zenon
  <2>4. k \in 1..least
    OBVIOUS
  <2> HIDE DEF least
  <2>5. k \in 1..Len(log[i]) /\ k \in 1..Len(log[j])
    BY <2>1, <2>3, <2>4
  <2>6. FromLeaders(log[i], leaderLog) /\ FromLeaders(log[j], leaderLog)
    BY Zenon DEF LogInv, LogsFromLeaders
  <2>7. Agree(log[i], log[j], k)
    BY <2>1, <2>5, <2>6, SameTermAgree, Zenon
  <2> QED BY <2>7 DEF Agree
<1> QED BY <1>1, TypesHold, LogInvHolds, PTL

(* The types, Election Safety, the leaders and the logs, for ever.         *)
THEOREM KnownHolds == Spec => []Known
<1>1. TypeInv /\ ElectionSafety /\ LeadersInv /\ (LogInv /\ Window) => Known
  BY DEF Known
<1> QED BY <1>1, TypesHold, ElectionSafetyHolds, LeadersInvHolds, LogInvHolds, PTL

(* What acknowledgements and ballots imply, for ever.                      *)
THEOREM VoteInvHolds == Spec => []VoteInv
<1>1. Init => VoteInv
  BY InitVotes
<1>2. Known /\ Known' /\ ElectionInv /\ ElectionInv' /\ VoteInv /\ [Next]_vars => VoteInv'
  BY NextVotes
<1> QED BY <1>1, <1>2, KnownHolds, ElectionInvHolds, PTL DEF Spec

(* The inductive invariant, for ever.                                      *)
THEOREM SafeHolds == Spec => []Safe
<1>1. Init => CommitInv
  BY InitCommits
<1>2. Known /\ Known' /\ (LogInv /\ Window)' /\ VoteInv /\ CommitInv /\ [Next]_vars => CommitInv'
  BY NextCommits
<1>3. Known /\ (LogInv /\ Window) /\ VoteInv /\ CommitInv => Safe
  BY DEF Safe
<1> QED BY <1>1, <1>2, <1>3, KnownHolds, LogInvHolds, VoteInvHolds, PTL DEF Spec

(* Type correctness, the applied entries included.                         *)
THEOREM TypeOKHolds == Spec => []TypeOK
<1>1. Safe => TypeOK
  BY Zenon DEF Safe, Known, TypeInv, CommitInv, AppliedFromLog, TypeOK
<1> QED BY <1>1, SafeHolds, PTL

(* Leader Completeness: whoever becomeLeader makes a leader holds every    *)
(* entry committed in its own or an earlier term.                          *)
THEOREM LeaderCompletenessHolds == Spec => []LeaderCompleteness
BY LeaderCompletenessFollows, SafeHolds, PTL

(* No lost commit: what CommitChecker::observeCommit compares never        *)
(* differs.                                                                *)
THEOREM NoLostCommitHolds == Spec => []NoLostCommit
BY NoLostCommitFollows, SafeHolds, PTL

(* A committed entry is on the stable storage of a majority at every       *)
(* moment, whatever crashes inside or between the handlers.                *)
THEOREM DurableCommitHolds == Spec => []DurableCommit
BY DurableCommitFollows, SafeHolds, PTL

(* State Machine Safety: no two nodes, and no two lives of a node, apply   *)
(* different entries at an index.                                          *)
THEOREM StateMachineSafetyHolds == Spec => []StateMachineSafety
BY StateMachineSafetyFollows, SafeHolds, PTL

(* The leader's match index of a peer is true, and next - 1 is always an   *)
(* index that sendAppendEntries may read.                                  *)
THEOREM ReplicationWindowHolds == Spec => []ReplicationWindow
BY ReplicationWindowFollows, SafeHolds, PTL

(* The messages that onAppendEntries and onAppendEntriesReply log as       *)
(* errors never arrive: an AppendEntries at the leader of its term, an ack *)
(* beyond the log of the leader.                                           *)
THEOREM NoImpossibleMessageHolds == Spec => []NoImpossibleMessage
<1>1. Safe /\ NoRivalLeader => NoImpossibleMessage
  <2> SUFFICES ASSUME Safe, NEW m \in appendReplies,
                      role[m.to] = Leader, m.term = currentTerm[m.to], m.success
               PROVE  m.conflictIndex <= Len(log[m.to])
    BY Zenon DEF NoRivalLeader, NoImpossibleMessage
  <2>1. m.to \in Node
    BY DEF Safe, Known, TypeInv, NetworkTypeOK, AppendEntriesReply
  <2>2. log[m.to] = leaderLog[m.term]
    BY <2>1, Zenon DEF Safe, Known, LogInv, LeaderHoldsLog
  <2> QED BY <2>2, Zenon DEF Safe, VoteInv, AckInv, AcksBounded
<1> QED BY <1>1, SafeHolds, NoRivalLeaderHolds, PTL

(* A step of Next is a step of one node.                                   *)
LEMMA NextIsStep ==
    ASSUME Safe, Safe', Next
    PROVE  \E i \in Node : CommitStep(i) /\ FlagMove(i) /\ CountMove(i)
<1>1. Known /\ Known' /\ TypeInv /\ VoteInv /\ Window'
  BY DEF Safe, Known
<1> QED BY <1>1, StepCommits, ActionsCount, Zenon DEF Next

(* A win that CommitChecker::observeElectionWin flags is one of a stale    *)
(* term.                                                                   *)
THEOREM FlaggedWinsAreStaleHolds == Spec => []FlaggedWinsAreStale
<1>1. Init => FlaggedWinsAreStale
  BY Zenon DEF Init, FlaggedWinsAreStale
<1>2. Safe /\ Safe' /\ LeaderCompleteness' /\ FlaggedWinsAreStale /\ [Next]_vars
        => FlaggedWinsAreStale'
  <2> SUFFICES ASSUME Safe, Safe', LeaderCompleteness', FlaggedWinsAreStale, [Next]_vars
               PROVE  FlaggedWinsAreStale'
    OBVIOUS
  <2>1. CASE UNCHANGED vars
    BY <2>1, Zenon DEF vars, observers, FlaggedWinsAreStale
  <2>2. CASE Next
    <3>1. PICK i \in Node : CommitStep(i) /\ FlagMove(i)
      BY <2>2, NextIsStep, Zenon
    <3>2. MessagesBacked
      BY DEF Safe, CommitInv
    <3> SUFFICES ASSUME NEW t \in flaggedWins'
                 PROVE  \E k \in 1..Len(committed') : committed'[k].at > t
      BY Zenon DEF FlaggedWinsAreStale
    <3>3. CASE t \in flaggedWins
      <4>1. PICK k \in 1..Len(committed) : committed[k].at > t
        BY <3>3, Zenon DEF FlaggedWinsAreStale
      <4>2. /\ Len(committed) \in Nat /\ Len(committed') \in Nat /\ Len(committed) <= Len(committed')
            /\ committed'[k] = committed[k]
        BY <3>1, <3>2, RecordGrows, Zenon
      <4>3. k \in 1..Len(committed')
        BY <4>2
      <4> QED BY <4>1, <4>2, <4>3, Zenon
    <3>4. CASE t \notin flaggedWins
      <4>1. /\ Wins(i) /\ committed' = committed /\ t = currentTerm'[i]
            /\ \E k \in 1..Len(committed) : ~ Holds(log[i], k, committed[k].entry)
        BY <3>1, <3>4, Zenon DEF FlagMove, ObserveElectionWin
      <4>2. PICK k \in 1..Len(committed') : ~ Holds(log'[i], k, committed'[k].entry)
        BY <4>1, Zenon DEF Wins
      <4>3. role'[i] = Leader
        BY <4>1, Zenon DEF Wins
      <4>4. ~ committed'[k].at <= currentTerm'[i]
        BY <4>2, <4>3, Zenon DEF LeaderCompleteness
      <4>5. committed'[k].at \in Nat /\ currentTerm'[i] \in Nat
        <5> DEFINE R == [entry : Entry, at : Term]
        <5>1. committed' \in Seq(R) /\ currentTerm'[i] \in Term
          BY DEF Safe, Known, TypeInv, StateTypeOK, ObserverTypeOK
        <5> HIDE DEF R
        <5>2. committed'[k] \in R
          BY <5>1
        <5> QED BY <5>1, <5>2, TermsAreNat DEF R
      <4>6. committed'[k].at > t
        BY <4>1, <4>4, <4>5
      <4> QED BY <4>6, Zenon
    <3> QED BY <3>3, <3>4
  <2> QED BY <2>1, <2>2
<1> QED BY <1>1, <1>2, SafeHolds, LeaderCompletenessHolds, PTL DEF Spec

(* The terms along a leader's log never fall and never pass its own.       *)
LeaderLogSorted ==
    \A i \in Node : \A n \in 1..Len(log[i]) : log[i][n].term = currentTerm[i] =>
        \A q \in n..Len(log[i]) : log[i][q].term = currentTerm[i]

(* This follows from where the entries of a term come from.                *)
LEMMA SortedFollows == Safe => LeaderLogSorted
<1> SUFFICES ASSUME Safe, NEW i \in Node, NEW n \in 1..Len(log[i]), log[i][n].term = currentTerm[i],
                    NEW q \in n..Len(log[i])
             PROVE  log[i][q].term = currentTerm[i]
  BY Zenon DEF LeaderLogSorted
<1>1. TypeInv /\ LogInv
  BY DEF Safe, Known
<1>2. log[i] \in Seq(Entry) /\ Len(log[i]) \in Nat /\ currentTerm[i] \in Nat
  BY <1>1, NodeTypes, TermsAreNat
<1>3. q \in 1..Len(log[i]) /\ n \in 1..q
  BY <1>2
<1>4. FromLeaders(log[i], leaderLog) /\ log[i][q].term <= currentTerm[i]
  BY <1>1, <1>3, Zenon DEF LogInv, LogsFromLeaders, TermsUpTo
<1>5. log[i][n].term \in Nat /\ log[i][q].term \in Nat /\ log[i][n].term <= log[i][q].term
  BY <1>1, <1>2, <1>3, <1>4, TermsSorted, Zenon
<1> QED BY <1>2, <1>4, <1>5

(* A leader commits an entry of its term in the very call that completes   *)
(* its majority, the append itself in a cluster of one.                    *)
THEOREM CommitsAtOnceHolds == Spec => []CommitsAtOnce
<1>1. Init => CommitsAtOnce
  <2>1. Follower # Leader
    BY DEF Follower, Leader
  <2> QED BY <2>1, Zenon DEF Init, CommitsAtOnce
<1>2. Safe /\ Safe' /\ LeaderLogSorted' /\ CommitsAtOnce /\ [Next]_vars => CommitsAtOnce'
  <2> SUFFICES ASSUME Safe, Safe', LeaderLogSorted', CommitsAtOnce, [Next]_vars
               PROVE  CommitsAtOnce'
    OBVIOUS
  <2>1. CASE UNCHANGED vars
    BY <2>1, Zenon DEF vars, persistent, roleVars, leaderVars, commitVars, CommitsAtOnce
  <2>2. CASE Next
    <3>1. PICK i \in Node : CommitStep(i) /\ CountMove(i)
      BY <2>2, NextIsStep, Zenon
    <3>2. TypeInv /\ TypeInv' /\ ElectionSafety' /\ LogInv /\ LogMove(i) /\ Own(i)
      BY <3>1, Zenon DEF Safe, Known, CommitStep, Step, LogMove
    <3> SUFFICES ASSUME NEW l \in Node, role'[l] = Leader,
                        NEW n \in commitIndex'[l] + 1 .. Len(log'[l]),
                        log'[l][n].term = currentTerm'[l]
                 PROVE  Cardinality({l} \cup {p \in Peers(l) : matchIndex'[l][p] >= n}) < Majority
      BY Zenon DEF CommitsAtOnce
    <3>3. CASE \/ l # i
               \/ /\ l = i /\ role[i] = Leader /\ currentTerm'[i] = currentTerm[i]
                  /\ log'[i] = log[i] /\ matchIndex'[i] = matchIndex[i]
                  /\ commitIndex'[i] = commitIndex[i]
      <4>1. /\ role[l] = Leader /\ currentTerm'[l] = currentTerm[l] /\ log'[l] = log[l]
            /\ matchIndex'[l] = matchIndex[l] /\ commitIndex'[l] = commitIndex[l]
        BY <3>1, <3>2, <3>3, Zenon DEF Own, CommitStep, WindowMove, CommitMove
      <4> QED BY <4>1, Zenon DEF CommitsAtOnce
    <3>4. CASE l = i /\ Wins(i)
      <4>1. n \in 1..Len(log[i]) /\ log[i][n].term = currentTerm'[i] /\ n \in Nat /\ n > 0
        <5>1. log'[l] = log[i] /\ commitIndex'[l] \in Nat /\ Len(log[i]) \in Nat
          BY <3>2, <3>4, NodeTypes DEF Wins, TypeInv, StateTypeOK
        <5> QED BY <3>4, <5>1
      <4>2. Agree(log[i], leaderLog[currentTerm'[i]], n)
        BY <3>2, <4>1, Zenon DEF LogInv, LogsFromLeaders, FromLeaders
      <4>3. leaderLog[currentTerm'[i]] = <<>>
        BY <3>2, <3>4, WinIsFresh, Zenon
      <4> QED BY <4>1, <4>2, <4>3 DEF Agree
    <3>5. CASE /\ l = i /\ role[i] = Leader /\ currentTerm'[i] = currentTerm[i]
               /\ commitIndex'[i] = AdvanceCommit(i, log'[i], matchIndex'[i])
      <4> DEFINE S == {i} \cup {p \in Peers(i) : matchIndex'[i][p] >= n}
      <4> SUFFICES ASSUME ~ (Cardinality(S) < Majority) PROVE FALSE
        BY <3>5
      <4>1. S \in SUBSET Node
        BY DEF Peers
      <4>2. Cardinality(S) >= Majority
        <5> HIDE DEF S
        <5>1. Cardinality(S) \in Nat /\ Majority \in Nat
          <6>1. S \in SUBSET S
            OBVIOUS
          <6> QED BY <3>2, <4>1, <6>1, NodeCounts, Zenon
        <5> QED BY <5>1
      <4>3. PICK a, mm : a = log'[i] /\ mm = matchIndex'[i]
        OBVIOUS
      <4>4. /\ a \in Seq(Entry) /\ Len(a) \in Nat /\ commitIndex[i] \in Nat
            /\ commitIndex'[i] = AdvanceCommit(i, a, mm)
        BY <3>2, <3>5, <4>3, LenProperties DEF TypeInv, StateTypeOK
      <4>5. /\ commitIndex'[i] \in Nat /\ commitIndex'[i] >= commitIndex[i]
            /\ \A z \in Committable(i, a, mm) : z <= commitIndex'[i]
        BY <3>2, <4>4, AdvanceCommitProperties
      <4>6. /\ n \in commitIndex[i] + 1 .. Len(a) /\ n \in 1..Len(log'[i]) /\ ~ n <= commitIndex'[i]
            /\ log'[i][n].term = currentTerm'[i]
        BY <3>5, <4>3, <4>4, <4>5
      <4>7. \A q \in n..Len(a) : a[q].term = currentTerm[i]
        BY <3>5, <4>3, <4>6, Zenon DEF LeaderLogSorted
      <4>8. n \in Committable(i, a, mm)
        BY <4>2, <4>3, <4>6, <4>7, Zenon DEF Committable
      <4> QED BY <4>5, <4>6, <4>8, Zenon
    <3>6. \/ l # i
          \/ l = i /\ Wins(i)
          \/ /\ l = i /\ role[i] = Leader /\ currentTerm'[i] = currentTerm[i]
             /\ \/ commitIndex'[i] = AdvanceCommit(i, log'[i], matchIndex'[i])
                \/ /\ log'[i] = log[i] /\ matchIndex'[i] = matchIndex[i]
                   /\ commitIndex'[i] = commitIndex[i]
      BY <3>1, Zenon DEF CountMove
    <3> QED BY <3>3, <3>4, <3>5, <3>6, Zenon
  <2> QED BY <2>1, <2>2
<1> QED BY <1>1, <1>2, SafeHolds, SortedFollows, PTL DEF Spec

(* The assignment of min(leaderCommit, prev + n) to a commit index never   *)
(* lowers it; only a restart does.                                         *)
THEOREM CommitIndexMonotoneHolds == Spec => CommitIndexMonotone
<1>1. Safe /\ Safe' /\ [Next]_vars =>
        [\A i \in Node : \/ commitIndex'[i] >= commitIndex[i]
                         \/ commitIndex'[i] = 0 /\ applied'[i] = <<>>]_vars
  <2> SUFFICES ASSUME Safe, Safe', Next, NEW l \in Node
               PROVE  \/ commitIndex'[l] >= commitIndex[l]
                      \/ commitIndex'[l] = 0 /\ applied'[l] = <<>>
    BY Zenon
  <2>1. PICK i \in Node : CommitStep(i)
    BY NextIsStep, Zenon
  <2>2. MessagesBacked /\ commitIndex[l] \in Nat /\ applied \in [Node -> Seq(Entry)]
    BY DEF Safe, CommitInv, AppliedFromLog, Known, TypeInv, StateTypeOK
  <2>3. CASE l # i
    <3>1. commitIndex'[l] = commitIndex[l]
      BY <2>1, <2>3, Zenon DEF CommitStep, CommitMove
    <3> QED BY <2>2, <3>1
  <2>4. CASE l = i
    <3>1. commitIndex'[i] >= commitIndex[i] \/ Restarts(i)
      BY <2>1, <2>2, CommitRises, Zenon
    <3> QED BY <2>2, <2>4, <3>1, Zenon DEF Restarts
  <2> QED BY <2>3, <2>4
<1> QED BY <1>1, SafeHolds, PTL DEF Spec, CommitIndexMonotone

(* No step of any handler, and no crash inside one, truncates or changes a *)
(* log at or below the commit index of its node.                           *)
THEOREM CommittedPrefixStableHolds == Spec => CommittedPrefixStable
<1>1. Safe /\ Safe' /\ [Next]_vars =>
        [\A i \in Node : \A k \in 1..commitIndex[i] : Holds(log'[i], k, log[i][k])]_vars
  <2> SUFFICES ASSUME Safe, Safe', Next, NEW l \in Node, NEW k \in 1..commitIndex[l]
               PROVE  Holds(log'[l], k, log[l][k])
    BY Zenon
  <2>1. PICK i \in Node : CommitStep(i)
    BY NextIsStep, Zenon
  <2>2. Step(i) /\ VoteInv /\ CommitBacked
    BY <2>1, Zenon DEF CommitStep, Safe, CommitInv
  <2>3. Agree(log'[l], log[l], commitIndex[l])
    BY <2>2, PrefixKept, Zenon
  <2>4. commitIndex[l] \in Nat /\ Len(log'[l]) \in Nat
    BY LenProperties DEF Safe, Known, TypeInv, StateTypeOK
  <2> QED BY <2>3, <2>4 DEF Agree, Holds
<1> QED BY <1>1, SafeHolds, PTL DEF Spec, CommittedPrefixStable

(* A sequence that another one continues is a prefix of it.                *)
LEMMA PrefixByEntries ==
    ASSUME NEW s \in Seq(Entry), NEW t \in Seq(Entry), Len(s) <= Len(t),
           \A k \in 1..Len(s) : s[k] = t[k]
    PROVE  Promise!IsPrefix(s, t)
<1>1. SubSeq(s, 1, Len(s)) = SubSeq(t, 1, Len(s))
  OBVIOUS
<1> QED BY <1>1 DEF Promise!IsPrefix

(* The record, read as the sequence of its entries.                        *)
LEMMA RecordAsSequence ==
    ASSUME NEW s \in Seq([entry : Entry, at : Term])
    PROVE  LET c == [k \in DOMAIN s |-> s[k].entry]
           IN  c \in Seq(Entry) /\ Len(c) = Len(s) /\ \A k \in 1..Len(s) : c[k] = s[k].entry
<1> DEFINE c == [k \in DOMAIN s |-> s[k].entry]
           R == [entry : Entry, at : Term]
<1>1. Len(s) \in Nat /\ DOMAIN s = 1..Len(s) /\ s \in Seq(R)
  BY LenProperties
<1>2. \A k \in 1..Len(s) : s[k] \in R
  <2> HIDE DEF R
  <2> QED BY <1>1
<1>3. \A k \in 1..Len(s) : s[k].entry \in Entry
  BY <1>2
<1>4. c \in [1..Len(s) -> Entry]
  BY <1>1, <1>3
<1>5. \A k \in 1..Len(s) : c[k] = s[k].entry
  BY <1>1
<1>6. c \in Seq(Entry) /\ Len(c) = Len(s)
  <2> HIDE DEF c
  <2> QED BY <1>1, <1>4, FunctionIsSeq, Zenon
<1> QED BY <1>5, <1>6, Zenon

(* The core implements the replicated log that the layer above is          *)
(* promised: one sequence that only grows, fed to every node in order and  *)
(* without gaps from the start of each of its lives.                       *)
THEOREM RefinementHolds == Spec => ImplementsReplicatedLog
<1> DEFINE chosen == [k \in DOMAIN committed |-> committed[k].entry]
<1>1. Init => Promise!Init
  <2> SUFFICES ASSUME Init PROVE Promise!Init
    OBVIOUS
  <2>1. committed = <<>> /\ applied = [i \in Node |-> <<>>]
    BY Zenon DEF Init
  <2>2. chosen = <<>>
    BY <2>1
  <2> QED BY <2>1, <2>2, Zenon DEF Promise!Init
<1>2. Safe /\ Safe' /\ StateMachineSafety' /\ NoLostCommit' /\ [Next]_vars
        => [Promise!Next]_<<chosen, applied>>
  <2> SUFFICES ASSUME Safe, Safe', StateMachineSafety', NoLostCommit', [Next]_vars
               PROVE  [Promise!Next]_<<chosen, applied>>
    OBVIOUS
  <2>1. CASE UNCHANGED vars
    <3>1. committed' = committed /\ applied' = applied
      BY <2>1, Zenon DEF vars, commitVars, observers
    <3> QED BY <3>1, Zenon
  <2>2. CASE Next
    <3>1. PICK i \in Node : CommitStep(i)
      BY <2>2, NextIsStep, Zenon
    <3>2. /\ MessagesBacked /\ applied \in [Node -> Seq(Entry)] /\ applied' \in [Node -> Seq(Entry)]
          /\ committed \in Seq([entry : Entry, at : Term])
          /\ committed' \in Seq([entry : Entry, at : Term])
      BY Zenon DEF Safe, CommitInv, AppliedFromLog, Known, TypeInv, ObserverTypeOK
    <3>3. CASE Restarts(i)
      BY <3>3, Zenon DEF Restarts, Promise!Next, Promise!Restart
    <3>4. CASE ~ Restarts(i)
      <4>1. Hands(i)
        BY <3>1, <3>4, Zenon DEF CommitStep, CommitMove, Keeps, Raises
      <4>2. PICK c, d \in Seq(Entry) :
              /\ c = chosen /\ d = chosen'
              /\ Len(c) = Len(committed) /\ \A k \in 1..Len(committed) : c[k] = committed[k].entry
              /\ Len(d) = Len(committed') /\ \A k \in 1..Len(committed') : d[k] = committed'[k].entry
        BY <3>2, RecordAsSequence, Zenon
      <4>3. Promise!IsPrefix(c, d)
        <5>1. /\ Len(committed) \in Nat /\ Len(committed') \in Nat
              /\ Len(committed) <= Len(committed')
              /\ \A k \in 1..Len(committed) : committed'[k] = committed[k]
          BY <3>1, <3>2, RecordGrows, Zenon
        <5>2. \A k \in 1..Len(c) : k \in 1..Len(committed')
          BY <4>2, <5>1
        <5>3. Len(c) <= Len(d) /\ \A k \in 1..Len(c) : c[k] = d[k]
          BY <4>2, <5>1, <5>2, Zenon
        <5> QED BY <5>3, PrefixByEntries, Zenon
      <4>4. applied' = [applied EXCEPT ![i] = applied'[i]]
        BY <3>2, <4>1 DEF Hands
      <4>5. PICK a \in Seq(Entry), b \in Seq(Entry) : a = applied[i] /\ b = applied'[i]
        BY <3>2
      <4>6. Promise!IsPrefix(a, b)
        <5>1. b = a \/ \E w : b = a \o w /\ w \in Seq(Entry)
          <6>1. PICK lg \in Seq(Entry), u \in Nat : lg = log'[i] /\ u = commitIndex'[i]
            BY DEF Safe, Known, TypeInv, StateTypeOK
          <6>2. \/ b = a
                \/ \E n : /\ n \in Len(a)..u \/ n = u
                          /\ b = a \o SubSeq(lg, Len(a) + 1, n)
            BY <3>2, <4>1, <4>5, <6>1, Zenon DEF Hands
          <6>3. Len(a) \in Nat /\ Len(lg) \in Nat /\ Len(a) <= u
            <7>1. Len(a) <= commitIndex[i]
              BY <4>5, StateMachineSafetyFollows, Zenon DEF StateMachineSafety
            <7>2. commitIndex[i] \in Nat /\ u >= commitIndex[i]
              BY <3>1, <3>2, <3>4, <6>1, CommitRises, Zenon
            <7>3. Len(a) \in Nat /\ Len(lg) \in Nat
              BY LenProperties
            <7> QED BY <7>1, <7>2, <7>3
          <6>4. u <= Len(lg)
            <7>1. u = 0 \/ u \in 1..u
              BY <6>1
            <7>2. \A k \in 1..u : k <= Len(lg)
              BY <6>1, Zenon DEF NoLostCommit, Holds
            <7> QED BY <6>3, <7>1, <7>2
          <6>5. ASSUME NEW n, n \in Len(a)..u \/ n = u
                PROVE  SubSeq(lg, Len(a) + 1, n) \in Seq(Entry)
            <7>1. n \in Nat /\ Len(a) + 1 \in Nat \ {0} /\ Len(a) + 1 <= n + 1 /\ n <= Len(lg)
              BY <6>3, <6>4, <6>5
            <7> QED BY <7>1, SliceProperties
          <6> QED BY <6>2, <6>5, Zenon
        <5>2. Len(a) <= Len(b) /\ \A k \in 1..Len(a) : a[k] = b[k]
          BY <5>1
        <5> QED BY <5>2, PrefixByEntries, Zenon
      <4>7. Promise!IsPrefix(b, d)
        <5>1. \A k \in 1..Len(b) : k <= Len(committed') /\ b[k] = committed'[k].entry
          BY <4>5, Zenon DEF StateMachineSafety
        <5>2. Len(b) \in Nat /\ Len(d) \in Nat
          BY LenProperties
        <5>3. Len(b) <= Len(d) /\ \A k \in 1..Len(b) : k \in 1..Len(d)
          <6>1. Len(b) = 0 \/ Len(b) \in 1..Len(b)
            BY <5>2
          <6>2. Len(b) <= Len(d)
            BY <4>2, <5>1, <5>2, <6>1
          <6> QED BY <5>2, <6>2
        <5>4. \A k \in 1..Len(b) : b[k] = d[k]
          BY <4>2, <5>1, <5>3, Zenon
        <5> QED BY <5>3, <5>4, PrefixByEntries, Zenon
      <4>8. Promise!Progress(i)
        BY <4>2, <4>3, <4>4, <4>5, <4>6, <4>7, Zenon DEF Promise!Progress
      <4> QED BY <4>8, Zenon DEF Promise!Next
    <3> QED BY <3>3, <3>4
  <2> QED BY <2>1, <2>2
<1> QED BY <1>1, <1>2, SafeHolds, StateMachineSafetyHolds, NoLostCommitHolds, PTL
        DEF Spec, ImplementsReplicatedLog, Promise!Spec
=============================================================================
