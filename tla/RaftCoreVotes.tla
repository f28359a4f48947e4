--------------------------- MODULE RaftCoreVotes ----------------------------
(***************************************************************************)
(* Proofs about RaftCore, third part: what an acknowledged entry means for *)
(* later elections.                                                        *)
(*                                                                         *)
(* A node has stored the first c entries of term T when it is T's leader   *)
(* or acknowledged them (Stored). It keeps them until a leader of a later  *)
(* term lacks them (AcksHeld), so a ballot cast afterwards was cast with a *)
(* log that holds them (Good), and a term is won by a majority of such     *)
(* ballots (WinsGood).                                                     *)
(***************************************************************************)
EXTENDS RaftCoreLogs

(* Node i acknowledges a request only after it took all of its entries.    *)
Acks(i) ==
    /\ appendReplies \subseteq appendReplies'
    /\ \A r \in appendReplies' \ appendReplies : r.success =>
          \E m \in appends : /\ r.from = i /\ r.term = m.term
                             /\ r.conflictIndex = ConfirmedThrough(m)
                             /\ Merges(i, m, Len(m.entries))

(* The ballot of a node for itself.                                        *)
OwnBallot(i, t, lg) == [term |-> t, voter |-> i, candidate |-> i, log |-> lg]

(* Node i votes in its new term with the log it has: for itself when the   *)
(* term is new, or for a candidate whose request is up to date.            *)
Casts(i) ==
    /\ ballots \subseteq ballots' /\ requestVotes \subseteq requestVotes'
    /\ \A b \in ballots' \ ballots :
          /\ log' = log /\ b.voter = i /\ b.log = log[i] /\ b.term = currentTerm'[i]
          /\ \/ b.candidate = i /\ currentTerm'[i] > currentTerm[i]
             \/ \E m \in requestVotes :
                   /\ m.to = i /\ m.from = b.candidate /\ m.term = b.term
                   /\ CandidateLogAtLeastAsUpToDate(m.lastLogTerm, m.lastLogIndex, log[i])
    /\ \A m \in requestVotes' \ requestVotes :
          /\ m.from = i /\ m.to # i
          /\ OwnBallot(i, m.term, log[i]) \in ballots'
          /\ m.lastLogIndex = Len(log[i]) /\ m.lastLogTerm = LastTerm(log[i])
    /\ role'[i] # Follower /\ currentTerm'[i] > currentTerm[i] =>
          log' = log /\ OwnBallot(i, currentTerm'[i], log[i]) \in ballots'

(* Every action acknowledges this way.                                     *)
LEMMA ActionsAck ==
    ASSUME TypeInv, NEW i \in Node,
           Tick(i) \/ Propose(i) \/ PumpApply(i) \/ Handle(i) \/ Crash(i)
    PROVE  Acks(i)
<1>0. StateTypeOK /\ NetworkTypeOK
  BY DEF TypeInv
<1>1. CASE appendReplies' = appendReplies
  BY <1>1, Zenon DEF Acks
<1>2. ASSUME NEW m \in appends, OnStaleAppendEntries(i, m) PROVE Acks(i)
  <2> DEFINE x == AppendReply(i, m, currentTerm[i], FALSE, 0, 0)
  <2>1. appendReplies' = appendReplies \cup {x}
    BY <1>2, Zenon DEF OnStaleAppendEntries
  <2>2. x.success = FALSE
    BY DEF AppendReply
  <2> HIDE DEF x
  <2> QED BY <2>1, <2>2, Zenon DEF Acks
<1>3. ASSUME NEW m \in appends, OnAppendEntries(i, m) PROVE Acks(i)
  <2>0. m.term \in Term
    BY <1>0, Zenon DEF NetworkTypeOK, AppendEntries
  <2>1. CASE PassesConsistencyCheck(i, m)
    <3> DEFINE x == AppendReply(i, m, TermAfter(i, m.term), TRUE, ConfirmedThrough(m), 0)
    <3>1. /\ appendReplies' = appendReplies \cup {x}
          /\ m.to = i /\ m.term >= currentTerm[i]
          /\ currentTerm' = [currentTerm EXCEPT ![i] = TermAfter(i, m.term)]
          /\ role' = [role EXCEPT ![i] = Follower]
          /\ log' = [log EXCEPT ![i] = MergedLog(log[i], m, Len(m.entries))]
          /\ UNCHANGED <<leaderLog, leadersByTerm>>
      BY <1>3, <2>1, Zenon DEF OnAppendEntries
    <3>2. TermAfter(i, m.term) = m.term
      BY <2>0, <3>1, TermRuleMove
    <3>3. x.from = i /\ x.term = m.term /\ x.conflictIndex = ConfirmedThrough(m)
      BY <3>2 DEF AppendReply
    <3>4. currentTerm'[i] = m.term /\ role'[i] = Follower
      BY <1>0, <3>1, <3>2, Zenon DEF StateTypeOK
    <3>5. Merges(i, m, Len(m.entries))
      BY <2>1, <3>1, <3>4, AllEntries, Zenon DEF Merges
    <3> HIDE DEF x
    <3> QED BY <3>1, <3>3, <3>5, Zenon DEF Acks
  <2>2. CASE ~ PassesConsistencyCheck(i, m)
    <3> DEFINE x == RejectHint(i, m, TermAfter(i, m.term))
    <3>1. appendReplies' = appendReplies \cup {x}
      BY <1>3, <2>2, Zenon DEF OnAppendEntries
    <3>2. x.success = FALSE
      <4>1. \A a, b, c, d : AppendReply(i, m, a, FALSE, c, d).success = FALSE
        BY DEF AppendReply
      <4> QED BY <4>1, Zenon DEF RejectHint
    <3> HIDE DEF x
    <3> QED BY <3>1, <3>2, Zenon DEF Acks
  <2> QED BY <2>1, <2>2
<1>4. Tick(i) \/ Propose(i) \/ PumpApply(i) \/ Crash(i) => appendReplies' = appendReplies
  BY Zenon
     DEF Tick, StartElection, SendHeartbeats, Propose, ProposeBatch, PumpApply, Crash, Restart,
               CrashAfterTermRule, CrashDuringAppend, CrashDuringPropose, network
<1>5. \A m : OnRequestVote(i, m) \/ OnRequestVoteReply(i, m) \/ OnStaleAppendReply(i, m)
             \/ OnAppendAck(i, m) \/ OnAppendReject(i, m) => appendReplies' = appendReplies
  BY Zenon
     DEF OnRequestVote, OnRequestVoteReply, OnStaleAppendReply, OnAppendAck, OnAppendReject,
         network
<1> QED BY <1>1, <1>2, <1>3, <1>4, <1>5, Zenon DEF Handle

(* Every action votes this way.                                            *)
LEMMA ActionsCast ==
    ASSUME TypeInv, NEW i \in Node,
           Tick(i) \/ Propose(i) \/ PumpApply(i) \/ Handle(i) \/ Crash(i)
    PROVE  Casts(i)
<1>0. /\ StateTypeOK /\ NetworkTypeOK /\ currentTerm[i] \in Nat
      /\ Follower # Leader /\ Follower # Candidate
  BY NodeTypes, TermsAreNat DEF TypeInv, Follower, Candidate, Leader
<1>1. ASSUME UNCHANGED <<ballots, requestVotes>>,
             role'[i] # Follower => ~ (currentTerm'[i] > currentTerm[i])
      PROVE  Casts(i)
  BY <1>1, Zenon DEF Casts
<1>2. ASSUME currentTerm'[i] = currentTerm[i] PROVE ~ (currentTerm'[i] > currentTerm[i])
  BY <1>0, <1>2
<1>3. ASSUME NEW t \in Term, currentTerm'[i] = TermAfter(i, t), role'[i] = RoleAfter(i, t)
      PROVE  role'[i] # Follower => ~ (currentTerm'[i] > currentTerm[i])
  BY <1>0, <1>3 DEF TermAfter, RoleAfter, NewTerm
<1>4. CASE StartElection(i)
  <2> DEFINE t == currentTerm[i] + 1
             x == OwnBallot(i, t, log[i])
             req(j) == [term |-> t, from |-> i, to |-> j, lastLogIndex |-> Len(log[i]),
                        lastLogTerm |-> LastTerm(log[i])]
  <2>1. /\ currentTerm' = [currentTerm EXCEPT ![i] = t] /\ log' = log
        /\ ballots' = ballots \cup {x}
        /\ requestVotes' = requestVotes \cup {req(j) : j \in Peers(i)}
    BY <1>4, Zenon DEF StartElection, OwnBallot
  <2>2. currentTerm'[i] = t /\ t > currentTerm[i]
    BY <1>0, <2>1 DEF StateTypeOK
  <2>3. x.voter = i /\ x.log = log[i] /\ x.term = t /\ x.candidate = i
    BY DEF OwnBallot
  <2>4. \A j \in Peers(i) : /\ req(j).from = i /\ req(j).to = j /\ j # i /\ req(j).term = t
                            /\ req(j).lastLogIndex = Len(log[i])
                            /\ req(j).lastLogTerm = LastTerm(log[i])
    BY DEF Peers
  <2> HIDE DEF t, req
  <2>5. \A m \in requestVotes' \ requestVotes :
          /\ m.from = i /\ m.to # i /\ m.term = t
          /\ m.lastLogIndex = Len(log[i]) /\ m.lastLogTerm = LastTerm(log[i])
    <3> SUFFICES ASSUME NEW m \in requestVotes', m \notin requestVotes
                 PROVE  /\ m.from = i /\ m.to # i /\ m.term = t
                        /\ m.lastLogIndex = Len(log[i]) /\ m.lastLogTerm = LastTerm(log[i])
      OBVIOUS
    <3>1. PICK j \in Peers(i) : m = req(j)
      BY <2>1
    <3> QED BY <2>4, <3>1, Zenon
  <2>6. \A m \in requestVotes' \ requestVotes :
          /\ m.from = i /\ m.to # i
          /\ OwnBallot(i, m.term, log[i]) \in ballots'
          /\ m.lastLogIndex = Len(log[i]) /\ m.lastLogTerm = LastTerm(log[i])
    BY <2>1, <2>5, Zenon
  <2>7. OwnBallot(i, currentTerm'[i], log[i]) \in ballots'
    <3>1. OwnBallot(i, currentTerm'[i], log[i]) = x
      BY <2>2
    <3>2. x \in ballots'
      BY <2>1, Zenon
    <3> HIDE DEF x
    <3> QED BY <3>1, <3>2
  <2> HIDE DEF x
  <2>8. /\ ballots \subseteq ballots' /\ requestVotes \subseteq requestVotes'
        /\ \A b \in ballots' \ ballots : b = x
    BY <2>1, Zenon
  <2> QED BY <2>1, <2>2, <2>3, <2>6, <2>7, <2>8, Zenon DEF Casts
<1>5. ASSUME NEW m \in requestVotes, OnRequestVote(i, m) PROVE Casts(i)
  <2> DEFINE t == TermAfter(i, m.term)
             grant == /\ m.term = t
                      /\ CandidateLogAtLeastAsUpToDate(m.lastLogTerm, m.lastLogIndex, log[i])
                      /\ VoteAfter(i, m.term) \in {NoNode, m.from}
             x == [term |-> t, voter |-> i, candidate |-> m.from, log |-> log[i]]
  <2>0. m.term \in Term
    BY <1>0, Zenon DEF NetworkTypeOK, RequestVote
  <2>1. /\ currentTerm' = [currentTerm EXCEPT ![i] = t] /\ log' = log
        /\ role' = [role EXCEPT ![i] = RoleAfter(i, m.term)]
        /\ requestVotes' = requestVotes /\ m.to = i
        /\ ballots' = IF grant THEN ballots \cup {x} ELSE ballots
    BY <1>5, Zenon DEF OnRequestVote
  <2>2. currentTerm'[i] = t /\ role'[i] = RoleAfter(i, m.term)
    BY <1>0, <2>1, Zenon DEF StateTypeOK
  <2>3. role'[i] # Follower => ~ (currentTerm'[i] > currentTerm[i])
    BY <1>3, <2>0, <2>2, Zenon
  <2>4. x.voter = i /\ x.log = log[i] /\ x.term = t /\ x.candidate = m.from
    OBVIOUS
  <2>5. CASE grant
    <3>1. /\ m.term = t
          /\ CandidateLogAtLeastAsUpToDate(m.lastLogTerm, m.lastLogIndex, log[i])
          /\ ballots' = ballots \cup {x}
      BY <2>1, <2>5, Zenon
    <3> HIDE DEF t, x, grant
    <3> QED BY <2>1, <2>2, <2>3, <2>4, <3>1, Zenon DEF Casts
  <2>6. CASE ~ grant
    BY <1>1, <2>1, <2>3, <2>6, Zenon
  <2> QED BY <2>5, <2>6
<1>6. ASSUME NEW m \in voteReplies, OnRequestVoteReply(i, m) PROVE Casts(i)
  <2>0. m.term \in Term
    BY <1>0, Zenon DEF NetworkTypeOK, RequestVoteReply
  <2>1. UNCHANGED <<ballots, requestVotes>> /\ currentTerm' = [currentTerm EXCEPT ![i] = TermAfter(i, m.term)]
    BY <1>6, Zenon DEF OnRequestVoteReply
  <2>2. currentTerm'[i] = TermAfter(i, m.term)
    BY <1>0, <2>1, Zenon DEF StateTypeOK
  <2>3. \/ m.term = currentTerm[i]
        \/ role' = [role EXCEPT ![i] = RoleAfter(i, m.term)]
    BY <1>6, Zenon DEF OnRequestVoteReply
  <2>4. CASE m.term = currentTerm[i]
    <3>1. currentTerm'[i] = currentTerm[i]
      BY <2>2, <2>4 DEF TermAfter
    <3> QED BY <1>1, <1>2, <2>1, <3>1, Zenon
  <2>5. CASE role' = [role EXCEPT ![i] = RoleAfter(i, m.term)]
    <3>1. role'[i] = RoleAfter(i, m.term)
      BY <1>0, <2>5, Zenon DEF StateTypeOK
    <3> QED BY <1>1, <1>3, <2>0, <2>1, <2>2, <3>1, Zenon
  <2> QED BY <2>3, <2>4, <2>5
<1>7. ASSUME UNCHANGED <<ballots, requestVotes>>,
             currentTerm' = currentTerm \/ role' = [role EXCEPT ![i] = Follower]
      PROVE  Casts(i)
  <2>1. role'[i] # Follower => ~ (currentTerm'[i] > currentTerm[i])
    BY <1>0, <1>2, <1>7, Zenon DEF StateTypeOK
  <2> QED BY <1>1, <1>7, <2>1, Zenon
<1>8. CASE SendHeartbeats(i) \/ Propose(i) \/ PumpApply(i) \/ Crash(i)
  <2>1. /\ UNCHANGED <<ballots, requestVotes>>
        /\ currentTerm' = currentTerm \/ role' = [role EXCEPT ![i] = Follower]
    BY <1>8, Zenon DEF SendHeartbeats, Propose, ProposeBatch, PumpApply, Crash, Restart,
               CrashAfterTermRule, CrashDuringAppend, CrashDuringPropose, ResetVolatile,
               network, observers, persistent
  <2> QED BY <1>7, <2>1, Zenon
<1>9. ASSUME NEW m, \/ OnStaleAppendEntries(i, m) \/ OnAppendEntries(i, m) \/ OnStaleAppendReply(i, m)
                    \/ OnAppendAck(i, m) \/ OnAppendReject(i, m)
      PROVE  Casts(i)
  <2>1. /\ UNCHANGED <<ballots, requestVotes>>
        /\ currentTerm' = currentTerm \/ role' = [role EXCEPT ![i] = Follower]
    BY <1>9, Zenon
       DEF OnStaleAppendEntries, OnAppendEntries, OnStaleAppendReply, OnAppendAck, OnAppendReject,
               network, observers, persistent
  <2> QED BY <1>7, <2>1, Zenon
<1> QED BY <1>4, <1>5, <1>6, <1>8, <1>9, Zenon DEF Tick, Handle

(* A step of node i, and what is known around it.                          *)
Step(i) == Known /\ Known' /\ LogMove(i) /\ Acks(i) /\ Casts(i)

(* The leader of term T, or a node that acknowledged index c in term T,    *)
(* had the first c entries of the log of T on its disk.                    *)
Stored(j, T, c) ==
    \/ j \in leadersByTerm[T] /\ c <= Len(leaderLog[T])
    \/ \E m \in appendReplies : m.from = j /\ m.term = T /\ m.success /\ c <= m.conflictIndex

(* The leaders of the terms between T and U hold the first c entries of T. *)
Survives(T, c, U) ==
    \A V \in Term : T < V /\ V < U /\ leadersByTerm[V] # {} => Agree(leaderLog[V], leaderLog[T], c)

(* An ack lies within the log of its term, and its sender has reached that *)
(* term.                                                                   *)
AcksBounded == \A m \in appendReplies : m.success => m.conflictIndex <= Len(leaderLog[m.term])
RepliesPast == \A m \in appendReplies : m.success => m.term <= currentTerm[m.from]

(* What was stored is still there, unless a later leader lacks it.         *)
AcksHeld ==
    \A j \in Node : \A T \in Term : \A c, U \in Nat :
        U > currentTerm[j] /\ Stored(j, T, c) /\ Survives(T, c, U) => Agree(log[j], leaderLog[T], c)

AckInv == AcksBounded /\ RepliesPast /\ AcksHeld

(* Types around a step.                                                    *)
LEMMA StepTypes ==
    ASSUME NEW i \in Node, Step(i)
    PROVE  /\ TypeInv /\ TypeInv' /\ LogInv /\ LogInv' /\ Own(i)
           /\ leaderLog \in [Term -> Seq(Entry)] /\ leaderLog' \in [Term -> Seq(Entry)]
           /\ log \in [Node -> Seq(Entry)] /\ log' \in [Node -> Seq(Entry)]
           /\ leadersByTerm \in [Term -> SUBSET Node]
           /\ currentTerm \in [Node -> Term] /\ currentTerm' \in [Node -> Term]
           /\ appendReplies \subseteq AppendEntriesReply
           /\ Grown(leaderLog, leaderLog')
           /\ \A t \in Term : leadersByTerm[t] \subseteq leadersByTerm'[t]
<1>1. TypeInv /\ TypeInv' /\ LogInv /\ LogInv' /\ Own(i) /\ ElectionSafety' /\ LogMove(i)
  BY Zenon DEF Step, Known, LogMove
<1>2. /\ Grown(leaderLog, leaderLog')
      /\ \A t \in Term : leadersByTerm[t] \subseteq leadersByTerm'[t]
  BY <1>1, LeaderLogsGrow
<1> QED BY <1>1, <1>2, Zenon DEF TypeInv, StateTypeOK, ObserverTypeOK, NetworkTypeOK

(* Terms only rise.                                                        *)
LEMMA TermsRise ==
    ASSUME NEW i \in Node, Step(i), NEW j \in Node
    PROVE  /\ currentTerm[j] \in Nat /\ currentTerm'[j] \in Nat
           /\ currentTerm[j] <= currentTerm'[j]
<1>1. currentTerm[j] \in Nat /\ currentTerm'[j] \in Nat
  BY StepTypes, TermsAreNat
<1>2. Own(i)
  BY StepTypes
<1>3. CASE j = i
  BY <1>1, <1>2, <1>3 DEF Own
<1>4. CASE j # i
  <2>1. currentTerm'[j] = currentTerm[j]
    BY <1>2, <1>4, Zenon DEF Own
  <2> QED BY <1>1, <2>1
<1> QED BY <1>3, <1>4

(* What agreed with a leader's log agrees with what it grows to.           *)
LEMMA AgreeGrown ==
    ASSUME NEW i \in Node, Step(i), NEW T \in Term, NEW c \in Nat, NEW lg,
           Agree(lg, leaderLog[T], c)
    PROVE  Agree(lg, leaderLog'[T], c)
<1>1. leaderLog[T] \in Seq(Entry) /\ leaderLog'[T] \in Seq(Entry)
      /\ Agree(leaderLog'[T], leaderLog[T], Len(leaderLog[T]))
  BY StepTypes, Zenon DEF Grown
<1>2. Len(leaderLog[T]) \in Nat /\ c <= Len(leaderLog[T])
  BY <1>1, LenProperties DEF Agree
<1>3. Agree(leaderLog'[T], leaderLog[T], c)
  BY <1>1, <1>2, AgreeShorter, Zenon
<1> QED BY <1>3, AgreeFlip, AgreeChain, Zenon

(* And back, within the old length.                                        *)
LEMMA AgreeUngrown ==
    ASSUME NEW i \in Node, Step(i), NEW T \in Term, NEW c \in Nat, NEW lg,
           Agree(lg, leaderLog'[T], c), c <= Len(leaderLog[T])
    PROVE  Agree(lg, leaderLog[T], c)
<1>1. leaderLog[T] \in Seq(Entry) /\ leaderLog'[T] \in Seq(Entry)
      /\ Agree(leaderLog'[T], leaderLog[T], Len(leaderLog[T]))
  BY StepTypes, Zenon DEF Grown
<1>2. Len(leaderLog[T]) \in Nat
  BY <1>1, LenProperties
<1>3. Agree(leaderLog'[T], leaderLog[T], c)
  BY <1>1, <1>2, AgreeShorter, Zenon
<1> QED BY <1>3, AgreeChain, Zenon

(* The log of a won term grows only by entries of that term.               *)
LEMMA NewEntriesOfTerm ==
    ASSUME NEW i \in Node, Step(i), NEW V \in Term, leadersByTerm[V] # {},
           NEW k \in 1..Len(leaderLog'[V]), k > Len(leaderLog[V])
    PROVE  leaderLog'[V][k].term = V /\ V = currentTerm'[i] /\ i \in leadersByTerm[V]
<1>0. /\ TypeInv /\ TypeInv' /\ LogInv /\ ElectionSafety' /\ LogMove(i)
      /\ leaderLog \in [Term -> Seq(Entry)] /\ leaderLog' \in [Term -> Seq(Entry)]
      /\ log[i] \in Seq(Entry) /\ currentTerm[i] \in Term /\ LeadersInv
  BY StepTypes, Zenon DEF Step, Known
<1>1. Len(leaderLog[V]) \in Nat
  BY <1>0, LenProperties
<1>2. leaderLog'[V] # leaderLog[V]
  BY <1>1
<1>3. CASE Wins(i)
  <2>1. leadersByTerm[currentTerm'[i]] = {} /\ currentTerm'[i] \in Term
    BY <1>0, <1>3, WinIsFresh
  <2>2. leaderLog' = [leaderLog EXCEPT ![currentTerm'[i]] = log[i]]
    BY <1>3, Zenon DEF Wins
  <2>3. V # currentTerm'[i]
    BY <2>1
  <2> QED BY <1>0, <1>2, <2>2, <2>3, Zenon
<1>4. ASSUME NEW more, Extends(i, more)
      PROVE  leaderLog'[V][k].term = V /\ V = currentTerm'[i] /\ i \in leadersByTerm[V]
  <2>1. /\ role[i] = Leader /\ more \in Seq(Entry) /\ currentTerm'[i] = currentTerm[i]
        /\ \A q \in 1..Len(more) : more[q].term = currentTerm[i]
        /\ leaderLog' = [leaderLog EXCEPT ![currentTerm[i]] = log[i] \o more]
    BY <1>4, Zenon DEF Extends
  <2>2. V = currentTerm[i]
    BY <1>0, <1>2, <2>1, Zenon
  <2>3. i \in leadersByTerm[V] /\ leaderLog[V] = log[i] /\ leaderLog'[V] = log[i] \o more
    BY <1>0, <2>1, <2>2, Zenon DEF LeadersInv, LeadersWon, LogInv, LeaderHoldsLog
  <2> DEFINE both == log[i] \o more
  <2>4. \A q \in 1..Len(both) : q \in 1..Len(log[i]) \/ (q - Len(log[i]) \in 1..Len(more) /\ both[q] = more[q - Len(log[i])])
    BY <1>0, <2>1, Appended
  <2>4a. leaderLog'[V] = both
    BY <2>3
  <2> HIDE DEF both
  <2>5. k \in 1..Len(both) /\ k \notin 1..Len(log[i])
    BY <1>1, <2>3, <2>4a
  <2>6. k - Len(log[i]) \in 1..Len(more) /\ both[k] = more[k - Len(log[i])]
    BY <2>4, <2>5
  <2>7. both[k].term = currentTerm[i]
    BY <2>1, <2>6
  <2> QED BY <2>1, <2>2, <2>3, <2>4a, <2>7
<1> QED BY <1>0, <1>2, <1>3, <1>4, Zenon DEF LogMove, Still, Merges

(* The entries of a leader's log are of its term or earlier ones.          *)
LEMMA LeaderLogTerms ==
    ASSUME TypeInv, LogInv, NEW T \in Term, NEW k \in 1..Len(leaderLog[T])
    PROVE  /\ leaderLog[T][k].term \in Nat /\ leaderLog[T][k].term \in Term
           /\ leaderLog[T][k].term <= T
<1>1. leaderLog[T] \in Seq(Entry)
  BY DEF TypeInv, ObserverTypeOK
<1>2. TermsUpTo(leaderLog[T], T)
  BY Zenon DEF LogInv, LeaderLogsFromLeaders
<1> QED BY <1>1, <1>2, EntryTypes DEF TermsUpTo

(* What survives after a step survived before it.                          *)
LEMMA SurvivesBack ==
    ASSUME NEW i \in Node, Step(i), NEW T \in Term, NEW c \in Nat, NEW U \in Nat,
           Survives(T, c, U)', c <= Len(leaderLog[T])
    PROVE  Survives(T, c, U)
<1> SUFFICES ASSUME NEW V \in Term, T < V, V < U, leadersByTerm[V] # {}
             PROVE  Agree(leaderLog[V], leaderLog[T], c)
  BY Zenon DEF Survives
<1>0. /\ TypeInv /\ TypeInv' /\ LogInv /\ LogInv'
      /\ leaderLog \in [Term -> Seq(Entry)] /\ leaderLog' \in [Term -> Seq(Entry)]
      /\ \A t \in Term : leadersByTerm[t] \subseteq leadersByTerm'[t]
      /\ Grown(leaderLog, leaderLog')
  BY StepTypes
<1>1. T \in Nat /\ V \in Nat /\ Len(leaderLog[V]) \in Nat /\ Len(leaderLog[T]) \in Nat /\ Len(leaderLog'[V]) \in Nat
  BY <1>0, TermsAreNat, LenProperties
<1>2. leadersByTerm'[V] # {}
  BY <1>0
<1>3. Agree(leaderLog'[V], leaderLog'[T], c)
  BY <1>2, Zenon DEF Survives
<1>4. Agree(leaderLog'[V], leaderLog[T], c)
  BY <1>3, AgreeUngrown, Zenon
<1>5. c <= Len(leaderLog[V])
  <2> SUFFICES ASSUME c > Len(leaderLog[V]) PROVE FALSE
    BY <1>1
  <2>1. c \in 1..Len(leaderLog'[V]) /\ c \in 1..Len(leaderLog[T])
    BY <1>1, <1>4 DEF Agree
  <2>2. leaderLog'[V][c].term = V
    BY <2>1, NewEntriesOfTerm
  <2>3. leaderLog'[V][c] = leaderLog[T][c]
    BY <1>4, <2>1 DEF Agree
  <2>4. leaderLog[T][c].term <= T
    BY <1>0, <2>1, LeaderLogTerms
  <2> QED BY <1>1, <2>2, <2>3, <2>4
<1>6. Agree(leaderLog[T], leaderLog[V], c)
  <2>1. Agree(leaderLog[T], leaderLog'[V], c)
    BY <1>4, AgreeFlip, Zenon
  <2> QED BY <1>5, <2>1, AgreeUngrown, Zenon
<1> QED BY <1>6, AgreeFlip, Zenon

(* Surviving up to a later term is surviving up to an earlier one.         *)
LEMMA SurvivesLess ==
    ASSUME NEW T, NEW c, NEW U \in Nat, NEW W \in Nat, W <= U, Survives(T, c, U)
    PROVE  Survives(T, c, W)
<1> SUFFICES ASSUME NEW V \in Term, T < V, V < W, leadersByTerm[V] # {}
             PROVE  Agree(leaderLog[V], leaderLog[T], c)
  BY Zenon DEF Survives
<1>1. V \in Nat
  BY TermsAreNat
<1>2. V < U
  BY <1>1
<1> QED BY <1>2, Zenon DEF Survives

(* What is stored lies within the log of its term, and whoever stored it   *)
(* has reached that term.                                                  *)
LEMMA StoredPast ==
    ASSUME TypeInv, LogInv, AcksBounded, RepliesPast,
           NEW j \in Node, NEW T \in Term, NEW c \in Nat, Stored(j, T, c)
    PROVE  T <= currentTerm[j] /\ c <= Len(leaderLog[T])
<1>1. CASE j \in leadersByTerm[T] /\ c <= Len(leaderLog[T])
  BY <1>1, Zenon DEF LogInv, WinsArePast
<1>2. ASSUME NEW m \in appendReplies, m.from = j, m.term = T, m.success, c <= m.conflictIndex
      PROVE  T <= currentTerm[j] /\ c <= Len(leaderLog[T])
  <2>1. m.conflictIndex \in Nat /\ leaderLog[T] \in Seq(Entry)
    BY Zenon DEF TypeInv, NetworkTypeOK, ObserverTypeOK, AppendEntriesReply
  <2>2. m.conflictIndex <= Len(leaderLog[T]) /\ T <= currentTerm[j]
    BY <1>2, Zenon DEF AcksBounded, RepliesPast
  <2>3. Len(leaderLog[T]) \in Nat
    BY <2>1, LenProperties
  <2> QED BY <1>2, <2>1, <2>2, <2>3
<1> QED BY <1>1, <1>2, Zenon DEF Stored

(* A leader's log that changes is the one of the node that moves.          *)
LEMMA ChangeIsMine ==
    ASSUME NEW i \in Node, Step(i), NEW T \in Term,
           leaderLog'[T] # leaderLog[T] \/ leadersByTerm'[T] # leadersByTerm[T]
    PROVE  T = currentTerm'[i] /\ log'[i] = leaderLog'[T] /\ leadersByTerm'[T] \subseteq leadersByTerm[T] \cup {i}
<1>0. /\ leaderLog \in [Term -> Seq(Entry)] /\ log \in [Node -> Seq(Entry)] /\ LogMove(i)
      /\ leadersByTerm \in [Term -> SUBSET Node]
  BY StepTypes, Zenon DEF Step
<1>1. CASE Wins(i)
  <2>1. /\ log' = log /\ leaderLog' = [leaderLog EXCEPT ![currentTerm'[i]] = log[i]]
        /\ leadersByTerm' = [leadersByTerm EXCEPT ![currentTerm'[i]] = @ \cup {i}]
    BY <1>1, Zenon DEF Wins
  <2> QED BY <1>0, <2>1, Zenon
<1>2. ASSUME NEW more, Extends(i, more)
      PROVE  T = currentTerm'[i] /\ log'[i] = leaderLog'[T] /\ leadersByTerm'[T] \subseteq leadersByTerm[T] \cup {i}
  <2>1. /\ log' = [log EXCEPT ![i] = log[i] \o more] /\ currentTerm'[i] = currentTerm[i]
        /\ leaderLog' = [leaderLog EXCEPT ![currentTerm[i]] = log[i] \o more] /\ leadersByTerm' = leadersByTerm
    BY <1>2, Zenon DEF Extends
  <2> QED BY <1>0, <2>1, Zenon
<1> QED BY <1>0, <1>1, <1>2, Zenon DEF LogMove, Still, Merges

(* What a step newly stores is of the node's present term, and in its log. *)
LEMMA StoredNew ==
    ASSUME NEW i \in Node, Step(i), NEW j \in Node, NEW T \in Term, NEW c \in Nat,
           Stored(j, T, c)', ~ Stored(j, T, c)
    PROVE  T = currentTerm'[j] /\ Agree(log'[j], leaderLog'[T], c)
<1>0. /\ TypeInv /\ TypeInv' /\ LogInv /\ ElectionSafety /\ Acks(i)
      /\ leaderLog[T] \in Seq(Entry) /\ leaderLog'[T] \in Seq(Entry)
      /\ log'[j] \in Seq(Entry) /\ leadersByTerm \in [Term -> SUBSET Node]
      /\ appendReplies' \subseteq AppendEntriesReply
  BY StepTypes, Zenon DEF Step, Known, TypeInv, NetworkTypeOK
<1>1. Len(leaderLog[T]) \in Nat /\ Len(leaderLog'[T]) \in Nat /\ Len(log'[j]) \in Nat
  BY <1>0, LenProperties
<1>2. CASE j \in leadersByTerm'[T] /\ c <= Len(leaderLog'[T])
  <2>1. T = currentTerm'[i] /\ log'[i] = leaderLog'[T] /\ leadersByTerm'[T] \subseteq leadersByTerm[T] \cup {i}
    <3>1. leaderLog'[T] # leaderLog[T] \/ leadersByTerm'[T] # leadersByTerm[T]
      BY <1>2, Zenon DEF Stored
    <3> QED BY <3>1, ChangeIsMine, Zenon
  <2>2. j = i
    <3>1. CASE j \in leadersByTerm[T]
      <4>1. ~ (c <= Len(leaderLog[T]))
        BY <3>1, Zenon DEF Stored
      <4>2. c \in 1..Len(leaderLog'[T]) /\ c > Len(leaderLog[T])
        BY <1>1, <1>2, <4>1
      <4>3. i \in leadersByTerm[T]
        BY <3>1, <4>2, NewEntriesOfTerm
      <4> QED BY <1>0, <3>1, <4>3, Zenon DEF ElectionSafety
    <3> QED BY <1>2, <2>1, <3>1
  <2> QED BY <1>0, <1>2, <2>1, <2>2, AgreeSelf
<1>3. ASSUME NEW r \in appendReplies', r.from = j, r.term = T, r.success, c <= r.conflictIndex
      PROVE  T = currentTerm'[j] /\ Agree(log'[j], leaderLog'[T], c)
  <2>1. r \notin appendReplies
    BY <1>3, Zenon DEF Stored
  <2>2. PICK m \in appends : /\ r.from = i /\ r.term = m.term /\ r.conflictIndex = ConfirmedThrough(m)
                             /\ Merges(i, m, Len(m.entries))
    BY <1>0, <1>3, <2>1, Zenon DEF Acks
  <2>3. j = i /\ T = currentTerm'[j] /\ m.term = T /\ leaderLog' = leaderLog
    BY <1>3, <2>2, Zenon DEF Merges
  <2>4. Agree(log'[i], leaderLog[m.term], ConfirmedThrough(m))
    BY <1>0, <2>2, MergeResult
  <2>5. Agree(log'[j], leaderLog'[T], r.conflictIndex) /\ r.conflictIndex \in Nat
    BY <1>0, <2>2, <2>3, <2>4, Zenon DEF AppendEntriesReply
  <2> QED BY <1>0, <1>3, <2>3, <2>5, AgreeShorter, Zenon
<1> QED BY <1>2, <1>3, Zenon DEF Stored

(* A log keeps what it shares with the log of T, unless it moves to a term *)
(* whose leader lacks that.                                                *)
LEMMA KeepsAgreement ==
    ASSUME NEW i \in Node, Step(i), NEW j \in Node, NEW T \in Term, NEW c \in Nat, NEW U \in Nat,
           T <= currentTerm[j], Agree(log[j], leaderLog[T], c),
           U > currentTerm'[j], Survives(T, c, U)
    PROVE  Agree(log'[j], leaderLog[T], c)
<1>0. /\ TypeInv /\ LogInv /\ LogMove(i) /\ LeadersInv /\ Own(i)
      /\ log \in [Node -> Seq(Entry)] /\ leaderLog[T] \in Seq(Entry)
  BY StepTypes, Zenon DEF Step, Known
<1>1. CASE log'[j] = log[j]
  BY <1>1
<1>2. ASSUME NEW more, Extends(i, more), j = i PROVE Agree(log'[j], leaderLog[T], c)
  <2>1. more \in Seq(Entry) /\ log'[i] = log[i] \o more /\ log[i] \in Seq(Entry)
    BY <1>0, <1>2, Zenon DEF Extends
  <2>2. Agree(log'[i], log[i], Len(log[i])) /\ log'[i] \in Seq(Entry)
    BY <2>1, Appended
  <2>3. c <= Len(log[i]) /\ Len(log[i]) \in Nat
    BY <1>2, <2>1, LenProperties DEF Agree
  <2>4. Agree(log'[i], log[i], c)
    BY <2>1, <2>2, <2>3, AgreeShorter, Zenon
  <2> QED BY <1>2, <2>4, AgreeChain, Zenon
<1>3. ASSUME NEW m, NEW n, Merges(i, m, n), j = i PROVE Agree(log'[j], leaderLog[T], c)
  <2>1. m \in appends /\ currentTerm'[i] = m.term /\ leadersByTerm[m.term] # {}
    BY <1>0, <1>3, Zenon DEF Merges, LeadersInv, SendersWon
  <2>2. m.term \in Term /\ \A k \in Nat : Agree(log[i], leaderLog[m.term], k) => Agree(log'[i], leaderLog[m.term], k)
    BY <1>0, <1>3, MergeResult
  <2>3. CASE m.term = T
    BY <1>3, <2>2, <2>3
  <2>4. CASE m.term # T
    <3>1. T < m.term /\ m.term < U
      BY <1>3, <2>1, <2>2, <2>4, TermsRise, TermsAreNat
    <3>2. Agree(leaderLog[m.term], leaderLog[T], c)
      BY <2>1, <2>2, <3>1, Zenon DEF Survives
    <3>3. Agree(log[i], leaderLog[m.term], c)
      BY <1>3, <3>2, AgreeFlip, AgreeChain, Zenon
    <3> QED BY <1>3, <2>2, <3>2, <3>3, AgreeChain, Zenon
  <2> QED BY <2>3, <2>4
<1>4. j # i => log'[j] = log[j]
  BY <1>0, Zenon DEF Own
<1> QED BY <1>0, <1>1, <1>2, <1>3, <1>4, Zenon DEF LogMove, Still, Wins

(* Acknowledged entries stay where they are.                               *)
LEMMA AcksKept ==
    ASSUME NEW i \in Node, Step(i), AckInv
    PROVE  AckInv'
<1>0. /\ TypeInv /\ LogInv /\ TypeInv' /\ AcksBounded /\ RepliesPast /\ AcksHeld
      /\ leaderLog \in [Term -> Seq(Entry)] /\ leaderLog' \in [Term -> Seq(Entry)]
      /\ log \in [Node -> Seq(Entry)] /\ Grown(leaderLog, leaderLog')
  BY StepTypes, Zenon DEF AckInv
<1>1. ASSUME NEW j \in Node, NEW T \in Term, NEW c \in Nat, Stored(j, T, c)'
      PROVE  T <= currentTerm'[j] /\ c <= Len(leaderLog'[T])
  <2>1. CASE Stored(j, T, c)
    <3>1. T <= currentTerm[j] /\ c <= Len(leaderLog[T])
      BY <1>0, <2>1, StoredPast, Zenon
    <3>2. Len(leaderLog[T]) <= Len(leaderLog'[T]) /\ Len(leaderLog[T]) \in Nat /\ Len(leaderLog'[T]) \in Nat /\ T \in Nat
      BY <1>0, LenProperties, TermsAreNat DEF Grown, Agree
    <3> QED BY <3>1, <3>2, TermsRise
  <2>2. CASE ~ Stored(j, T, c)
    <3>1. T = currentTerm'[j] /\ Agree(log'[j], leaderLog'[T], c)
      BY <1>1, <2>2, StoredNew, Zenon
    <3> QED BY <3>1, TermsRise DEF Agree
  <2> QED BY <2>1, <2>2
<1>2. AcksBounded' /\ RepliesPast'
  <2> SUFFICES ASSUME NEW r \in appendReplies', r.success
               PROVE  r.conflictIndex <= Len(leaderLog'[r.term]) /\ r.term <= currentTerm'[r.from]
    BY Zenon DEF AcksBounded, RepliesPast
  <2>1. r.from \in Node /\ r.term \in Term /\ r.conflictIndex \in Nat
    BY <1>0, Zenon DEF TypeInv, NetworkTypeOK, AppendEntriesReply
  <2>2. r.conflictIndex <= r.conflictIndex
    BY <2>1
  <2>3. Stored(r.from, r.term, r.conflictIndex)'
    BY <2>2, Zenon DEF Stored
  <2>4. PICK j, T, c : j = r.from /\ T = r.term /\ c = r.conflictIndex
    OBVIOUS
  <2>5. j \in Node /\ T \in Term /\ c \in Nat /\ Stored(j, T, c)'
    BY <2>1, <2>3, <2>4
  <2>6. T <= currentTerm'[j] /\ c <= Len(leaderLog'[T])
    BY <1>1, <2>5, Zenon
  <2> QED BY <2>4, <2>6, Zenon
<1>3. AcksHeld'
  <2> SUFFICES ASSUME NEW j \in Node, NEW T \in Term, NEW c \in Nat, NEW U \in Nat,
                      U > currentTerm'[j], Stored(j, T, c)', Survives(T, c, U)'
               PROVE  Agree(log'[j], leaderLog'[T], c)
    BY Zenon DEF AcksHeld
  <2>1. CASE Stored(j, T, c)
    <3>1. T <= currentTerm[j] /\ c <= Len(leaderLog[T])
      BY <1>0, <2>1, StoredPast, Zenon
    <3>2. Survives(T, c, U)
      BY <3>1, SurvivesBack, Zenon
    <3>3. U > currentTerm[j]
      BY TermsRise
    <3>4. Agree(log[j], leaderLog[T], c)
      BY <1>0, <2>1, <3>2, <3>3, Zenon DEF AcksHeld
    <3>5. Agree(log'[j], leaderLog[T], c)
      BY <3>1, <3>2, <3>4, KeepsAgreement, Zenon
    <3> QED BY <3>5, AgreeGrown, Zenon
  <2>2. CASE ~ Stored(j, T, c)
    BY <2>2, StoredNew, Zenon
  <2> QED BY <2>1, <2>2
<1> QED BY <1>2, <1>3 DEF AckInv

(* A candidate's ballot for itself.                                        *)
SelfBallot(b) == b.voter = b.candidate

UpToDate(a, b) == CandidateLogAtLeastAsUpToDate(LastTerm(a), Len(a), b)

(* A candidate still has the log it voted for itself with.                 *)
CandidateBallot ==
    \A i \in Node : role[i] = Candidate => OwnBallot(i, currentTerm[i], log[i]) \in ballots

(* A node stands once per term, with entries of earlier terms.             *)
SelfBallotsUnique ==
    \A a, b \in ballots :
        SelfBallot(a) /\ SelfBallot(b) /\ a.term = b.term /\ a.voter = b.voter => a = b
SelfBallotTerms ==
    \A b \in ballots : SelfBallot(b) => \A k \in 1..Len(b.log) : b.log[k].term < b.term

(* A request for votes describes the log its candidate stands with.        *)
RequestsTrue ==
    \A m \in requestVotes :
        /\ m.to # m.from
        /\ \E s \in ballots : /\ SelfBallot(s) /\ s.voter = m.from /\ s.term = m.term
                              /\ Len(s.log) = m.lastLogIndex /\ LastTerm(s.log) = m.lastLogTerm

(* Whoever votes finds the candidate's log up to date with its own.        *)
BallotsUpToDate ==
    \A b \in ballots : \E s \in ballots :
        SelfBallot(s) /\ s.voter = b.candidate /\ s.term = b.term /\ UpToDate(s.log, b.log)

BallotLogs == \A b \in ballots : FromLeaders(b.log, leaderLog)

BallotInv ==
    /\ CandidateBallot /\ SelfBallotsUnique /\ SelfBallotTerms
    /\ RequestsTrue /\ BallotsUpToDate /\ BallotLogs

(* The fields of a ballot for oneself.                                     *)
LEMMA OwnBallotFields ==
    ASSUME NEW i, NEW t, NEW lg, NEW s, s = OwnBallot(i, t, lg)
    PROVE  SelfBallot(s) /\ s.voter = i /\ s.candidate = i /\ s.term = t /\ s.log = lg
BY DEF OwnBallot, SelfBallot

(* A new ballot: cast in the node's new term with its log, for itself only *)
(* when the term is new, and for an up-to-date candidate.                  *)
LEMMA NewBallot ==
    ASSUME NEW i \in Node, Step(i), RequestsTrue, NEW b \in ballots', b \notin ballots
    PROVE  /\ log' = log /\ b.voter = i /\ b.log = log[i] /\ b.term = currentTerm'[i]
           /\ SelfBallot(b) => currentTerm'[i] > currentTerm[i]
           /\ \E s \in ballots' : /\ SelfBallot(s) /\ s.voter = b.candidate /\ s.term = b.term
                                  /\ UpToDate(s.log, b.log)
<1>0. Casts(i) /\ log[i] \in Seq(Entry) /\ ballots \subseteq ballots'
  BY StepTypes, Zenon DEF Step, Casts
<1>1. /\ log' = log /\ b.voter = i /\ b.log = log[i] /\ b.term = currentTerm'[i]
      /\ \/ b.candidate = i /\ currentTerm'[i] > currentTerm[i]
         \/ \E m \in requestVotes :
               /\ m.to = i /\ m.from = b.candidate /\ m.term = b.term
               /\ CandidateLogAtLeastAsUpToDate(m.lastLogTerm, m.lastLogIndex, log[i])
  BY <1>0, Zenon DEF Casts
<1>2. CASE b.candidate = i /\ currentTerm'[i] > currentTerm[i]
  <2>1. UpToDate(b.log, b.log)
    BY <1>0, <1>1, LenProperties DEF UpToDate, CandidateLogAtLeastAsUpToDate
  <2> QED BY <1>1, <1>2, <2>1, Zenon DEF SelfBallot
<1>3. ASSUME NEW m \in requestVotes, m.to = i, m.from = b.candidate, m.term = b.term,
             CandidateLogAtLeastAsUpToDate(m.lastLogTerm, m.lastLogIndex, log[i])
      PROVE  /\ ~ SelfBallot(b)
             /\ \E s \in ballots' : /\ SelfBallot(s) /\ s.voter = b.candidate /\ s.term = b.term
                                    /\ UpToDate(s.log, b.log)
  <2>1. PICK s \in ballots : /\ SelfBallot(s) /\ s.voter = m.from /\ s.term = m.term
                             /\ Len(s.log) = m.lastLogIndex /\ LastTerm(s.log) = m.lastLogTerm
    BY Zenon DEF RequestsTrue
  <2>2. m.to # m.from
    BY Zenon DEF RequestsTrue
  <2>3. UpToDate(s.log, b.log)
    BY <1>1, <1>3, <2>1, Zenon DEF UpToDate
  <2>4. ~ SelfBallot(b)
    BY <1>1, <1>3, <2>2, Zenon DEF SelfBallot
  <2> QED BY <1>0, <1>3, <2>1, <2>3, <2>4, Zenon
<1> QED BY <1>1, <1>2, <1>3, Zenon

(* The facts about ballots are kept.                                       *)
LEMMA BallotsKept ==
    ASSUME NEW i \in Node, Step(i), BallotsHonoured, BallotInv
    PROVE  BallotInv'
<1>0. /\ Casts(i) /\ LogMove(i) /\ Own(i) /\ TypeInv /\ TypeInv' /\ LogInv
      /\ CandidateBallot /\ SelfBallotsUnique /\ SelfBallotTerms
      /\ RequestsTrue /\ BallotsUpToDate /\ BallotLogs
      /\ ballots \subseteq ballots' /\ requestVotes \subseteq requestVotes'
      /\ log[i] \in Seq(Entry) /\ Grown(leaderLog, leaderLog')
      /\ leaderLog \in [Term -> Seq(Entry)] /\ leaderLog' \in [Term -> Seq(Entry)]
  BY StepTypes, Zenon DEF Step, Casts, BallotInv
<1>n. ASSUME NEW b \in ballots', b \notin ballots
      PROVE  /\ log' = log /\ b.voter = i /\ b.log = log[i] /\ b.term = currentTerm'[i]
             /\ SelfBallot(b) => currentTerm'[i] > currentTerm[i]
             /\ \E s \in ballots' : /\ SelfBallot(s) /\ s.voter = b.candidate /\ s.term = b.term
                                    /\ UpToDate(s.log, b.log)
  BY <1>0, <1>n, NewBallot, Zenon
<1>1. CandidateBallot'
  <2> SUFFICES ASSUME NEW j \in Node, role'[j] = Candidate
               PROVE  OwnBallot(j, currentTerm'[j], log'[j]) \in ballots'
    BY Zenon DEF CandidateBallot
  <2>1. CASE role[j] = Candidate /\ currentTerm'[j] = currentTerm[j] /\ log'[j] = log[j]
    BY <1>0, <2>1, Zenon DEF CandidateBallot
  <2>2. j # i => role[j] = Candidate /\ currentTerm'[j] = currentTerm[j] /\ log'[j] = log[j]
    BY <1>0, Zenon DEF Own
  <2>3. Candidate # Leader /\ Candidate # Follower
    BY DEF Candidate, Leader, Follower
  <2>4. j = i => \/ role[j] = Candidate /\ currentTerm'[j] = currentTerm[j] /\ log'[j] = log[j]
                 \/ currentTerm'[i] > currentTerm[i]
    BY <1>0, <2>3, Zenon DEF LogMove, Still, Wins, Extends, Merges
  <2> QED BY <1>0, <2>1, <2>2, <2>3, <2>4, Zenon DEF Casts
<1>2. ASSUME NEW b \in ballots', b \notin ballots, SelfBallot(b)
      PROVE  \A a \in ballots : ~ (a.term = b.term /\ a.voter = b.voter)
  <2> SUFFICES ASSUME NEW a \in ballots, a.term = b.term, a.voter = b.voter PROVE FALSE
    OBVIOUS
  <2>1. a.term <= currentTerm[i]
    BY <1>n, <1>2, Zenon DEF BallotsHonoured
  <2>2. a.term = currentTerm'[i] /\ currentTerm'[i] > currentTerm[i]
    BY <1>n, <1>2, Zenon
  <2> QED BY <2>1, <2>2, TermsRise
<1>3. SelfBallotsUnique'
  <2> SUFFICES ASSUME NEW a \in ballots', NEW b \in ballots', SelfBallot(a), SelfBallot(b),
                      a.term = b.term, a.voter = b.voter
               PROVE  a = b
    BY Zenon DEF SelfBallotsUnique, SelfBallot
  <2>1. CASE a \in ballots /\ b \in ballots
    BY <1>0, <2>1, Zenon DEF SelfBallotsUnique
  <2>2. CASE a \notin ballots /\ b \notin ballots
    <3>1. a.log = b.log /\ a.candidate = b.candidate
      BY <1>n, <2>2, Zenon DEF SelfBallot
    <3>2. \A x \in {a, b} : x \in [term : Term, voter : Node, candidate : Node, log : Seq(Entry)]
      BY <1>0, Zenon DEF TypeInv, ObserverTypeOK
    <3> QED BY <3>1, <3>2
  <2> QED BY <1>2, <2>1, <2>2, Zenon
<1>4. SelfBallotTerms'
  <2> SUFFICES ASSUME NEW b \in ballots', SelfBallot(b), NEW k \in 1..Len(b.log)
               PROVE  b.log[k].term < b.term
    BY Zenon DEF SelfBallotTerms, SelfBallot
  <2>1. CASE b \in ballots
    BY <1>0, <2>1, Zenon DEF SelfBallotTerms
  <2>2. CASE b \notin ballots
    <3>1. b.log = log[i] /\ b.term = currentTerm'[i] /\ currentTerm'[i] > currentTerm[i]
      BY <1>n, <2>2, Zenon
    <3>2. log[i][k].term <= currentTerm[i]
      BY <1>0, <3>1, Zenon DEF LogInv, LogsFromLeaders, TermsUpTo
    <3>3. log[i][k].term \in Nat
      BY <1>0, <3>1, EntryTypes
    <3> QED BY <3>1, <3>2, <3>3, TermsRise
  <2> QED BY <2>1, <2>2
<1>5. RequestsTrue'
  <2> SUFFICES ASSUME NEW m \in requestVotes'
               PROVE  /\ m.to # m.from
                      /\ \E s \in ballots' : /\ SelfBallot(s) /\ s.voter = m.from /\ s.term = m.term
                                             /\ Len(s.log) = m.lastLogIndex
                                             /\ LastTerm(s.log) = m.lastLogTerm
    BY Zenon DEF RequestsTrue, SelfBallot
  <2>1. CASE m \in requestVotes
    BY <1>0, <2>1, Zenon DEF RequestsTrue
  <2>2. CASE m \notin requestVotes
    <3>1. /\ m.from = i /\ m.to # i /\ OwnBallot(i, m.term, log[i]) \in ballots'
          /\ m.lastLogIndex = Len(log[i]) /\ m.lastLogTerm = LastTerm(log[i])
      BY <1>0, <2>2, Zenon DEF Casts
    <3>2. PICK s : s = OwnBallot(i, m.term, log[i])
      OBVIOUS
    <3>3. SelfBallot(s) /\ s.voter = i /\ s.term = m.term /\ s.log = log[i]
      BY <3>2, OwnBallotFields
    <3> QED BY <3>1, <3>2, <3>3, Zenon
  <2> QED BY <2>1, <2>2
<1>6. BallotsUpToDate'
  <2> SUFFICES ASSUME NEW b \in ballots'
               PROVE  \E s \in ballots' : /\ SelfBallot(s) /\ s.voter = b.candidate /\ s.term = b.term
                                          /\ UpToDate(s.log, b.log)
    BY Zenon DEF BallotsUpToDate, SelfBallot, UpToDate, CandidateLogAtLeastAsUpToDate
  <2> QED BY <1>0, <1>n, Zenon DEF BallotsUpToDate
<1>7. BallotLogs'
  <2> SUFFICES ASSUME NEW b \in ballots' PROVE FromLeaders(b.log, leaderLog')
    BY Zenon DEF BallotLogs
  <2>1. b.log \in Seq(Entry)
    BY <1>0, Zenon DEF TypeInv, ObserverTypeOK
  <2>2. FromLeaders(b.log, leaderLog)
    BY <1>0, <1>n, Zenon DEF BallotLogs, LogInv, LogsFromLeaders
  <2> QED BY <1>0, <2>1, <2>2, GrownFromLeaders, Zenon
<1> QED BY <1>1, <1>3, <1>4, <1>5, <1>6, <1>7, Zenon DEF BallotInv

(* What the voter of ballot b had stored for an earlier term is in the log *)
(* it voted with, unless a leader before the ballot's term lacks it.       *)
Good(b) ==
    \A T \in Term : \A c \in Nat :
        T < b.term /\ Stored(b.voter, T, c) /\ Survives(T, c, b.term) => Agree(b.log, leaderLog[T], c)

(* The ballots of a term nobody has won are good; those that won a term    *)
(* were, and its log began as the one the winner stood with.               *)
BallotsGood == \A b \in ballots : leadersByTerm[b.term] = {} => Good(b)
GoodVote(v, w, U) ==
    \E b \in ballots : b.term = U /\ b.voter = v /\ b.candidate = w /\ Good(b)
WinsGood ==
    \A U \in Term : \A w \in leadersByTerm[U] :
        /\ \E s \in ballots : /\ SelfBallot(s) /\ s.voter = w /\ s.term = U
                              /\ Agree(s.log, leaderLog[U], Len(s.log))
        /\ \E Q \in SUBSET Node :
              /\ Cardinality(Q) >= Majority
              /\ \A v \in Q : GoodVote(v, w, U)

(* A good ballot stays good.                                               *)
LEMMA GoodStays ==
    ASSUME NEW i \in Node, Step(i), AckInv, BallotsHonoured, NEW b \in ballots, Good(b)
    PROVE  Good(b)'
<1>0. TypeInv /\ LogInv /\ AcksBounded /\ RepliesPast
  BY StepTypes, Zenon DEF AckInv
<1>1. b.term \in Nat /\ b.voter \in Node /\ b.term <= currentTerm[b.voter]
  BY <1>0, BallotTypes, Zenon DEF BallotsHonoured
<1> SUFFICES ASSUME NEW T \in Term, NEW c \in Nat, T < b.term,
                    Stored(b.voter, T, c)', Survives(T, c, b.term)'
             PROVE  Agree(b.log, leaderLog'[T], c)
  BY Zenon DEF Good
<1>2. CASE Stored(b.voter, T, c)
  <2>1. c <= Len(leaderLog[T])
    BY <1>0, <1>1, <1>2, StoredPast, Zenon
  <2>2. Survives(T, c, b.term)
    BY <1>1, <2>1, SurvivesBack, Zenon
  <2>3. Agree(b.log, leaderLog[T], c)
    BY <1>2, <2>2, Zenon DEF Good
  <2> QED BY <2>3, AgreeGrown, Zenon
<1>3. CASE ~ Stored(b.voter, T, c)
  <2>1. T = currentTerm'[b.voter]
    BY <1>1, <1>3, StoredNew, Zenon
  <2> QED BY <1>1, <2>1, TermsRise
<1> QED BY <1>2, <1>3

(* A ballot cast in a term nobody has won is good.                         *)
LEMMA NewBallotGood ==
    ASSUME NEW i \in Node, Step(i), AckInv, RequestsTrue,
           NEW b \in ballots', b \notin ballots, leadersByTerm[b.term] = {}
    PROVE  Good(b)'
<1>0. TypeInv /\ LogInv /\ AcksBounded /\ RepliesPast /\ AcksHeld
  BY StepTypes, Zenon DEF AckInv
<1>1. b.voter = i /\ b.log = log[i] /\ b.term = currentTerm'[i]
  BY NewBallot, Zenon
<1>2. currentTerm[i] \in Nat /\ currentTerm'[i] \in Nat /\ currentTerm[i] <= currentTerm'[i]
  BY TermsRise
<1> SUFFICES ASSUME NEW T \in Term, NEW c \in Nat, T < b.term,
                    Stored(b.voter, T, c)', Survives(T, c, b.term)'
             PROVE  Agree(b.log, leaderLog'[T], c)
  BY Zenon DEF Good
<1>3. T \in Nat /\ T # currentTerm'[i]
  BY <1>1, <1>2, TermsAreNat
<1>4. Stored(i, T, c)
  BY <1>1, <1>3, StoredNew, Zenon
<1>5. c <= Len(leaderLog[T])
  BY <1>0, <1>4, StoredPast, Zenon
<1>6. Survives(T, c, b.term) /\ b.term \in Nat
  BY <1>1, <1>2, <1>5, SurvivesBack, Zenon
<1>7. PICK U \in Nat : U = b.term + 1
  BY <1>6
<1>8. Survives(T, c, U)
  <2> SUFFICES ASSUME NEW V \in Term, T < V, V < U, leadersByTerm[V] # {}
               PROVE  Agree(leaderLog[V], leaderLog[T], c)
    BY Zenon DEF Survives
  <2>1. V < b.term
    <3>1. V # b.term
      OBVIOUS
    <3> QED BY <1>6, <1>7, <3>1, TermsAreNat
  <2> QED BY <1>6, <2>1, Zenon DEF Survives
<1>9. U > currentTerm[i]
  BY <1>1, <1>2, <1>7
<1>10. Agree(log[i], leaderLog[T], c)
  BY <1>0, <1>4, <1>8, <1>9, Zenon DEF AcksHeld
<1> QED BY <1>1, <1>10, AgreeGrown, Zenon

(* Good ballots, before and after a win.                                   *)
LEMMA GoodKept ==
    ASSUME NEW i \in Node, Step(i), AckInv, BallotInv, BallotsHonoured, WinsHaveMajority',
           BallotsGood, WinsGood
    PROVE  BallotsGood' /\ WinsGood'
<1>0. /\ TypeInv /\ TypeInv' /\ LogInv /\ ElectionSafety' /\ RequestsTrue /\ CandidateBallot
      /\ LogMove(i) /\ Casts(i) /\ ballots \subseteq ballots'
      /\ leadersByTerm \in [Term -> SUBSET Node] /\ leaderLog \in [Term -> Seq(Entry)]
      /\ log[i] \in Seq(Entry) /\ Len(log[i]) \in Nat
      /\ \A t \in Term : leadersByTerm[t] \subseteq leadersByTerm'[t]
  BY StepTypes, NodeTypes, Zenon DEF Step, Known, Casts, BallotInv
<1>1. ASSUME NEW b \in ballots', leadersByTerm[b.term] = {} PROVE Good(b)'
  <2>1. CASE b \in ballots
    BY <1>1, <2>1, GoodStays, Zenon DEF BallotsGood
  <2> QED BY <1>0, <1>1, <2>1, NewBallotGood, Zenon
<1>2. BallotsGood'
  <2> SUFFICES ASSUME NEW b \in ballots', leadersByTerm'[b.term] = {} PROVE Good(b)'
    BY Zenon DEF BallotsGood
  <2>1. b.term \in Term
    BY <1>0, Zenon DEF TypeInv, ObserverTypeOK
  <2>2. leadersByTerm[b.term] = {}
    BY <1>0, <2>1
  <2> QED BY <1>1, <2>2, Zenon
<1>3. ASSUME NEW U \in Term, NEW w \in leadersByTerm'[U]
      PROVE  /\ \E s \in ballots' : /\ SelfBallot(s) /\ s.voter = w /\ s.term = U
                                    /\ Agree(s.log, leaderLog'[U], Len(s.log))
             /\ \E Q \in SUBSET Node :
                   /\ Cardinality(Q) >= Majority
                   /\ \A v \in Q : GoodVote(v, w, U)'
  <2>1. CASE w \in leadersByTerm[U]
    <3>1. PICK s \in ballots : /\ SelfBallot(s) /\ s.voter = w /\ s.term = U
                               /\ Agree(s.log, leaderLog[U], Len(s.log))
      BY <2>1, Zenon DEF WinsGood
    <3>2. s.log \in Seq(Entry)
      BY <1>0, BallotTypes
    <3>3. Agree(s.log, leaderLog'[U], Len(s.log))
      BY <3>1, <3>2, LenProperties, AgreeGrown
    <3>4. PICK Q \in SUBSET Node :
             /\ Cardinality(Q) >= Majority
             /\ \A v \in Q : GoodVote(v, w, U)
      BY <2>1, Zenon DEF WinsGood
    <3>5. \A b \in ballots : Good(b) => Good(b)'
      BY GoodStays, Zenon
    <3>6. \A v \in Q : GoodVote(v, w, U)'
      BY <1>0, <3>4, <3>5, Zenon DEF GoodVote
    <3> QED BY <1>0, <3>1, <3>3, <3>4, <3>6, Zenon
  <2>2. CASE w \notin leadersByTerm[U]
    <3>1. Wins(i)
      BY <1>3, <2>2, Zenon, <1>0 DEF LogMove, Still, Extends, Merges
    <3>2. /\ U = currentTerm'[i] /\ w = i /\ leaderLog'[U] = log[i]
      BY <1>0, <1>3, <2>2, <3>1, Zenon DEF Wins
    <3>3. leadersByTerm[U] = {}
      BY <1>0, <3>1, <3>2, WinIsFresh
    <3>4. OwnBallot(i, U, log[i]) \in ballots'
      <4>1. CASE currentTerm'[i] > currentTerm[i]
        <5>1. role'[i] # Follower
          BY <3>1 DEF Wins, Follower, Leader
        <5> QED BY <1>0, <3>2, <4>1, <5>1, Zenon DEF Casts
      <4> QED BY <1>0, <3>1, <3>2, <4>1, Zenon DEF Wins, CandidateBallot
    <3>5. PICK s : s = OwnBallot(i, U, log[i])
      OBVIOUS
    <3>6. SelfBallot(s) /\ s.voter = i /\ s.term = U /\ s.log = log[i] /\ s \in ballots'
      BY <3>4, <3>5, OwnBallotFields
    <3>7. Agree(s.log, leaderLog'[U], Len(s.log))
      BY <1>0, <3>2, <3>6, AgreeSelf
    <3>8. PICK Q \in SUBSET Node :
             /\ Cardinality(Q) >= Majority
             /\ \A v \in Q : \E b \in ballots' : b.term = U /\ b.voter = v /\ b.candidate = w
      <4>1. PICK Q \in SUBSET Node :
               Cardinality(Q) >= Majority /\ \A v \in Q : Voted(ballots', U, v, w)
        BY <1>3 DEF WinsHaveMajority
      <4> QED BY <4>1, Zenon DEF Voted
    <3>9. \A v \in Q : GoodVote(v, w, U)'
      BY <1>1, <3>3, <3>8, Zenon DEF GoodVote
    <3> QED BY <3>2, <3>6, <3>7, <3>8, <3>9, Zenon
  <2> QED BY <2>1, <2>2
<1>4. WinsGood'
  BY <1>3, Zenon DEF WinsGood, SelfBallot
<1> QED BY <1>2, <1>4
=============================================================================
