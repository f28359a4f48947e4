------------------------------ MODULE RaftCore ------------------------------
(***************************************************************************)
(* The consensus core of the cluster: RaftCore (src/raft/raft_core.cpp)    *)
(* running on every node, the persistent state it keeps across crashes     *)
(* (PersistentState and RaftLog), and the network between the cores.       *)
(*                                                                         *)
(* Every handler of the core runs to completion on one thread, so one      *)
(* handler is one action.  The network is four growing sets of messages,   *)
(* one per message type: a message that was sent may be delivered at any   *)
(* later time, any number of times, or never.  Time is abstracted to       *)
(* whether a timer is armed; an armed timer may fire at any moment.  A     *)
(* crash and the restart that follows it are one action (a node that is    *)
(* down takes no step); three more crash a node in the middle of a         *)
(* handler, between two durable writes.                                    *)
(*                                                                         *)
(* leadersByTerm, leaderLog, committed and ballots observe the execution   *)
(* and never influence it: they are the records the continuous checkers of *)
(* faults/checkers.cpp keep, and the votes the nodes cast.                 *)
(***************************************************************************)
EXTENDS Integers, Sequences, FiniteSets, FiniteSetsExt

CONSTANTS
    Node,       \* the node ids of the cluster
    NoNode,     \* an empty std::optional<NodeId>
    Command,    \* the opaque commands clients propose
    ApplySink,  \* TRUE: committed entries go to an apply sink that may refuse
    MaxTerm,    \* bound: no election starts beyond this term
    MaxElections, \* bound: elections started, over all nodes
    MaxCrashes, \* bound: crashes, over all nodes
    MaxLogLen,  \* bound: no proposal grows a log beyond this length
    MaxBatch    \* bound: commands in one proposeBatch

ASSUME NodeAssumption == IsFiniteSet(Node) /\ Node # {} /\ NoNode \notin Node
ASSUME BoundAssumption ==
    /\ MaxTerm \in Nat
    /\ MaxElections \in Nat
    /\ MaxCrashes \in Nat
    /\ MaxLogLen \in Nat
    /\ MaxBatch \in Nat \ {0}
    /\ ApplySink \in BOOLEAN

VARIABLES
    \* on stable storage
    currentTerm, votedFor, log,
    \* volatile
    role, leaderId, votesFrom, electionTimer, heartbeatTimer,
    nextIndex, matchIndex, commitIndex, applied,
    \* the network
    requestVotes, voteReplies, appends, appendReplies,
    \* observers
    leadersByTerm, leaderLog, committed, flaggedWins, ballots, crashes

persistent == <<currentTerm, votedFor, log>>
roleVars   == <<role, leaderId, votesFrom>>
timers     == <<electionTimer, heartbeatTimer>>
leaderVars == <<nextIndex, matchIndex>>
commitVars == <<commitIndex, applied>>
network    == <<requestVotes, voteReplies, appends, appendReplies>>
observers  == <<leadersByTerm, leaderLog, committed, flaggedWins, ballots>>
vars == <<persistent, roleVars, timers, leaderVars, commitVars, network, observers, crashes>>

Follower  == "Follower"
Candidate == "Candidate"
Leader    == "Leader"

\* A deadline is TimePoint::max() ("off") or some point in time ("armed").
Armed == "armed"
Off   == "off"

Term  == 0..MaxTerm
Entry == [term : Term, cmd : Command]

\* What one proposeBatch may carry.
Batch == UNION {[1..n -> Command] : n \in 1..MaxBatch}

Peers(i) == Node \ {i}

(* Mutant: half of the cluster is enough.                                  *)
HalfIsMajority == Cardinality(Node) \div 2

Majority == Cardinality(Node) \div 2 + 1

-----------------------------------------------------------------------------
(* The log as the core reads it: indices start at 1, and the term at 0, or *)
(* (in release builds) beyond the end, is 0.                               *)

TermAt(lg, k) == IF k \in 1..Len(lg) THEN lg[k].term ELSE 0

EntriesFrom(lg, k) == IF k < 1 THEN lg ELSE SubSeq(lg, k, Len(lg))

LastTerm(lg) == TermAt(lg, Len(lg))

(* Mutant: any candidate's log will do.                                    *)
AnyLogIsUpToDate(candLastTerm, candLastIndex, lg) == TRUE

CandidateLogAtLeastAsUpToDate(candLastTerm, candLastIndex, lg) ==
    \/ candLastTerm > LastTerm(lg)
    \/ candLastTerm = LastTerm(lg) /\ candLastIndex >= Len(lg)

Holds(lg, k, e) == k <= Len(lg) /\ lg[k] = e

(* First index of the run of entries that share the term of entry k.       *)
FirstOfTerm(lg, k) ==
    Min({k} \cup {f \in 1..k : \A q \in f..k : lg[q].term = lg[k].term})

(* Last index holding an entry of term t; 0 if there is none.              *)
LastOfTerm(lg, t) == Max({0} \cup {k \in 1..Len(lg) : lg[k].term = t})

(* Mutant: an index the log reaches counts as present, whatever its term.  *)
PresentByIndex(lg, m) ==
    Max({k \in 0..Len(m.entries) : m.prevLogIndex + k <= Len(lg)})

(* How many leading entries of an AppendEntries the log already holds at   *)
(* the same index and term.                                                *)
PresentCount(lg, m) ==
    Max({k \in 0..Len(m.entries) :
            \A q \in 1..k : /\ m.prevLogIndex + q <= Len(lg)
                            /\ lg[m.prevLogIndex + q].term = m.entries[q].term})

(* The log after the walk over an accepted AppendEntries of which only the *)
(* first n entries reached the disk: skip what is present, cut at the      *)
(* first conflict, append the rest.  A request whose entries are all       *)
(* present cuts nothing, whatever the log holds beyond them.               *)
MergedLog(lg, m, n) ==
    LET present == PresentCount(lg, m)
    IN  IF present = Len(m.entries)
        THEN lg
        ELSE SubSeq(lg, 1, m.prevLogIndex + present)
                \o SubSeq(m.entries, present + 1, n)

ConfirmedThrough(m) == m.prevLogIndex + Len(m.entries)

-----------------------------------------------------------------------------
(* The four messages between cores, and those the core builds.  "from" and *)
(* "to" are the envelope's.                                                *)

RequestVote == [term : Term, from : Node, to : Node, lastLogIndex : Nat, lastLogTerm : Term]
RequestVoteReply == [term : Term, from : Node, to : Node, granted : BOOLEAN]
AppendEntries == [term : Term, from : Node, to : Node, prevLogIndex : Nat,
                  prevLogTerm : Term, entries : Seq(Entry), leaderCommit : Nat]
AppendEntriesReply == [term : Term, from : Node, to : Node, success : BOOLEAN,
                       conflictIndex : Nat, conflictTerm : Term]

AppendEntriesTo(i, j, term, lg, next, commit) ==
    [term |-> term, from |-> i, to |-> j,
     prevLogIndex |-> next - 1,
     prevLogTerm  |-> TermAt(lg, next - 1),
     entries      |-> EntriesFrom(lg, next),
     leaderCommit |-> commit]

AppendReply(i, m, term, success, conflictIndex, conflictTerm) ==
    [term |-> term, from |-> i, to |-> m.from, success |-> success,
     conflictIndex |-> conflictIndex, conflictTerm |-> conflictTerm]

-----------------------------------------------------------------------------
(* The universal term rule: what becomeFollower makes of node i when a     *)
(* message of term t arrives, before the message's own handler runs.       *)

NewTerm(i, t) == t > currentTerm[i]

(* Mutants: the vote is cleared by any message of the current term; the    *)
(* old leader's name survives the term.                                    *)
VoteForgotten(i, t)   == IF t >= currentTerm[i] THEN NoNode ELSE votedFor[i]
LeaderKept(i, t)      == leaderId[i]

TermAfter(i, t)   == IF NewTerm(i, t) THEN t ELSE currentTerm[i]
VoteAfter(i, t)   == IF NewTerm(i, t) THEN NoNode ELSE votedFor[i]
LeaderAfter(i, t) == IF NewTerm(i, t) THEN NoNode ELSE leaderId[i]
RoleAfter(i, t)   == IF NewTerm(i, t) THEN Follower ELSE role[i]

ElectionTimerAfter(i, t) ==
    IF NewTerm(i, t) /\ role[i] = Leader THEN Armed ELSE electionTimer[i]
HeartbeatTimerAfter(i, t) ==
    IF NewTerm(i, t) /\ role[i] = Leader THEN Off ELSE heartbeatTimer[i]

-----------------------------------------------------------------------------
(* Commit and apply.                                                       *)

(* Mutants of advanceCommit: entries of earlier terms are counted too; a   *)
(* match one short of the entry is enough; a bare majority is not.         *)
CommittableAnyTerm(i, lg, match) ==
    {n \in commitIndex[i] + 1 .. Len(lg) :
        Cardinality({i} \cup {p \in Peers(i) : match[p] >= n}) >= Majority}
CommittableOneShort(i, lg, match) ==
    {n \in commitIndex[i] + 1 .. Len(lg) :
        /\ \A q \in n..Len(lg) : lg[q].term = currentTerm[i]
        /\ Cardinality({i} \cup {p \in Peers(i) : match[p] >= n - 1}) >= Majority}
CommittableStrict(i, lg, match) ==
    {n \in commitIndex[i] + 1 .. Len(lg) :
        /\ \A q \in n..Len(lg) : lg[q].term = currentTerm[i]
        /\ Cardinality({i} \cup {p \in Peers(i) : match[p] >= n}) > Majority}

(* The scan of advanceCommit runs down from the end of the log and stops   *)
(* at the first entry of another term.                                     *)
Committable(i, lg, match) ==
    {n \in commitIndex[i] + 1 .. Len(lg) :
        /\ \A q \in n..Len(lg) : lg[q].term = currentTerm[i]
        /\ Cardinality({i} \cup {p \in Peers(i) : match[p] >= n}) >= Majority}

AdvanceCommit(i, lg, match) == Max({commitIndex[i]} \cup Committable(i, lg, match))

(* Mutant: lastApplied moves past an entry the sink refused.               *)
ApplySkipsRefused(i, lg, c) ==
    {applied[i] \o SubSeq(lg, s + 1, n) : s \in {Len(applied[i]), Len(applied[i]) + 1},
                                          n \in Len(applied[i])..c}

(* applyCommitted for the new commit index c: the inline state machine     *)
(* takes every entry; a sink may refuse one, which ends the hand-off.      *)
ApplyCommitted(i, lg, c) ==
    {applied[i] \o SubSeq(lg, Len(applied[i]) + 1, n) :
        n \in IF ApplySink THEN Len(applied[i])..c ELSE {c}}

(* observeCommit: the global record grows by what node i newly vouches     *)
(* for; "at" is the term in which the entry was first seen committed.      *)
ObserveCommit(lg, c, t) ==
    committed \o [k \in 1..(c - Len(committed)) |->
                    [entry |-> lg[Len(committed) + k], at |-> t]]

(* observeElectionWin: a win is flagged unless the winner's log holds the  *)
(* entire record.                                                          *)
ObserveElectionWin(i, t) ==
    IF \A k \in 1..Len(committed) : Holds(log[i], k, committed[k].entry)
    THEN flaggedWins
    ELSE flaggedWins \cup {t}

(* Node i's commit index becomes c, with log lg and in term t.             *)
Commit(i, lg, c, t) ==
    /\ commitIndex' = [commitIndex EXCEPT ![i] = c]
    /\ \E a \in IF c = commitIndex[i] THEN {applied[i]} ELSE ApplyCommitted(i, lg, c) :
          applied' = [applied EXCEPT ![i] = a]
    /\ committed' = IF c > Len(committed) THEN ObserveCommit(lg, c, t) ELSE committed

-----------------------------------------------------------------------------
Init ==
    /\ currentTerm = [i \in Node |-> 0]
    /\ votedFor = [i \in Node |-> NoNode]
    /\ log = [i \in Node |-> <<>>]
    /\ role = [i \in Node |-> Follower]
    /\ leaderId = [i \in Node |-> NoNode]
    /\ votesFrom = [i \in Node |-> {}]
    /\ electionTimer = [i \in Node |-> Armed]
    /\ heartbeatTimer = [i \in Node |-> Off]
    /\ nextIndex = [i \in Node |-> [j \in Node |-> 1]]
    /\ matchIndex = [i \in Node |-> [j \in Node |-> 0]]
    /\ commitIndex = [i \in Node |-> 0]
    /\ applied = [i \in Node |-> <<>>]
    /\ requestVotes = {} /\ voteReplies = {} /\ appends = {} /\ appendReplies = {}
    /\ leadersByTerm = [t \in Term |-> {}]
    /\ leaderLog = [t \in Term |-> <<>>]
    /\ committed = <<>>
    /\ flaggedWins = {}
    /\ ballots = {}
    /\ crashes = 0

ElectionsStarted == Cardinality({b \in ballots : b.voter = b.candidate})

(* becomeLeader of node i in term t, with its first round of heartbeats.   *)
BecomeLeader(i, t) ==
    /\ role' = [role EXCEPT ![i] = Leader]
    /\ leaderId' = [leaderId EXCEPT ![i] = i]
    /\ nextIndex' = [nextIndex EXCEPT ![i] = [j \in Node |-> Len(log[i]) + 1]]
    /\ matchIndex' = [matchIndex EXCEPT ![i] = [j \in Node |-> 0]]
    /\ electionTimer' = [electionTimer EXCEPT ![i] = Off]
    /\ heartbeatTimer' = [heartbeatTimer EXCEPT ![i] = Armed]
    /\ appends' = appends \cup
          {AppendEntriesTo(i, j, t, log[i], Len(log[i]) + 1, commitIndex[i]) : j \in Peers(i)}
    /\ leadersByTerm' = [leadersByTerm EXCEPT ![t] = @ \cup {i}]
    /\ leaderLog' = [leaderLog EXCEPT ![t] = log[i]]
    /\ flaggedWins' = ObserveElectionWin(i, t)

(* tick() with the election deadline passed: startElection.                *)
StartElection(i) ==
    LET t == currentTerm[i] + 1
    IN  /\ role[i] # Leader /\ electionTimer[i] = Armed
        /\ t <= MaxTerm /\ ElectionsStarted < MaxElections
        /\ currentTerm' = [currentTerm EXCEPT ![i] = t]
        /\ votedFor' = [votedFor EXCEPT ![i] = i]
        /\ votesFrom' = [votesFrom EXCEPT ![i] = {i}]
        /\ requestVotes' = requestVotes \cup
              {[term |-> t, from |-> i, to |-> j, lastLogIndex |-> Len(log[i]),
                lastLogTerm |-> LastTerm(log[i])] : j \in Peers(i)}
        /\ ballots' = ballots \cup {[term |-> t, voter |-> i, candidate |-> i, log |-> log[i]]}
        /\ IF Cardinality({i}) >= Majority
           THEN BecomeLeader(i, t)
           ELSE /\ role' = [role EXCEPT ![i] = Candidate]
                /\ leaderId' = [leaderId EXCEPT ![i] = NoNode]
                /\ electionTimer' = [electionTimer EXCEPT ![i] = Armed]
                /\ heartbeatTimer' = [heartbeatTimer EXCEPT ![i] = Off]
                /\ UNCHANGED <<leaderVars, appends, leadersByTerm, leaderLog, flaggedWins>>
        /\ UNCHANGED <<log, commitVars, voteReplies, appendReplies, committed, crashes>>

(* Mutant: a heartbeat carries no entries.                                 *)
SendEmptyHeartbeats(i) ==
    /\ role[i] = Leader /\ heartbeatTimer[i] = Armed
    /\ appends' = appends \cup
          {[AppendEntriesTo(i, j, currentTerm[i], log[i], nextIndex[i][j], commitIndex[i])
              EXCEPT !.entries = <<>>] : j \in Peers(i)}
    /\ UNCHANGED <<persistent, roleVars, timers, leaderVars, commitVars,
                   requestVotes, voteReplies, appendReplies, observers, crashes>>

(* tick() with the heartbeat deadline passed: sendHeartbeats.              *)
SendHeartbeats(i) ==
    /\ role[i] = Leader /\ heartbeatTimer[i] = Armed
    /\ appends' = appends \cup
          {AppendEntriesTo(i, j, currentTerm[i], log[i], nextIndex[i][j], commitIndex[i]) :
              j \in Peers(i)}
    /\ UNCHANGED <<persistent, roleVars, timers, leaderVars, commitVars,
                   requestVotes, voteReplies, appendReplies, observers, crashes>>

(* proposeBatch on a leader (propose is the batch of one): one append, the *)
(* commit of a 1-node cluster, one AppendEntries per peer.                 *)
ProposeBatch(i, cmds) ==
    LET lg == log[i] \o [k \in DOMAIN cmds |-> [term |-> currentTerm[i], cmd |-> cmds[k]]]
        c  == AdvanceCommit(i, lg, matchIndex[i])
    IN  /\ role[i] = Leader
        /\ Len(lg) <= MaxLogLen
        /\ log' = [log EXCEPT ![i] = lg]
        /\ Commit(i, lg, c, currentTerm[i])
        /\ appends' = appends \cup
              {AppendEntriesTo(i, j, currentTerm[i], lg, nextIndex[i][j], c) : j \in Peers(i)}
        /\ heartbeatTimer' = [heartbeatTimer EXCEPT ![i] = Armed]
        /\ leaderLog' = [leaderLog EXCEPT ![currentTerm[i]] = lg]
        /\ UNCHANGED <<currentTerm, votedFor, roleVars, electionTimer, leaderVars,
                       requestVotes, voteReplies, appendReplies, leadersByTerm,
                       flaggedWins, ballots, crashes>>

(* pumpApply: re-offer what the sink refused.                              *)
PumpApply(i) ==
    /\ ApplySink /\ Len(applied[i]) < commitIndex[i]
    /\ \E a \in ApplyCommitted(i, log[i], commitIndex[i]) :
          applied' = [applied EXCEPT ![i] = a]
    /\ UNCHANGED <<persistent, roleVars, timers, leaderVars, commitIndex, network, observers, crashes>>

-----------------------------------------------------------------------------
(* handle(): the universal term rule, then the handler of the message.     *)

OnRequestVote(i, m) ==
    LET t     == TermAfter(i, m.term)
        voted == VoteAfter(i, m.term)
        grant == /\ m.term = t
                 /\ CandidateLogAtLeastAsUpToDate(m.lastLogTerm, m.lastLogIndex, log[i])
                 /\ voted \in {NoNode, m.from}
    IN  /\ m.to = i
        /\ currentTerm' = [currentTerm EXCEPT ![i] = t]
        /\ votedFor' = [votedFor EXCEPT ![i] = IF grant THEN m.from ELSE voted]
        /\ role' = [role EXCEPT ![i] = RoleAfter(i, m.term)]
        /\ leaderId' = [leaderId EXCEPT ![i] = LeaderAfter(i, m.term)]
        /\ electionTimer' = [electionTimer EXCEPT ![i] =
                                IF grant THEN Armed ELSE ElectionTimerAfter(i, m.term)]
        /\ heartbeatTimer' = [heartbeatTimer EXCEPT ![i] = HeartbeatTimerAfter(i, m.term)]
        /\ voteReplies' = voteReplies \cup
              {[term |-> t, from |-> i, to |-> m.from, granted |-> grant]}
        /\ ballots' = IF grant
                      THEN ballots \cup {[term |-> t, voter |-> i, candidate |-> m.from,
                                          log |-> log[i]]}
                      ELSE ballots
        /\ UNCHANGED <<log, votesFrom, leaderVars, commitVars, requestVotes, appends,
                       appendReplies, leadersByTerm, leaderLog, committed, flaggedWins, crashes>>

(* Only a grant of this candidacy's own term counts.                       *)
OnRequestVoteReply(i, m) ==
    LET t      == TermAfter(i, m.term)
        counts == role[i] = Candidate /\ m.term = currentTerm[i] /\ m.granted
        votes  == IF counts THEN votesFrom[i] \cup {m.from} ELSE votesFrom[i]
    IN  /\ m.to = i
        /\ currentTerm' = [currentTerm EXCEPT ![i] = t]
        /\ votedFor' = [votedFor EXCEPT ![i] = VoteAfter(i, m.term)]
        /\ votesFrom' = [votesFrom EXCEPT ![i] = votes]
        /\ IF counts /\ Cardinality(votes) >= Majority
           THEN BecomeLeader(i, t)
           ELSE /\ role' = [role EXCEPT ![i] = RoleAfter(i, m.term)]
                /\ leaderId' = [leaderId EXCEPT ![i] = LeaderAfter(i, m.term)]
                /\ electionTimer' = [electionTimer EXCEPT ![i] = ElectionTimerAfter(i, m.term)]
                /\ heartbeatTimer' = [heartbeatTimer EXCEPT ![i] = HeartbeatTimerAfter(i, m.term)]
                /\ UNCHANGED <<leaderVars, appends, leadersByTerm, leaderLog, flaggedWins>>
        /\ UNCHANGED <<log, commitVars, requestVotes, voteReplies, appendReplies,
                       committed, ballots, crashes>>

(* Mutant: the consistency check looks at the length only.                 *)
PassesLengthCheck(i, m) == m.prevLogIndex <= Len(log[i])

(* What onAppendEntries makes of a request in term t = currentTerm.        *)
PassesConsistencyCheck(i, m) ==
    /\ m.prevLogIndex <= Len(log[i])
    /\ TermAt(log[i], m.prevLogIndex) = m.prevLogTerm

RejectHint(i, m, t) ==
    IF m.prevLogIndex > Len(log[i])
    THEN AppendReply(i, m, t, FALSE, Len(log[i]) + 1, 0)
    ELSE AppendReply(i, m, t, FALSE, FirstOfTerm(log[i], m.prevLogIndex),
                     TermAt(log[i], m.prevLogIndex))

(* A request of an older term: no reset, an empty reject.                  *)
OnStaleAppendEntries(i, m) ==
    /\ m.to = i /\ m.term < currentTerm[i]
    /\ appendReplies' = appendReplies \cup {AppendReply(i, m, currentTerm[i], FALSE, 0, 0)}
    /\ UNCHANGED <<persistent, roleVars, timers, leaderVars, commitVars,
                   requestVotes, voteReplies, appends, observers, crashes>>

(* A request of the current or a newer term.  A leader of that very term   *)
(* ignores it (the code logs an Election Safety violation).                *)
OnAppendEntries(i, m) ==
    LET t        == TermAfter(i, m.term)
        accepted == PassesConsistencyCheck(i, m)
        lg       == IF accepted THEN MergedLog(log[i], m, Len(m.entries)) ELSE log[i]
        c        == IF accepted /\ m.leaderCommit > commitIndex[i]
                    THEN Min({m.leaderCommit, ConfirmedThrough(m)})
                    ELSE commitIndex[i]
    IN  /\ m.to = i /\ m.term >= currentTerm[i]
        /\ RoleAfter(i, m.term) # Leader
        /\ currentTerm' = [currentTerm EXCEPT ![i] = t]
        /\ votedFor' = [votedFor EXCEPT ![i] = VoteAfter(i, m.term)]
        /\ leaderId' = [leaderId EXCEPT ![i] = m.from]
        /\ role' = [role EXCEPT ![i] = Follower]
        /\ electionTimer' = [electionTimer EXCEPT ![i] = Armed]
        /\ heartbeatTimer' = [heartbeatTimer EXCEPT ![i] = HeartbeatTimerAfter(i, m.term)]
        /\ log' = [log EXCEPT ![i] = lg]
        /\ Commit(i, lg, c, t)
        /\ appendReplies' = appendReplies \cup
              {IF accepted THEN AppendReply(i, m, t, TRUE, ConfirmedThrough(m), 0)
                           ELSE RejectHint(i, m, t)}
        /\ UNCHANGED <<votesFrom, leaderVars, requestVotes, voteReplies, appends,
                       leadersByTerm, leaderLog, flaggedWins, ballots, crashes>>

(* A reply of a newer term only deposes; one of an older term, or to a     *)
(* node that is not leader, is dropped.                                    *)
OnStaleAppendReply(i, m) ==
    /\ m.to = i
    /\ NewTerm(i, m.term)
    /\ currentTerm' = [currentTerm EXCEPT ![i] = m.term]
    /\ votedFor' = [votedFor EXCEPT ![i] = NoNode]
    /\ role' = [role EXCEPT ![i] = Follower]
    /\ leaderId' = [leaderId EXCEPT ![i] = NoNode]
    /\ electionTimer' = [electionTimer EXCEPT ![i] = ElectionTimerAfter(i, m.term)]
    /\ heartbeatTimer' = [heartbeatTimer EXCEPT ![i] = HeartbeatTimerAfter(i, m.term)]
    /\ UNCHANGED <<log, votesFrom, leaderVars, commitVars, network, observers, crashes>>

(* A success: the ack is the match point of the request it answers; the    *)
(* window moves, the commit index may, and the catch-up continues.         *)
OnAppendAck(i, m) ==
    LET j     == m.from
        match == [matchIndex[i] EXCEPT ![j] = m.conflictIndex]
        c     == AdvanceCommit(i, log[i], match)
    IN  /\ m.to = i /\ role[i] = Leader /\ m.term = currentTerm[i]
        /\ m.success
        /\ m.conflictIndex <= Len(log[i])
        /\ m.conflictIndex > matchIndex[i][j]
        /\ matchIndex' = [matchIndex EXCEPT ![i] = match]
        /\ nextIndex' = [nextIndex EXCEPT ![i][j] = m.conflictIndex + 1]
        /\ Commit(i, log[i], c, currentTerm[i])
        /\ appends' = IF m.conflictIndex < Len(log[i])
                      THEN appends \cup {AppendEntriesTo(i, j, currentTerm[i], log[i],
                                                         m.conflictIndex + 1, c)}
                      ELSE appends
        /\ UNCHANGED <<persistent, roleVars, timers, requestVotes, voteReplies, appendReplies,
                       leadersByTerm, leaderLog, flaggedWins, ballots, crashes>>

(* Mutants: the hint is taken as it comes; the hint is ignored.            *)
NextUnclamped(i, m) == Min({m.conflictIndex, nextIndex[i][m.from]})
NextNotLowered(i, m) == Max({nextIndex[i][m.from], matchIndex[i][m.from] + 1})

(* The next index the hint of a reject leads to.                           *)
LoweredNext(i, m) ==
    LET last == LastOfTerm(log[i], m.conflictTerm)
        hint == IF m.conflictTerm = 0 \/ last = 0 THEN m.conflictIndex ELSE last + 1
    IN  Max({Min({hint, nextIndex[i][m.from]}), matchIndex[i][m.from] + 1, 1})

(* A reject: lower the window by the hint and retry at once.               *)
OnAppendReject(i, m) ==
    LET ni == LoweredNext(i, m)
    IN  /\ m.to = i /\ role[i] = Leader /\ m.term = currentTerm[i]
        /\ ~m.success
        /\ nextIndex' = [nextIndex EXCEPT ![i][m.from] = ni]
        /\ appends' = appends \cup
              {AppendEntriesTo(i, m.from, currentTerm[i], log[i], ni, commitIndex[i])}
        /\ UNCHANGED <<persistent, roleVars, timers, matchIndex, commitVars,
                       requestVotes, voteReplies, appendReplies, observers, crashes>>

-----------------------------------------------------------------------------
(* Crashes.                                                                *)

(* A new RaftCore over the recovered storage, then start().                *)
ResetVolatile(i) ==
    /\ crashes < MaxCrashes /\ crashes' = crashes + 1
    /\ role' = [role EXCEPT ![i] = Follower]
    /\ leaderId' = [leaderId EXCEPT ![i] = NoNode]
    /\ votesFrom' = [votesFrom EXCEPT ![i] = {}]
    /\ electionTimer' = [electionTimer EXCEPT ![i] = Armed]
    /\ heartbeatTimer' = [heartbeatTimer EXCEPT ![i] = Off]
    /\ nextIndex' = [nextIndex EXCEPT ![i] = [j \in Node |-> 1]]
    /\ matchIndex' = [matchIndex EXCEPT ![i] = [j \in Node |-> 0]]
    /\ commitIndex' = [commitIndex EXCEPT ![i] = 0]
    /\ applied' = [applied EXCEPT ![i] = <<>>]

Restart(i) ==
    /\ ResetVolatile(i)
    /\ UNCHANGED <<persistent, network, observers>>

(* A crash after the universal term rule saved the new term and before the *)
(* handler saved or sent anything.                                         *)
CrashAfterTermRule(i, m) ==
    /\ m.to = i /\ NewTerm(i, m.term)
    /\ currentTerm' = [currentTerm EXCEPT ![i] = m.term]
    /\ votedFor' = [votedFor EXCEPT ![i] = NoNode]
    /\ ResetVolatile(i)
    /\ UNCHANGED <<log, network, observers>>

(* A crash inside onAppendEntries, after the truncation and before the     *)
(* append is durable: any proper prefix of the new entries survives.       *)
CrashDuringAppend(i, m) ==
    /\ m.to = i /\ m.term >= currentTerm[i]
    /\ RoleAfter(i, m.term) # Leader
    /\ PassesConsistencyCheck(i, m)
    /\ PresentCount(log[i], m) < Len(m.entries)
    /\ currentTerm' = [currentTerm EXCEPT ![i] = TermAfter(i, m.term)]
    /\ votedFor' = [votedFor EXCEPT ![i] = VoteAfter(i, m.term)]
    /\ \E n \in PresentCount(log[i], m)..(Len(m.entries) - 1) :
          log' = [log EXCEPT ![i] = MergedLog(log[i], m, n)]
    /\ ResetVolatile(i)
    /\ UNCHANGED <<network, observers>>

(* A crash inside proposeBatch, before the append is durable and anything  *)
(* is sent: a proper prefix of the batch survives.                         *)
CrashDuringPropose(i, cmds) ==
    /\ role[i] = Leader
    /\ Len(log[i]) + Len(cmds) <= MaxLogLen
    /\ \E n \in 1..(Len(cmds) - 1) :
          LET lg == log[i] \o [k \in 1..n |-> [term |-> currentTerm[i], cmd |-> cmds[k]]]
          IN  /\ log' = [log EXCEPT ![i] = lg]
              /\ leaderLog' = [leaderLog EXCEPT ![currentTerm[i]] = lg]
    /\ ResetVolatile(i)
    /\ UNCHANGED <<currentTerm, votedFor, network, leadersByTerm, committed, flaggedWins, ballots>>

-----------------------------------------------------------------------------
Tick(i) == StartElection(i) \/ SendHeartbeats(i)

Handle(i) ==
    \/ \E m \in requestVotes : OnRequestVote(i, m)
    \/ \E m \in voteReplies : OnRequestVoteReply(i, m)
    \/ \E m \in appends : OnStaleAppendEntries(i, m) \/ OnAppendEntries(i, m)
    \/ \E m \in appendReplies :
          OnStaleAppendReply(i, m) \/ OnAppendAck(i, m) \/ OnAppendReject(i, m)

Crash(i) ==
    \/ Restart(i)
    \/ \E m \in requestVotes \cup voteReplies \cup appends \cup appendReplies :
          CrashAfterTermRule(i, m)
    \/ \E m \in appends : CrashDuringAppend(i, m)
    \/ \E cmds \in Batch : CrashDuringPropose(i, cmds)

Propose(i) == \E cmds \in Batch : ProposeBatch(i, cmds)

Next == \E i \in Node : Tick(i) \/ Propose(i) \/ PumpApply(i) \/ Handle(i) \/ Crash(i)

Spec == Init /\ [][Next]_vars
-----------------------------------------------------------------------------
(* Properties.                                                             *)

(* The types of the persistent, volatile and leader state, the network and *)
(* the observers (raft_core.h:161-196).                                    *)
StateTypeOK ==
    /\ currentTerm \in [Node -> Term]
    /\ votedFor \in [Node -> Node \cup {NoNode}]
    /\ log \in [Node -> Seq(Entry)]
    /\ role \in [Node -> {Follower, Candidate, Leader}]
    /\ leaderId \in [Node -> Node \cup {NoNode}]
    /\ votesFrom \in [Node -> SUBSET Node]
    /\ electionTimer \in [Node -> {Armed, Off}]
    /\ heartbeatTimer \in [Node -> {Armed, Off}]
    /\ nextIndex \in [Node -> [Node -> Nat \ {0}]]
    /\ matchIndex \in [Node -> [Node -> Nat]]
    /\ commitIndex \in [Node -> Nat]
    /\ crashes \in Nat

NetworkTypeOK ==
    /\ requestVotes \subseteq RequestVote
    /\ voteReplies \subseteq RequestVoteReply
    /\ appends \subseteq AppendEntries
    /\ appendReplies \subseteq AppendEntriesReply

ObserverTypeOK ==
    /\ leadersByTerm \in [Term -> SUBSET Node]
    /\ leaderLog \in [Term -> Seq(Entry)]
    /\ committed \in Seq([entry : Entry, at : Term])
    /\ flaggedWins \subseteq Term
    /\ ballots \subseteq [term : Term, voter : Node, candidate : Node, log : Seq(Entry)]

(* Type correctness of every variable; what was applied are entries.       *)
TypeOK ==
    /\ StateTypeOK /\ NetworkTypeOK /\ ObserverTypeOK
    /\ applied \in [Node -> Seq(Entry)]

(* Election Safety (ElectionSafetyChecker): over the whole history, at     *)
(* most one node wins the election of a term.                              *)
ElectionSafety == \A t \in Term : \A a, b \in leadersByTerm[t] : a = b

(* A node votes for at most one candidate per term, whatever crashes and   *)
(* restarts happen between two requests: the vote is durable before the    *)
(* reply leaves (raft_core.cpp:318-327).                                   *)
OneVotePerTerm ==
    \A a, b \in ballots : a.voter = b.voter /\ a.term = b.term => a.candidate = b.candidate

(* Log Matching (checkLogMatching): two logs that hold the same term at    *)
(* the same index are identical up to that index.                          *)
LogMatching ==
    \A i, j \in Node : \A k \in 1..Min({Len(log[i]), Len(log[j])}) :
        log[i][k].term = log[j][k].term => \A q \in 1..k : log[i][q] = log[j][q]

(* Leader Completeness: a leader holds every entry that was committed in   *)
(* its own or an earlier term.                                             *)
LeaderCompleteness ==
    \A i \in Node : role[i] = Leader =>
        \A k \in 1..Len(committed) :
            committed[k].at <= currentTerm[i] => Holds(log[i], k, committed[k].entry)

(* A win that CommitChecker::observeElectionWin flags, because the winner  *)
(* lacks part of the committed record, is always the win of a stale term:  *)
(* some entry of the record was committed in a later term already.         *)
FlaggedWinsAreStale ==
    \A t \in flaggedWins : \E k \in 1..Len(committed) : committed[k].at > t

(* No lost commit (CommitChecker::observeCommit): the log of a node up to  *)
(* its own commit index is what the cluster committed there first.         *)
NoLostCommit ==
    \A i \in Node : \A k \in 1..commitIndex[i] :
        k <= Len(committed) /\ Holds(log[i], k, committed[k].entry)

(* Every committed entry is on the stable storage of a majority, at every  *)
(* moment: no crash in any handler, and no restart of the whole cluster,   *)
(* loses it.                                                               *)
DurableCommit ==
    \A k \in 1..Len(committed) :
        Cardinality({i \in Node : Holds(log[i], k, committed[k].entry)}) >= Majority

(* State Machine Safety (AppliedConsistencyChecker): what a node applied   *)
(* since its last restart is a prefix of the one global record, so two     *)
(* nodes, or two lives of one node, never apply different commands at the  *)
(* same index.                                                             *)
StateMachineSafety ==
    \A i \in Node :
        /\ Len(applied[i]) <= commitIndex[i]
        /\ \A k \in 1..Len(applied[i]) :
              k <= Len(committed) /\ applied[i][k] = committed[k].entry

(* The match index of a peer is true: while the peer stays in the leader's *)
(* term its log agrees with the leader's that far.  And the next index is  *)
(* always one that termAt(next - 1) may be asked for                       *)
(* (raft_core.cpp:175), above the proven match.                            *)
ReplicationWindow ==
    \A i \in Node : role[i] = Leader =>
        \A j \in Peers(i) :
            /\ matchIndex[i][j] < nextIndex[i][j]
            /\ nextIndex[i][j] <= Len(log[i]) + 1
            /\ currentTerm[j] = currentTerm[i] =>
                  \A k \in 1..matchIndex[i][j] : Holds(log[j], k, log[i][k])

(* Replies never surprise a leader: no ack of its own term lies beyond its *)
(* log (the error of raft_core.cpp:440), and no AppendEntries of its own   *)
(* term reaches it (the error of raft_core.cpp:347).                       *)
NoImpossibleMessage ==
    /\ \A m \in appendReplies :
          role[m.to] = Leader /\ m.term = currentTerm[m.to] /\ m.success =>
              m.conflictIndex <= Len(log[m.to])
    /\ \A m \in appends : ~ (role[m.to] = Leader /\ m.term = currentTerm[m.to])

(* A leader hint names a node that really won the election of the term the *)
(* hint is held in: clients are never redirected to a node that was not    *)
(* elected.                                                                *)
LeaderHintTruthful ==
    \A i \in Node : leaderId[i] # NoNode => leaderId[i] \in leadersByTerm[currentTerm[i]]

(* The commit index of a node never moves back while the node lives,       *)
(* although a follower overwrites it with min(leaderCommit, prev + n)      *)
(* (raft_core.cpp:421-422).                                                *)
CommitIndexMonotone ==
    [][\A i \in Node : \/ commitIndex'[i] >= commitIndex[i]
                       \/ commitIndex'[i] = 0 /\ applied'[i] = <<>>]_vars

(* No step, not even a crash inside a handler, cuts or changes the log at  *)
(* or below the commit index of its node (the error of                     *)
(* raft_core.cpp:393).                                                     *)
CommittedPrefixStable ==
    [][\A i \in Node : \A k \in 1..commitIndex[i] : Holds(log'[i], k, log[i][k])]_vars

(* A leader never leaves an entry of its own term uncommitted that it      *)
(* knows to be on a majority: whatever completes the majority, a reply or, *)
(* in a cluster of one, the append itself, commits in the same call        *)
(* (raft_core.cpp:133, 218 and 452).                                       *)
CommitsAtOnce ==
    \A i \in Node : role[i] = Leader =>
        \A n \in commitIndex[i] + 1 .. Len(log[i]) :
            log[i][n].term = currentTerm[i] =>
                Cardinality({i} \cup {p \in Peers(i) : matchIndex[i][p] >= n}) < Majority

-----------------------------------------------------------------------------
(* Progress.  Crashes stop, elections stop at the term bound, and timers   *)
(* and messages are not starved: a heartbeat repeats every AppendEntries   *)
(* until it is answered.                                                   *)

Run == \E i \in Node : Tick(i) \/ PumpApply(i) \/ Handle(i)

Running == [][Run \/ \E i \in Node : Propose(i)]_vars /\ WF_vars(Run)

(* Under the last leader the cluster converges: every log becomes the      *)
(* leader's, and when the leader appended an entry of its own every node   *)
(* commits and applies all of it.  The walk back along the conflict hints  *)
(* ends (raft_core.cpp:466-489).                                           *)
Converges ==
    <>[](\A i, j \in Node : role[i] = Leader /\ currentTerm[i] = MaxTerm =>
            /\ log[j] = log[i]
            /\ LastTerm(log[i]) = MaxTerm =>
                  commitIndex[j] = Len(log[i]) /\ applied[j] = log[i])
=============================================================================
