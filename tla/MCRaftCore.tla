----------------------------- MODULE MCRaftCore -----------------------------
(***************************************************************************)
(* Instances of RaftCore for TLC.  Besides Init, two families of initial   *)
(* states that executions of the core reach, with every message sent so    *)
(* far lost but those named: a cluster in its first election, and a        *)
(* cluster that restarted as a whole with divergent logs.                  *)
(***************************************************************************)
EXTENDS RaftRefinement, TLC

Symmetry == Permutations(Node)

E(t) == [term |-> t, cmd |-> CHOOSE c \in Command : TRUE]

Ballot(t, v, c, lg) == [term |-> t, voter |-> v, candidate |-> c, log |-> lg]

(* Node c campaigns in term 1: the grant of v is in flight, every other    *)
(* request was lost.                                                       *)
Campaign(c, v) ==
    LET ahead == {c, v}
    IN  /\ currentTerm = [i \in Node |-> IF i \in ahead THEN 1 ELSE 0]
        /\ votedFor = [i \in Node |-> IF i \in ahead THEN c ELSE NoNode]
        /\ log = [i \in Node |-> <<>>]
        /\ role = [i \in Node |-> IF i = c THEN Candidate ELSE Follower]
        /\ leaderId = [i \in Node |-> NoNode]
        /\ votesFrom = [i \in Node |-> IF i = c THEN {c} ELSE {}]
        /\ electionTimer = [i \in Node |-> Armed]
        /\ heartbeatTimer = [i \in Node |-> Off]
        /\ nextIndex = [i \in Node |-> [j \in Node |-> 1]]
        /\ matchIndex = [i \in Node |-> [j \in Node |-> 0]]
        /\ commitIndex = [i \in Node |-> 0]
        /\ applied = [i \in Node |-> <<>>]
        /\ requestVotes = {} /\ appends = {} /\ appendReplies = {}
        /\ voteReplies = {[term |-> 1, from |-> v, to |-> c, granted |-> TRUE]}
        /\ leadersByTerm = [t \in Term |-> {}]
        /\ leaderLog = [t \in Term |-> <<>>]
        /\ committed = <<>>
        /\ flaggedWins = {}
        /\ ballots = {Ballot(1, c, c, <<>>), Ballot(1, v, c, <<>>)}
        /\ crashes = 0

CampaignInit == \E c \in Node : \E v \in Peers(c) : Campaign(c, v)
CampaignSpec == CampaignInit /\ [][Next]_vars

(* A quiet cluster: stable storage terms/votes/logs, node l (if any) just  *)
(* elected and everyone else a follower; "leaders" won the past terms and  *)
(* "history" holds the votes that elected them.                            *)
Quiet(terms, votes, logs, l, leaders, history) ==
    /\ currentTerm = terms /\ votedFor = votes /\ log = logs
    /\ role = [i \in Node |-> IF i = l THEN Leader ELSE Follower]
    /\ leaderId = [i \in Node |-> IF i = l THEN l ELSE NoNode]
    /\ votesFrom = [i \in Node |-> IF i = l THEN {j \in Node : votes[j] = l} ELSE {}]
    /\ electionTimer = [i \in Node |-> IF i = l THEN Off ELSE Armed]
    /\ heartbeatTimer = [i \in Node |-> IF i = l THEN Armed ELSE Off]
    /\ nextIndex = [i \in Node |-> [j \in Node |-> IF i = l THEN Len(logs[i]) + 1 ELSE 1]]
    /\ matchIndex = [i \in Node |-> [j \in Node |-> 0]]
    /\ commitIndex = [i \in Node |-> 0]
    /\ applied = [i \in Node |-> <<>>]
    /\ requestVotes = {} /\ voteReplies = {} /\ appends = {} /\ appendReplies = {}
    /\ leadersByTerm = [t \in Term |-> IF t \in DOMAIN leaders THEN {leaders[t]} ELSE {}]
    /\ leaderLog = [t \in Term |-> IF t \in DOMAIN leaders THEN logs[leaders[t]] ELSE <<>>]
    /\ committed = <<>>
    /\ flaggedWins = {}
    /\ ballots = history
    /\ crashes = 0

(* Node a led term 1 and b led term 2, each elected by c; each appended    *)
(* one entry nobody else received.                                         *)
DivergentLogs(a, b) ==
    [i \in Node |-> IF i = a THEN <<E(1)>> ELSE IF i = b THEN <<E(2)>> ELSE <<>>]

DivergentHistory(a, b, c) ==
    {Ballot(1, a, a, <<>>), Ballot(1, c, a, <<>>), Ballot(2, b, b, <<>>), Ballot(2, c, b, <<>>)}

(* Then the whole cluster restarted.                                       *)
Divergent(a, b, c) ==
    Quiet([i \in Node |-> IF i = a THEN 1 ELSE 2],
          [i \in Node |-> IF i = a THEN a ELSE b],
          DivergentLogs(a, b), NoNode, <<a, b>>, DivergentHistory(a, b, c))

(* And a won term 3 with the vote of c: the moment before Figure 8(c) of   *)
(* the Raft paper, on three nodes.                                         *)
Figure8(a, b, c) ==
    Quiet([i \in Node |-> IF i = b THEN 2 ELSE 3],
          [i \in Node |-> IF i = b THEN b ELSE a],
          DivergentLogs(a, b), a, <<a, b, a>>,
          DivergentHistory(a, b, c) \cup {Ballot(3, a, a, <<E(1)>>), Ballot(3, c, a, <<>>)})

Figure8Init ==
    \E a \in Node : \E b \in Peers(a) : \E c \in Peers(a) \ {b} : Figure8(a, b, c)
Figure8Spec == Figure8Init /\ [][Next]_vars

DivergentInit ==
    \E a \in Node : \E b \in Peers(a) : \E c \in Peers(a) \ {b} : Divergent(a, b, c)
DivergentSpec == DivergentInit /\ [][Next]_vars

(* Or b did.                                                               *)
LedByNewer(a, b, c) ==
    Quiet([i \in Node |-> IF i = a THEN 1 ELSE 3],
          [i \in Node |-> IF i = a THEN a ELSE b],
          DivergentLogs(a, b), b, <<a, b, b>>,
          DivergentHistory(a, b, c) \cup {Ballot(3, b, b, <<E(2)>>), Ballot(3, c, b, <<>>)})

(* The last election of the divergent cluster is over, for the liveness    *)
(* run (no symmetry there): a won or b did; c, with no entry, cannot.      *)
LedInit ==
    LET p == CHOOSE q \in Node \X Node \X Node :
                q[1] # q[2] /\ q[1] # q[3] /\ q[2] # q[3]
    IN  Figure8(p[1], p[2], p[3]) \/ LedByNewer(p[1], p[2], p[3])
FairLedSpec == LedInit /\ Running
=============================================================================
