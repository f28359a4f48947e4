-------------------------- MODULE RaftCoreElection --------------------------
(***************************************************************************)
(* Proofs about RaftCore, first part: the operators of the model, type     *)
(* correctness, Election Safety and who acts as a leader.                  *)
(*                                                                         *)
(* The facts about counting that the argument needs (Counting) are         *)
(* conjuncts of the type invariant here and are proved in                  *)
(* RaftCoreTheorems, where the library of set theorems is at hand; that    *)
(* module also draws the temporal conclusions.                             *)
(***************************************************************************)
EXTENDS RaftCore, TLAPS

(* What the argument needs to know of numbers and of sets of nodes:        *)
(* naturals are well ordered, a part of the nodes counts at most what the  *)
(* whole does, and two majorities share a node.  RaftCoreTheorems proves   *)
(* it.                                                                     *)
Counting ==
    /\ \A S \in SUBSET Nat : S # {} => \E x \in S : \A y \in S : x <= y
    /\ \A Q \in SUBSET Node : \A P \in SUBSET Q :
          /\ Cardinality(P) \in Nat /\ Cardinality(Q) \in Nat /\ Majority \in Nat
          /\ Cardinality(P) <= Cardinality(Q)
    /\ \A P, Q \in SUBSET Node :
          Cardinality(P) >= Majority /\ Cardinality(Q) >= Majority => \E v \in P : v \in Q

(* What a node committed, the observers have recorded.                     *)
CommitRecorded == \A i \in Node : commitIndex[i] <= Len(committed)

Typed == StateTypeOK /\ NetworkTypeOK /\ ObserverTypeOK /\ CommitRecorded

(* The inductive invariant of this module.                                 *)
TypeInv == StateTypeOK /\ NetworkTypeOK /\ ObserverTypeOK /\ CommitRecorded /\ Counting

(***************************************************************************)
(* Extrema of sets of naturals and slices of sequences.                    *)
(***************************************************************************)

(* A non-empty set of naturals has a least element.                        *)
LEMMA LeastExists ==
    ASSUME TypeInv, NEW S \in SUBSET Nat, S # {}
    PROVE  \E x \in S : \A y \in S : x <= y
BY Zenon DEF TypeInv, Counting

(* A non-empty bounded set of naturals has a greatest element.             *)
LEMMA GreatestExists ==
    ASSUME TypeInv, NEW n \in Nat, NEW S \in SUBSET (0..n), S # {}
    PROVE  \E x \in S : \A y \in S : x >= y
<1> DEFINE T == {n - x : x \in S}
<1>1. T \in SUBSET Nat
  OBVIOUS
<1>2. T # {}
  BY Zenon
<1>3. PICK d \in T : \A y \in T : d <= y
  BY <1>1, <1>2, LeastExists, Zenon
<1>4. PICK x \in S : d = n - x
  BY <1>3
<1>5. ASSUME NEW y \in S PROVE x >= y
  <2>1. n - y \in T
    OBVIOUS
  <2>2. d <= n - y
    BY <1>3, <2>1
  <2> QED BY <2>2, <1>4
<1> QED BY <1>5

(* Max of a non-empty bounded set of naturals is its greatest element.     *)
LEMMA MaxProperties ==
    ASSUME TypeInv, NEW n \in Nat, NEW S \in SUBSET (0..n), S # {}
    PROVE  Max(S) \in S /\ \A y \in S : Max(S) >= y
BY GreatestExists, Zenon DEF Max

(* Min of a non-empty set of naturals is its least element.                *)
LEMMA MinProperties ==
    ASSUME TypeInv, NEW S \in SUBSET Nat, S # {}
    PROVE  Min(S) \in S /\ \A y \in S : Min(S) <= y
BY LeastExists, Zenon DEF Min

(* A function on an initial interval is a sequence.                        *)
LEMMA FunctionIsSeq ==
    ASSUME NEW S, NEW n \in Nat, NEW f \in [1..n -> S]
    PROVE  f \in Seq(S) /\ Len(f) = n
OBVIOUS

(* The length of a sequence and its elements.                              *)
LEMMA LenProperties ==
    ASSUME NEW S, NEW s \in Seq(S)
    PROVE  Len(s) \in Nat
OBVIOUS

(* An element of a sequence is one of what the sequence is made of.        *)
LEMMA ElementOfSeq ==
    ASSUME NEW S, NEW s \in Seq(S), NEW n \in 1..Len(s)
    PROVE  s[n] \in S
OBVIOUS

(* Two sequences, one after the other.                                     *)
LEMMA ConcatProperties ==
    ASSUME NEW S, NEW s \in Seq(S), NEW t \in Seq(S)
    PROVE  /\ s \o t \in Seq(S)
           /\ Len(s \o t) = Len(s) + Len(t)
           /\ \A k \in 1 .. Len(s) + Len(t) :
                 (s \o t)[k] = IF k <= Len(s) THEN s[k] ELSE t[k - Len(s)]
OBVIOUS

(* A slice of a sequence within its bounds.                                *)
LEMMA SliceProperties ==
    ASSUME NEW S, NEW s \in Seq(S), NEW f \in Nat \ {0}, NEW n \in Nat,
           f <= n + 1, n <= Len(s)
    PROVE  /\ SubSeq(s, f, n) \in Seq(S)
           /\ Len(SubSeq(s, f, n)) = n + 1 - f
           /\ \A k \in 1..(n + 1 - f) : SubSeq(s, f, n)[k] = s[f + k - 1]
OBVIOUS

(* A prefix of one sequence followed by a slice of another.                *)
LEMMA SpliceProperties ==
    ASSUME NEW S, NEW s \in Seq(S), NEW e \in Seq(S),
           NEW p \in 0..Len(s), NEW f \in Nat, NEW n \in Nat, f <= n, n <= Len(e)
    PROVE  LET r == SubSeq(s, 1, p) \o SubSeq(e, f + 1, n)
           IN  /\ r \in Seq(S)
               /\ Len(r) = p + n - f
               /\ \A k \in 1..p : r[k] = s[k]
               /\ \A k \in (p + 1)..(p + n - f) : r[k] = e[k - p + f]
<1> DEFINE a == SubSeq(s, 1, p)
           b == SubSeq(e, f + 1, n)
           r == a \o b
<1>0. Len(s) \in Nat /\ p \in Nat /\ p <= Len(s)
  BY LenProperties
<1>1. /\ a \in Seq(S) /\ Len(a) = p + 1 - 1
      /\ \A k \in 1..(p + 1 - 1) : a[k] = s[1 + k - 1]
  BY <1>0, SliceProperties
<1>2. /\ b \in Seq(S) /\ Len(b) = n + 1 - (f + 1)
      /\ \A k \in 1..(n + 1 - (f + 1)) : b[k] = e[f + 1 + k - 1]
  <2> DEFINE g == f + 1
  <2>1. g \in Nat \ {0} /\ g <= n + 1
    OBVIOUS
  <2> HIDE DEF g
  <2>2. /\ SubSeq(e, g, n) \in Seq(S) /\ Len(SubSeq(e, g, n)) = n + 1 - g
        /\ \A k \in 1..(n + 1 - g) : SubSeq(e, g, n)[k] = e[g + k - 1]
    BY <2>1, SliceProperties
  <2> QED BY <2>2, Zenon DEF g
<1> HIDE DEF a, b
<1>3. /\ r \in Seq(S)
      /\ Len(r) = Len(a) + Len(b)
      /\ \A k \in 1 .. Len(a) + Len(b) :
            r[k] = IF k <= Len(a) THEN a[k] ELSE b[k - Len(a)]
  BY <1>1, <1>2, ConcatProperties, Zenon
<1> HIDE DEF r
<1>4. Len(r) = p + n - f
  BY <1>0, <1>1, <1>2, <1>3
<1>5. ASSUME NEW k \in 1..p PROVE r[k] = s[k]
  BY <1>0, <1>1, <1>2, <1>3
<1>6. ASSUME NEW k \in (p + 1)..(p + n - f) PROVE r[k] = e[k - p + f]
  <2>1. r[k] = b[k - p]
    <3>1. Len(a) = p /\ k \in 1..(Len(a) + Len(b)) /\ ~(k <= p)
      BY <1>0, <1>1, <1>2
    <3>2. r[k] = IF k <= Len(a) THEN a[k] ELSE b[k - Len(a)]
      BY <1>3, <3>1, Zenon
    <3> QED BY <3>1, <3>2, Zenon
  <2>2. b[k - p] = e[f + 1 + (k - p) - 1]
    <3> DEFINE q == k - p
    <3>1. q \in 1..(n + 1 - (f + 1))
      BY <1>0
    <3> HIDE DEF q
    <3>2. b[q] = e[f + 1 + q - 1]
      BY <1>2, <3>1
    <3> QED BY <3>2 DEF q
  <2>3. f + 1 + (k - p) - 1 = k - p + f
    BY <1>0
  <2> QED BY <2>1, <2>2, <2>3
<1> QED BY <1>3, <1>4, <1>5, <1>6 DEF r, a, b

(***************************************************************************)
(* The operators on logs and messages.                                     *)
(***************************************************************************)

(* Terms are naturals.                                                     *)
LEMMA TermsAreNat == Term \subseteq Nat /\ 0 \in Term
BY BoundAssumption DEF Term

(* The term at an index is a term, 0 outside the log.                      *)
LEMMA TermAtType ==
    ASSUME NEW lg \in Seq(Entry), NEW k \in Int
    PROVE  TermAt(lg, k) \in Term
<1>1. CASE k \in 1..Len(lg)
  <2>1. lg[k] \in Entry
    BY <1>1, ElementOfSeq
  <2> QED BY <1>1, <2>1 DEF TermAt, Entry
<1>2. CASE k \notin 1..Len(lg)
  BY <1>2, BoundAssumption DEF TermAt, Term
<1> QED BY <1>1, <1>2

(* So is the term of the last entry.                                       *)
LEMMA LastTermType ==
    ASSUME NEW lg \in Seq(Entry)
    PROVE  LastTerm(lg) \in Term
BY TermAtType, LenProperties DEF LastTerm

(* The entries sent from index k are those of the log from k on.           *)
LEMMA EntriesFromProperties ==
    ASSUME NEW lg \in Seq(Entry), NEW k \in Nat \ {0}
    PROVE  /\ EntriesFrom(lg, k) \in Seq(Entry)
           /\ Len(EntriesFrom(lg, k)) = IF k <= Len(lg) THEN Len(lg) - k + 1 ELSE 0
           /\ \A q \in 1..Len(EntriesFrom(lg, k)) : EntriesFrom(lg, k)[q] = lg[k + q - 1]
<1>1. Len(lg) \in Nat /\ EntriesFrom(lg, k) = SubSeq(lg, k, Len(lg))
  BY LenProperties DEF EntriesFrom
<1>2. CASE k <= Len(lg) + 1
  BY <1>1, <1>2, SliceProperties
<1>3. CASE k > Len(lg) + 1
  <2>1. SubSeq(lg, k, Len(lg)) = <<>>
    BY <1>1, <1>3
  <2> QED BY <1>1, <1>3, <2>1
<1> QED BY <1>1, <1>2, <1>3

(* The count of leading entries already present: each of them agrees in    *)
(* term with the log, and the entry after them does not.                   *)
LEMMA PresentCountProperties ==
    ASSUME TypeInv, NEW lg \in Seq(Entry), NEW m,
           m.entries \in Seq(Entry), m.prevLogIndex \in Nat
    PROVE  LET present == PresentCount(lg, m)
               Agree(q) == /\ m.prevLogIndex + q <= Len(lg)
                           /\ lg[m.prevLogIndex + q].term = m.entries[q].term
           IN  /\ present \in 0..Len(m.entries)
               /\ \A q \in 1..present : Agree(q)
               /\ present < Len(m.entries) => ~ Agree(present + 1)
<1> DEFINE Agree(q) == /\ m.prevLogIndex + q <= Len(lg)
                       /\ lg[m.prevLogIndex + q].term = m.entries[q].term
           S == {k \in 0..Len(m.entries) : \A q \in 1..k : Agree(q)}
           present == PresentCount(lg, m)
<1>1. Len(m.entries) \in Nat
  BY LenProperties
<1>2. 0 \in S
  BY <1>1
<1>3. present = Max(S)
  BY DEF PresentCount
<1>4. present \in S /\ \A y \in S : present >= y
  <2>1. S \in SUBSET (0..Len(m.entries))
    OBVIOUS
  <2> HIDE DEF S
  <2> QED BY <1>1, <1>2, <1>3, <2>1, MaxProperties, Zenon
<1>5. ASSUME present < Len(m.entries), Agree(present + 1) PROVE FALSE
  <2>1. \A q \in 1..(present + 1) : Agree(q)
    <3> HIDE DEF Agree, present
    <3> QED BY <1>1, <1>4, <1>5
  <2>2. present + 1 \in S
    BY <1>1, <1>4, <1>5, <2>1
  <2> QED BY <1>1, <1>4, <2>2
<1> QED BY <1>4, <1>5

(* What the walk over an accepted AppendEntries leaves: a request that is  *)
(* present leaves the log alone; otherwise the log keeps its part before   *)
(* the first conflict, and the request's entries follow up to the n-th.    *)
LEMMA MergedLogProperties ==
    ASSUME TypeInv, NEW lg \in Seq(Entry), NEW m,
           m.entries \in Seq(Entry), m.prevLogIndex \in Nat,
           m.prevLogIndex <= Len(lg),
           NEW n \in PresentCount(lg, m)..Len(m.entries)
    PROVE  LET present == PresentCount(lg, m)
               merged  == MergedLog(lg, m, n)
           IN  /\ merged \in Seq(Entry)
               /\ m.prevLogIndex + present <= Len(lg)
               /\ present = Len(m.entries) => merged = lg
               /\ present < Len(m.entries) =>
                     /\ Len(merged) = m.prevLogIndex + n
                     /\ \A k \in 1..(m.prevLogIndex + present) : merged[k] = lg[k]
                     /\ \A k \in (m.prevLogIndex + present + 1)..(m.prevLogIndex + n) :
                           merged[k] = m.entries[k - m.prevLogIndex]
<1> DEFINE present == PresentCount(lg, m)
           merged  == MergedLog(lg, m, n)
           p == m.prevLogIndex + present
           r == SubSeq(lg, 1, p) \o SubSeq(m.entries, present + 1, n)
<1>1. Len(m.entries) \in Nat /\ Len(lg) \in Nat
  BY LenProperties
<1>2. /\ present \in 0..Len(m.entries)
      /\ \A q \in 1..present : m.prevLogIndex + q <= Len(lg)
  BY PresentCountProperties
<1>3. p \in 0..Len(lg)
  BY <1>1, <1>2
<1>4. CASE present = Len(m.entries)
  <2>1. merged = lg
    BY <1>4 DEF MergedLog
  <2> QED BY <1>3, <1>4, <2>1
<1>5. CASE present # Len(m.entries)
  <2>1. merged = r
    BY <1>5, Zenon DEF MergedLog
  <2>2. n \in Nat /\ present \in Nat /\ present <= n /\ n <= Len(m.entries)
    BY <1>1, <1>2
  <2> HIDE DEF present
  <2>3. /\ r \in Seq(Entry)
        /\ Len(r) = p + n - present
        /\ \A k \in 1..p : r[k] = lg[k]
        /\ \A k \in (p + 1)..(p + n - present) : r[k] = m.entries[k - p + present]
    <3> HIDE DEF p
    <3> QED BY <1>3, <2>2, SpliceProperties
  <2> HIDE DEF r, merged
  <2>4. Len(r) = m.prevLogIndex + n
    BY <2>2, <2>3
  <2>5. ASSUME NEW k \in (m.prevLogIndex + present + 1)..(m.prevLogIndex + n)
        PROVE  r[k] = m.entries[k - m.prevLogIndex]
    <3>1. k \in (p + 1)..(p + n - present) /\ k - p + present = k - m.prevLogIndex
      BY <2>2
    <3> QED BY <2>3, <3>1
  <2> QED BY <1>3, <1>5, <2>1, <2>3, <2>4, <2>5 DEF present, merged
<1> QED BY <1>4, <1>5

(* A conflict hint is an index.                                            *)
LEMMA FirstOfTermType ==
    ASSUME TypeInv, NEW lg, NEW k \in Nat
    PROVE  FirstOfTerm(lg, k) \in Nat
<1> DEFINE S == {k} \cup {f \in 1..k : \A q \in f..k : lg[q].term = lg[k].term}
<1>1. S \in SUBSET Nat
  OBVIOUS
<1>2. S # {}
  OBVIOUS
<1>3. FirstOfTerm(lg, k) = Min(S)
  BY DEF FirstOfTerm
<1> HIDE DEF S
<1> QED BY <1>1, <1>2, <1>3, MinProperties, Zenon

(* The last index of a term is 0 or an index of the log.                   *)
LEMMA LastOfTermType ==
    ASSUME TypeInv, NEW lg \in Seq(Entry), NEW t
    PROVE  LastOfTerm(lg, t) \in 0..Len(lg)
<1> DEFINE S == {0} \cup {k \in 1..Len(lg) : lg[k].term = t}
<1>1. Len(lg) \in Nat
  BY LenProperties
<1>2. S \in SUBSET (0..Len(lg))
  BY <1>1
<1>3. S # {}
  OBVIOUS
<1>4. LastOfTerm(lg, t) = Max(S)
  BY DEF LastOfTerm
<1> HIDE DEF S
<1>5. Max(S) \in S
  BY <1>1, <1>2, <1>3, MaxProperties, Zenon
<1> QED BY <1>2, <1>4, <1>5, Zenon

(* The messages sendAppendEntries builds are well formed.                  *)
LEMMA AppendEntriesToType ==
    ASSUME NEW i \in Node, NEW j \in Node, NEW t \in Term, NEW lg \in Seq(Entry),
           NEW next \in Nat \ {0}, NEW c \in Nat
    PROVE  AppendEntriesTo(i, j, t, lg, next, c) \in AppendEntries
<1>1. next - 1 \in Nat
  OBVIOUS
<1>2. TermAt(lg, next - 1) \in Term
  BY <1>1, TermAtType
<1>3. EntriesFrom(lg, next) \in Seq(Entry)
  BY EntriesFromProperties
<1> QED BY <1>1, <1>2, <1>3 DEF AppendEntriesTo, AppendEntries

(***************************************************************************)
(* The types.                                                              *)
(***************************************************************************)

(* advanceCommit keeps the commit index or finds a committable one.        *)
LEMMA AdvanceCommitProperties ==
    ASSUME TypeInv, NEW i \in Node, NEW lg \in Seq(Entry), NEW match,
           commitIndex[i] \in Nat
    PROVE  LET c == AdvanceCommit(i, lg, match)
           IN  /\ c \in Nat /\ c >= commitIndex[i]
               /\ c = commitIndex[i] \/ c \in Committable(i, lg, match)
               /\ c = commitIndex[i] \/ c <= Len(lg)
               /\ \A n \in Committable(i, lg, match) : n <= c
<1> DEFINE S == {commitIndex[i]} \cup Committable(i, lg, match)
           c == AdvanceCommit(i, lg, match)
<1>1. Len(lg) \in Nat
  BY LenProperties
<1>2. Committable(i, lg, match) \subseteq (commitIndex[i] + 1)..Len(lg)
  BY DEF Committable
<1>3. S \in SUBSET (0..(commitIndex[i] + Len(lg)))
  BY <1>1, <1>2
<1>4. S # {}
  OBVIOUS
<1>5. c = Max(S)
  BY DEF AdvanceCommit
<1>6. commitIndex[i] + Len(lg) \in Nat
  BY <1>1
<1>7. Max(S) \in S /\ \A y \in S : Max(S) >= y
  <2> HIDE DEF S
  <2> QED BY <1>3, <1>4, <1>6, MaxProperties, Zenon
<1>8. c \in S /\ c >= commitIndex[i] /\ \A n \in Committable(i, lg, match) : c >= n
  BY <1>5, <1>7, Zenon
<1>9. c \in Nat
  BY <1>3, <1>8
<1> HIDE DEF S, c
<1>10. \A n \in Committable(i, lg, match) : n <= c
  BY <1>1, <1>2, <1>8, <1>9
<1> QED BY <1>1, <1>2, <1>8, <1>9, <1>10 DEF S, c

(* Moving a commit index to a position of the node's log keeps the record  *)
(* well typed and complete.                                                *)
LEMMA CommitType ==
    ASSUME TypeInv, NEW i \in Node, NEW lg \in Seq(Entry), NEW c \in Nat, NEW t \in Term,
           c = commitIndex[i] \/ c <= Len(lg),
           Commit(i, lg, c, t)
    PROVE  /\ commitIndex' \in [Node -> Nat]
           /\ committed' \in Seq([entry : Entry, at : Term])
           /\ Len(committed) <= Len(committed')
           /\ CommitRecorded'
<1> DEFINE R == [entry : Entry, at : Term]
           more == [k \in 1..(c - Len(committed)) |->
                      [entry |-> lg[Len(committed) + k], at |-> t]]
<1>1. commitIndex \in [Node -> Nat] /\ committed \in Seq(R) /\ CommitRecorded
  BY DEF TypeInv, StateTypeOK, ObserverTypeOK
<1>2. Len(committed) \in Nat /\ Len(lg) \in Nat
  BY <1>1, LenProperties
<1>3. commitIndex' = [commitIndex EXCEPT ![i] = c]
  BY DEF Commit
<1>4. CASE c <= Len(committed)
  <2>1. committed' = committed
    BY <1>2, <1>4 DEF Commit
  <2> QED BY <1>1, <1>2, <1>3, <1>4, <2>1 DEF CommitRecorded
<1>5. CASE c > Len(committed)
  <2>1. committed' = committed \o more
    BY <1>2, <1>5 DEF Commit, ObserveCommit
  <2>2. c <= Len(lg)
    BY <1>1, <1>2, <1>5 DEF CommitRecorded
  <2>3. \A k \in 1..(c - Len(committed)) : lg[Len(committed) + k] \in Entry
    <3> TAKE k \in 1..(c - Len(committed))
    <3>1. Len(committed) + k \in 1..Len(lg)
      BY <1>2, <1>5, <2>2
    <3> QED BY <3>1, ElementOfSeq
  <2>4. more \in Seq(R) /\ Len(more) = c - Len(committed)
    <3>1. more \in [1..(c - Len(committed)) -> R]
      BY <2>3
    <3>2. c - Len(committed) \in Nat
      BY <1>2, <1>5
    <3> HIDE DEF more, R
    <3> QED BY <3>1, <3>2, FunctionIsSeq
  <2>5. committed' \in Seq(R) /\ Len(committed') = c
    <3> HIDE DEF more, R
    <3>1. committed \o more \in Seq(R) /\ Len(committed \o more) = Len(committed) + Len(more)
      BY <1>1, <2>4, ConcatProperties
    <3> QED BY <1>2, <2>1, <2>4, <3>1
  <2> HIDE DEF R
  <2>6. CommitRecorded'
    BY <1>1, <1>2, <1>3, <1>5, <2>5 DEF CommitRecorded
  <2> QED BY <1>1, <1>2, <1>3, <1>5, <2>5, <2>6 DEF R
<1> QED BY <1>2, <1>4, <1>5

(* The log and the messages of one node, as the handlers use them.         *)
LEMMA NodeTypes ==
    ASSUME TypeInv, NEW i \in Node
    PROVE  /\ log[i] \in Seq(Entry) /\ Len(log[i]) \in Nat /\ LastTerm(log[i]) \in Term
           /\ currentTerm[i] \in Term /\ commitIndex[i] \in Nat
           /\ matchIndex[i] \in [Node -> Nat]
           /\ \A j \in Node : nextIndex[i][j] \in Nat \ {0}
BY LenProperties, LastTermType DEF TypeInv, StateTypeOK

(* An election is started in a term of its own.                            *)
LEMMA ElectionTerm ==
    ASSUME TypeInv, NEW i \in Node, StartElection(i)
    PROVE  /\ currentTerm[i] + 1 \in Term
           /\ currentTerm[i] + 1 > currentTerm[i] /\ currentTerm[i] + 1 >= currentTerm[i]
<1>1. currentTerm[i] + 1 <= MaxTerm
  BY Zenon DEF StartElection
<1>2. currentTerm[i] \in 0..MaxTerm
  BY NodeTypes, Zenon DEF Term
<1>3. MaxTerm \in Nat
  BY BoundAssumption
<1> HIDE DEF StartElection
<1> QED BY <1>1, <1>2, <1>3 DEF Term

(* becomeLeader keeps the types.                                           *)
LEMMA BecomeLeaderType ==
    ASSUME TypeInv, NEW i \in Node, NEW t \in Term, BecomeLeader(i, t)
    PROVE  /\ role' \in [Node -> {Follower, Candidate, Leader}]
           /\ leaderId' \in [Node -> Node \cup {NoNode}]
           /\ electionTimer' \in [Node -> {Armed, Off}]
           /\ heartbeatTimer' \in [Node -> {Armed, Off}]
           /\ nextIndex' \in [Node -> [Node -> Nat \ {0}]]
           /\ matchIndex' \in [Node -> [Node -> Nat]]
           /\ appends' \subseteq AppendEntries
           /\ leadersByTerm' \in [Term -> SUBSET Node]
           /\ leaderLog' \in [Term -> Seq(Entry)]
           /\ flaggedWins' \subseteq Term
<1>1. log[i] \in Seq(Entry) /\ Len(log[i]) \in Nat /\ commitIndex[i] \in Nat
  BY NodeTypes
<1>2. \A j \in Peers(i) :
         AppendEntriesTo(i, j, t, log[i], Len(log[i]) + 1, commitIndex[i]) \in AppendEntries
  BY <1>1, AppendEntriesToType DEF Peers
<1>3. appends' \subseteq AppendEntries
  BY <1>2 DEF BecomeLeader, TypeInv, NetworkTypeOK
<1>4. flaggedWins' \subseteq Term
  BY DEF BecomeLeader, ObserveElectionWin, TypeInv, ObserverTypeOK
<1>5. nextIndex' \in [Node -> [Node -> Nat \ {0}]] /\ matchIndex' \in [Node -> [Node -> Nat]]
  BY <1>1 DEF BecomeLeader, TypeInv, StateTypeOK
<1>6. leadersByTerm' \in [Term -> SUBSET Node] /\ leaderLog' \in [Term -> Seq(Entry)]
  BY <1>1 DEF BecomeLeader, TypeInv, ObserverTypeOK
<1>7. /\ role' \in [Node -> {Follower, Candidate, Leader}]
      /\ leaderId' \in [Node -> Node \cup {NoNode}]
      /\ electionTimer' \in [Node -> {Armed, Off}]
      /\ heartbeatTimer' \in [Node -> {Armed, Off}]
  BY DEF BecomeLeader, TypeInv, StateTypeOK
<1> QED BY <1>3, <1>4, <1>5, <1>6, <1>7

(* One lemma per action: the step keeps the inductive invariant.           *)
LEMMA StartElectionType ==
    ASSUME TypeInv, NEW i \in Node, StartElection(i)
    PROVE  Typed'
<1> DEFINE t == currentTerm[i] + 1
           req(j) == [term |-> t, from |-> i, to |-> j, lastLogIndex |-> Len(log[i]),
                      lastLogTerm |-> LastTerm(log[i])]
<1>1. /\ log[i] \in Seq(Entry) /\ Len(log[i]) \in Nat /\ LastTerm(log[i]) \in Term
      /\ currentTerm[i] \in Term
  BY NodeTypes
<1>2. t \in Term
  BY <1>1, BoundAssumption DEF StartElection, Term
<1>3. requestVotes' \subseteq RequestVote
  <2>1. \A j \in Node : req(j) \in RequestVote
    BY <1>1, <1>2 DEF RequestVote
  <2>2. requestVotes' = requestVotes \cup {req(j) : j \in Peers(i)}
    BY Zenon DEF StartElection
  <2> HIDE DEF req
  <2> QED BY <2>1, <2>2 DEF Peers, TypeInv, NetworkTypeOK
<1>4. ballots' \subseteq [term : Term, voter : Node, candidate : Node, log : Seq(Entry)]
  <2> DEFINE b == [term |-> t, voter |-> i, candidate |-> i, log |-> log[i]]
  <2>1. ballots' = ballots \cup {b}
    BY Zenon DEF StartElection
  <2>2. b \in [term : Term, voter : Node, candidate : Node, log : Seq(Entry)]
    BY <1>1, <1>2
  <2> HIDE DEF b
  <2> QED BY <2>1, <2>2 DEF TypeInv, ObserverTypeOK
<1>5. /\ currentTerm' \in [Node -> Term]
      /\ votedFor' \in [Node -> Node \cup {NoNode}]
      /\ votesFrom' \in [Node -> SUBSET Node]
  <2>1. /\ currentTerm' = [currentTerm EXCEPT ![i] = t]
        /\ votedFor' = [votedFor EXCEPT ![i] = i]
        /\ votesFrom' = [votesFrom EXCEPT ![i] = {i}]
    BY Zenon DEF StartElection
  <2> HIDE DEF t
  <2> QED BY <1>2, <2>1 DEF TypeInv, StateTypeOK
<1>6. UNCHANGED <<log, commitVars, voteReplies, appendReplies, committed, crashes>>
  BY Zenon DEF StartElection
<1>7. CASE BecomeLeader(i, t)
  <2>1. /\ role' \in [Node -> {Follower, Candidate, Leader}]
        /\ leaderId' \in [Node -> Node \cup {NoNode}]
        /\ electionTimer' \in [Node -> {Armed, Off}]
        /\ heartbeatTimer' \in [Node -> {Armed, Off}]
        /\ nextIndex' \in [Node -> [Node -> Nat \ {0}]]
        /\ matchIndex' \in [Node -> [Node -> Nat]]
        /\ appends' \subseteq AppendEntries
        /\ leadersByTerm' \in [Term -> SUBSET Node]
        /\ leaderLog' \in [Term -> Seq(Entry)]
        /\ flaggedWins' \subseteq Term
    <3> HIDE DEF t
    <3> QED BY <1>2, <1>7, BecomeLeaderType
  <2> QED BY <1>3, <1>4, <1>5, <1>6, <2>1, Zenon
          DEF TypeInv, Typed, StateTypeOK, NetworkTypeOK, ObserverTypeOK, CommitRecorded, commitVars
<1>8. CASE ~ BecomeLeader(i, t)
  <2>1. /\ role' = [role EXCEPT ![i] = Candidate]
        /\ leaderId' = [leaderId EXCEPT ![i] = NoNode]
        /\ electionTimer' = [electionTimer EXCEPT ![i] = Armed]
        /\ heartbeatTimer' = [heartbeatTimer EXCEPT ![i] = Off]
        /\ UNCHANGED <<leaderVars, appends, leadersByTerm, leaderLog, flaggedWins>>
    BY <1>8, Zenon DEF StartElection
  <2> QED BY <1>3, <1>4, <1>5, <1>6, <2>1
          DEF TypeInv, Typed, StateTypeOK, NetworkTypeOK, ObserverTypeOK, CommitRecorded,
              commitVars, leaderVars
<1> QED BY <1>7, <1>8

(* A round of heartbeats sends well-formed messages.                       *)
LEMMA SendHeartbeatsType ==
    ASSUME TypeInv, NEW i \in Node, SendHeartbeats(i)
    PROVE  Typed'
<1>1. \A j \in Peers(i) :
        AppendEntriesTo(i, j, currentTerm[i], log[i], nextIndex[i][j], commitIndex[i])
          \in AppendEntries
  BY NodeTypes, AppendEntriesToType DEF Peers
<1>2. appends' \subseteq AppendEntries
  BY <1>1 DEF SendHeartbeats, TypeInv, NetworkTypeOK
<1> QED BY <1>2, Zenon
           DEF SendHeartbeats, TypeInv, Typed, StateTypeOK, NetworkTypeOK, ObserverTypeOK,
          CommitRecorded, persistent, roleVars, timers, leaderVars, commitVars, observers

(* Re-offering refused entries touches no typed variable here.             *)
LEMMA PumpApplyType ==
    ASSUME TypeInv, NEW i \in Node, PumpApply(i)
    PROVE  Typed'
<1>1. UNCHANGED <<persistent, roleVars, timers, leaderVars, commitIndex, network, observers,
                  crashes>>
  BY Zenon DEF PumpApply
<1> QED BY <1>1, Zenon DEF TypeInv, Typed, StateTypeOK, NetworkTypeOK, ObserverTypeOK,
       CommitRecorded, persistent, roleVars, timers, leaderVars, network, observers

(* A batch appends entries of the leader's term.                           *)
LEMMA ProposeBatchType ==
    ASSUME TypeInv, NEW i \in Node, NEW cmds \in Batch, ProposeBatch(i, cmds)
    PROVE  Typed'
<1> DEFINE batch == [k \in DOMAIN cmds |-> [term |-> currentTerm[i], cmd |-> cmds[k]]]
           lg == log[i] \o batch
           c  == AdvanceCommit(i, lg, matchIndex[i])
<1>1. /\ log' = [log EXCEPT ![i] = lg]
      /\ Commit(i, lg, c, currentTerm[i])
      /\ appends' = appends \cup
            {AppendEntriesTo(i, j, currentTerm[i], lg, nextIndex[i][j], c) : j \in Peers(i)}
      /\ heartbeatTimer' = [heartbeatTimer EXCEPT ![i] = Armed]
      /\ leaderLog' = [leaderLog EXCEPT ![currentTerm[i]] = lg]
      /\ UNCHANGED <<currentTerm, votedFor, roleVars, electionTimer, leaderVars,
                     requestVotes, voteReplies, appendReplies, leadersByTerm,
                     flaggedWins, ballots, crashes>>
  BY DEF ProposeBatch
<1>2. log[i] \in Seq(Entry) /\ currentTerm[i] \in Term /\ commitIndex[i] \in Nat
  BY NodeTypes
<1>3. lg \in Seq(Entry)
  <2>1. PICK n \in Nat : cmds \in [1..n -> Command]
    BY BoundAssumption DEF Batch
  <2>2. batch \in [1..n -> Entry]
    BY <1>2, <2>1 DEF Entry
  <2>3. batch \in Seq(Entry)
    <3> HIDE DEF batch
    <3> QED BY <2>1, <2>2, FunctionIsSeq
  <2> HIDE DEF batch
  <2> QED BY <1>2, <2>3, ConcatProperties
<1> HIDE DEF lg
<1>4. c \in Nat /\ (c = commitIndex[i] \/ c <= Len(lg))
  BY <1>2, <1>3, AdvanceCommitProperties
<1> HIDE DEF c
<1>5. Commit(i, lg, c, currentTerm[i])
  BY <1>1, Zenon DEF lg, c
<1>6. /\ commitIndex' \in [Node -> Nat]
      /\ committed' \in Seq([entry : Entry, at : Term])
      /\ CommitRecorded'
  BY <1>2, <1>3, <1>4, <1>5, CommitType, Zenon
<1>7. appends' \subseteq AppendEntries
  <2>1. \A j \in Peers(i) :
          AppendEntriesTo(i, j, currentTerm[i], lg, nextIndex[i][j], c) \in AppendEntries
    BY <1>3, <1>4, NodeTypes, AppendEntriesToType DEF Peers
  <2>2. appends' = appends \cup
          {AppendEntriesTo(i, j, currentTerm[i], lg, nextIndex[i][j], c) : j \in Peers(i)}
    BY <1>1 DEF lg, c
  <2> QED BY <2>1, <2>2 DEF TypeInv, NetworkTypeOK
<1>8. log' \in [Node -> Seq(Entry)] /\ leaderLog' \in [Term -> Seq(Entry)]
  <2>1. log' = [log EXCEPT ![i] = lg] /\ leaderLog' = [leaderLog EXCEPT ![currentTerm[i]] = lg]
    BY <1>1, Zenon DEF lg, c
  <2> QED BY <1>3, <2>1 DEF TypeInv, StateTypeOK, ObserverTypeOK
<1>9. /\ heartbeatTimer' = [heartbeatTimer EXCEPT ![i] = Armed]
      /\ UNCHANGED <<currentTerm, votedFor, roleVars, electionTimer, leaderVars,
                     requestVotes, voteReplies, appendReplies, leadersByTerm,
                     flaggedWins, ballots, crashes>>
  BY <1>1, Zenon
<1> QED BY <1>6, <1>7, <1>8, <1>9, Zenon
        DEF TypeInv, Typed, StateTypeOK, NetworkTypeOK, ObserverTypeOK, roleVars, leaderVars

(* The universal term rule yields a term, a vote, a role and timers.       *)
LEMMA TermRuleType ==
    ASSUME TypeInv, NEW i \in Node, NEW t \in Term
    PROVE  /\ TermAfter(i, t) \in Term /\ TermAfter(i, t) >= t
           /\ TermAfter(i, t) >= currentTerm[i]
           /\ VoteAfter(i, t) \in Node \cup {NoNode}
           /\ LeaderAfter(i, t) \in Node \cup {NoNode}
           /\ RoleAfter(i, t) \in {Follower, Candidate, Leader}
           /\ ElectionTimerAfter(i, t) \in {Armed, Off}
           /\ HeartbeatTimerAfter(i, t) \in {Armed, Off}
<1>1. TermAfter(i, t) \in Term /\ TermAfter(i, t) >= t /\ TermAfter(i, t) >= currentTerm[i]
  BY BoundAssumption DEF TermAfter, NewTerm, Term, TypeInv, StateTypeOK
<1>2. /\ VoteAfter(i, t) \in Node \cup {NoNode}
      /\ LeaderAfter(i, t) \in Node \cup {NoNode}
  BY DEF VoteAfter, LeaderAfter, TypeInv, StateTypeOK
<1>3. RoleAfter(i, t) \in {Follower, Candidate, Leader}
  BY DEF RoleAfter, TypeInv, StateTypeOK
<1>4. ElectionTimerAfter(i, t) \in {Armed, Off} /\ HeartbeatTimerAfter(i, t) \in {Armed, Off}
  BY DEF ElectionTimerAfter, HeartbeatTimerAfter, TypeInv, StateTypeOK
<1> QED BY <1>1, <1>2, <1>3, <1>4

(* A vote request is answered with a well-formed reply.                    *)
LEMMA OnRequestVoteType ==
    ASSUME TypeInv, NEW i \in Node, NEW m \in requestVotes, OnRequestVote(i, m)
    PROVE  Typed'
<1> DEFINE t     == TermAfter(i, m.term)
           voted == VoteAfter(i, m.term)
           grant == /\ m.term = t
                    /\ CandidateLogAtLeastAsUpToDate(m.lastLogTerm, m.lastLogIndex, log[i])
                    /\ voted \in {NoNode, m.from}
<1>1. m.term \in Term /\ m.from \in Node
  BY DEF TypeInv, NetworkTypeOK, RequestVote
<1>2. /\ t \in Term /\ voted \in Node \cup {NoNode}
      /\ LeaderAfter(i, m.term) \in Node \cup {NoNode}
      /\ RoleAfter(i, m.term) \in {Follower, Candidate, Leader}
      /\ ElectionTimerAfter(i, m.term) \in {Armed, Off}
      /\ HeartbeatTimerAfter(i, m.term) \in {Armed, Off}
  BY <1>1, TermRuleType
<1>3. log[i] \in Seq(Entry)
  BY NodeTypes
<1>4. grant \in BOOLEAN
  BY DEF CandidateLogAtLeastAsUpToDate
<1> HIDE DEF t, voted, grant
<1>5. /\ currentTerm' = [currentTerm EXCEPT ![i] = t]
      /\ votedFor' = [votedFor EXCEPT ![i] = IF grant THEN m.from ELSE voted]
      /\ role' = [role EXCEPT ![i] = RoleAfter(i, m.term)]
      /\ leaderId' = [leaderId EXCEPT ![i] = LeaderAfter(i, m.term)]
      /\ electionTimer' = [electionTimer EXCEPT ![i] =
                              IF grant THEN Armed ELSE ElectionTimerAfter(i, m.term)]
      /\ heartbeatTimer' = [heartbeatTimer EXCEPT ![i] = HeartbeatTimerAfter(i, m.term)]
      /\ voteReplies' = voteReplies \cup
            {[term |-> t, from |-> i, to |-> m.from, granted |-> grant]}
      /\ ballots' = IF grant
                    THEN ballots \cup {[term |-> t, voter |-> i, candidate |-> m.from,
                                        log |-> log[i]]}
                    ELSE ballots
      /\ UNCHANGED <<log, votesFrom, leaderVars, commitVars, requestVotes, appends,
                     appendReplies, leadersByTerm, leaderLog, committed, flaggedWins, crashes>>
  BY Zenon DEF OnRequestVote, t, voted, grant
<1>6. StateTypeOK'
  BY <1>1, <1>2, <1>4, <1>5, Zenon DEF TypeInv, StateTypeOK, leaderVars, commitVars
<1>7. NetworkTypeOK'
  <2>1. [term |-> t, from |-> i, to |-> m.from, granted |-> grant] \in RequestVoteReply
    BY <1>1, <1>2, <1>4 DEF RequestVoteReply
  <2> QED BY <1>5, <2>1, Zenon DEF TypeInv, NetworkTypeOK
<1>8. ballots' \subseteq [term : Term, voter : Node, candidate : Node, log : Seq(Entry)]
  <2>1. [term |-> t, voter |-> i, candidate |-> m.from, log |-> log[i]]
          \in [term : Term, voter : Node, candidate : Node, log : Seq(Entry)]
    BY <1>1, <1>2, <1>3
  <2>2. ballots \subseteq [term : Term, voter : Node, candidate : Node, log : Seq(Entry)]
    BY Zenon DEF TypeInv, ObserverTypeOK
  <2> HIDE DEF t, grant
  <2> QED BY <1>5, <2>1, <2>2, Zenon
<1>9. UNCHANGED <<commitIndex, leadersByTerm, leaderLog, committed, flaggedWins>>
  BY <1>5, Zenon DEF commitVars
<1>10. ObserverTypeOK' /\ CommitRecorded'
  BY <1>8, <1>9, Zenon DEF TypeInv, ObserverTypeOK, CommitRecorded
<1> QED BY <1>6, <1>7, <1>10 DEF TypeInv, Typed

(* Counting a vote, and winning, keeps the types.                          *)
LEMMA OnRequestVoteReplyType ==
    ASSUME TypeInv, NEW i \in Node, NEW m \in voteReplies, OnRequestVoteReply(i, m)
    PROVE  Typed'
<1> DEFINE t      == TermAfter(i, m.term)
           counts == role[i] = Candidate /\ m.term = currentTerm[i] /\ m.granted
           votes  == IF counts THEN votesFrom[i] \cup {m.from} ELSE votesFrom[i]
<1>1. m.term \in Term /\ m.from \in Node
  BY DEF TypeInv, NetworkTypeOK, RequestVoteReply
<1>2. /\ t \in Term /\ VoteAfter(i, m.term) \in Node \cup {NoNode}
      /\ LeaderAfter(i, m.term) \in Node \cup {NoNode}
      /\ RoleAfter(i, m.term) \in {Follower, Candidate, Leader}
      /\ ElectionTimerAfter(i, m.term) \in {Armed, Off}
      /\ HeartbeatTimerAfter(i, m.term) \in {Armed, Off}
  BY <1>1, TermRuleType
<1>3. votes \in SUBSET Node
  BY <1>1 DEF TypeInv, StateTypeOK
<1> HIDE DEF t, votes
<1>4. /\ currentTerm' = [currentTerm EXCEPT ![i] = t]
      /\ votedFor' = [votedFor EXCEPT ![i] = VoteAfter(i, m.term)]
      /\ votesFrom' = [votesFrom EXCEPT ![i] = votes]
      /\ UNCHANGED <<log, commitVars, requestVotes, voteReplies, appendReplies,
                     committed, ballots, crashes>>
  BY Zenon DEF OnRequestVoteReply, t, votes
<1>5. CASE BecomeLeader(i, t)
  <2>1. /\ role' \in [Node -> {Follower, Candidate, Leader}]
        /\ leaderId' \in [Node -> Node \cup {NoNode}]
        /\ electionTimer' \in [Node -> {Armed, Off}]
        /\ heartbeatTimer' \in [Node -> {Armed, Off}]
        /\ nextIndex' \in [Node -> [Node -> Nat \ {0}]]
        /\ matchIndex' \in [Node -> [Node -> Nat]]
        /\ appends' \subseteq AppendEntries
        /\ leadersByTerm' \in [Term -> SUBSET Node]
        /\ leaderLog' \in [Term -> Seq(Entry)]
        /\ flaggedWins' \subseteq Term
    BY <1>2, <1>5, BecomeLeaderType, Zenon
  <2> QED BY <1>2, <1>3, <1>4, <2>1, Zenon
          DEF TypeInv, Typed, StateTypeOK, NetworkTypeOK, ObserverTypeOK, CommitRecorded, commitVars
<1>6. CASE ~ BecomeLeader(i, t)
  <2>1. /\ role' = [role EXCEPT ![i] = RoleAfter(i, m.term)]
        /\ leaderId' = [leaderId EXCEPT ![i] = LeaderAfter(i, m.term)]
        /\ electionTimer' = [electionTimer EXCEPT ![i] = ElectionTimerAfter(i, m.term)]
        /\ heartbeatTimer' = [heartbeatTimer EXCEPT ![i] = HeartbeatTimerAfter(i, m.term)]
        /\ UNCHANGED <<leaderVars, appends, leadersByTerm, leaderLog, flaggedWins>>
    BY <1>6, Zenon DEF OnRequestVoteReply, t
  <2> QED BY <1>2, <1>3, <1>4, <2>1, Zenon
          DEF TypeInv, Typed, StateTypeOK, NetworkTypeOK, ObserverTypeOK, CommitRecorded,
              commitVars, leaderVars
<1> QED BY <1>5, <1>6

(* A reject of an older term is well formed.                               *)
LEMMA OnStaleAppendEntriesType ==
    ASSUME TypeInv, NEW i \in Node, NEW m \in appends, OnStaleAppendEntries(i, m)
    PROVE  Typed'
<1>0. m.from \in Node
  BY DEF TypeInv, NetworkTypeOK, AppendEntries
<1>1. currentTerm[i] \in Term /\ 0 \in Term
  BY NodeTypes, TermsAreNat, Zenon
<1>2. AppendReply(i, m, currentTerm[i], FALSE, 0, 0) \in AppendEntriesReply
  BY <1>0, <1>1 DEF AppendReply, AppendEntriesReply
<1> QED BY <1>2, Zenon
           DEF OnStaleAppendEntries, TypeInv, Typed, StateTypeOK, NetworkTypeOK, ObserverTypeOK,
          CommitRecorded, persistent, roleVars, timers, leaderVars, commitVars, observers

(* What a follower makes of a request of its term: the log it keeps or     *)
(* merges is a log that reaches as far as the ack says, the commit index   *)
(* lies within what was confirmed.                                         *)
LEMMA AcceptedAppend ==
    ASSUME TypeInv, NEW i \in Node, NEW m \in appends, PassesConsistencyCheck(i, m)
    PROVE  LET lg == MergedLog(log[i], m, Len(m.entries))
           IN  /\ lg \in Seq(Entry)
               /\ ConfirmedThrough(m) \in Nat
               /\ ConfirmedThrough(m) <= Len(lg)
<1>1. /\ m.entries \in Seq(Entry) /\ m.prevLogIndex \in Nat
      /\ m.prevLogIndex <= Len(log[i])
      /\ log[i] \in Seq(Entry)
  BY NodeTypes DEF TypeInv, NetworkTypeOK, AppendEntries, PassesConsistencyCheck
<1>2. Len(m.entries) \in Nat /\ Len(log[i]) \in Nat
  BY <1>1, LenProperties
<1>3. PresentCount(log[i], m) \in 0..Len(m.entries)
  BY <1>1, PresentCountProperties
<1>4. Len(m.entries) \in PresentCount(log[i], m)..Len(m.entries)
  BY <1>2, <1>3
<1> DEFINE present == PresentCount(log[i], m)
           lg == MergedLog(log[i], m, Len(m.entries))
<1>5. /\ lg \in Seq(Entry)
      /\ m.prevLogIndex + present <= Len(log[i])
      /\ present = Len(m.entries) => lg = log[i]
      /\ present < Len(m.entries) => Len(lg) = m.prevLogIndex + Len(m.entries)
  BY <1>1, <1>4, MergedLogProperties
<1> HIDE DEF present, lg
<1> QED BY <1>1, <1>2, <1>3, <1>5 DEF ConfirmedThrough, present, lg

(* onAppendEntries in the current or a newer term.                         *)
LEMMA OnAppendEntriesType ==
    ASSUME TypeInv, NEW i \in Node, NEW m \in appends, OnAppendEntries(i, m)
    PROVE  Typed'
<1> DEFINE t        == TermAfter(i, m.term)
           accepted == PassesConsistencyCheck(i, m)
           lg       == IF accepted THEN MergedLog(log[i], m, Len(m.entries)) ELSE log[i]
           c        == IF accepted /\ m.leaderCommit > commitIndex[i]
                       THEN Min({m.leaderCommit, ConfirmedThrough(m)})
                       ELSE commitIndex[i]
           reply    == IF accepted THEN AppendReply(i, m, t, TRUE, ConfirmedThrough(m), 0)
                                   ELSE RejectHint(i, m, t)
<1>1. /\ m.term \in Term /\ m.from \in Node /\ m.leaderCommit \in Nat
      /\ m.prevLogIndex \in Nat
      /\ 0 \in Term
  BY BoundAssumption DEF TypeInv, NetworkTypeOK, AppendEntries, Term
<1>2. /\ t \in Term /\ VoteAfter(i, m.term) \in Node \cup {NoNode}
      /\ HeartbeatTimerAfter(i, m.term) \in {Armed, Off}
  BY <1>1, TermRuleType
<1>3. log[i] \in Seq(Entry) /\ Len(log[i]) \in Nat /\ commitIndex[i] \in Nat
  BY NodeTypes
<1>4. lg \in Seq(Entry)
  BY <1>3, AcceptedAppend
<1>5. c \in Nat /\ (c = commitIndex[i] \/ c <= Len(lg))
  <2>1. CASE accepted /\ m.leaderCommit > commitIndex[i]
    <3>1. /\ ConfirmedThrough(m) \in Nat
          /\ ConfirmedThrough(m) <= Len(MergedLog(log[i], m, Len(m.entries)))
      BY <2>1, AcceptedAppend
    <3>2. Len(lg) \in Nat /\ lg = MergedLog(log[i], m, Len(m.entries))
      BY <1>4, <2>1, LenProperties
    <3>3. /\ Min({m.leaderCommit, ConfirmedThrough(m)}) \in Nat
          /\ Min({m.leaderCommit, ConfirmedThrough(m)}) <= ConfirmedThrough(m)
      BY <1>1, <3>1, MinProperties
    <3> HIDE DEF lg
    <3> QED BY <2>1, <3>1, <3>2, <3>3
  <2>2. CASE ~ (accepted /\ m.leaderCommit > commitIndex[i])
    BY <1>3, <2>2
  <2> QED BY <2>1, <2>2
<1>6. reply \in AppendEntriesReply
  <2>1. CASE accepted
    <3>1. ConfirmedThrough(m) \in Nat
      BY <2>1, AcceptedAppend
    <3> QED BY <1>1, <1>2, <2>1, <3>1 DEF AppendReply, AppendEntriesReply
  <2>2. CASE ~ accepted
    <3>1. /\ FirstOfTerm(log[i], m.prevLogIndex) \in Nat
          /\ TermAt(log[i], m.prevLogIndex) \in Term
      BY <1>1, <1>3, FirstOfTermType, TermAtType
    <3> HIDE DEF t
    <3> QED BY <1>1, <1>2, <1>3, <2>2, <3>1
               DEF RejectHint, AppendReply, AppendEntriesReply
  <2> QED BY <2>1, <2>2, Zenon
<1>7. /\ currentTerm' = [currentTerm EXCEPT ![i] = t]
      /\ votedFor' = [votedFor EXCEPT ![i] = VoteAfter(i, m.term)]
      /\ leaderId' = [leaderId EXCEPT ![i] = m.from]
      /\ role' = [role EXCEPT ![i] = Follower]
      /\ electionTimer' = [electionTimer EXCEPT ![i] = Armed]
      /\ heartbeatTimer' = [heartbeatTimer EXCEPT ![i] = HeartbeatTimerAfter(i, m.term)]
      /\ log' = [log EXCEPT ![i] = lg]
      /\ Commit(i, lg, c, t)
      /\ appendReplies' = appendReplies \cup {reply}
      /\ UNCHANGED <<votesFrom, leaderVars, requestVotes, voteReplies, appends,
                     leadersByTerm, leaderLog, flaggedWins, ballots, crashes>>
  BY Zenon DEF OnAppendEntries
<1> HIDE DEF t, lg, c, reply
<1>8. /\ commitIndex' \in [Node -> Nat]
      /\ committed' \in Seq([entry : Entry, at : Term])
      /\ CommitRecorded'
  BY <1>2, <1>4, <1>5, <1>7, CommitType, Zenon
<1>9. StateTypeOK'
  BY <1>1, <1>2, <1>4, <1>7, <1>8, Zenon DEF TypeInv, StateTypeOK, leaderVars
<1>10. NetworkTypeOK'
  BY <1>6, <1>7 DEF TypeInv, NetworkTypeOK
<1>11. ObserverTypeOK'
  BY <1>7, <1>8, Zenon DEF TypeInv, ObserverTypeOK
<1> QED BY <1>8, <1>9, <1>10, <1>11 DEF TypeInv, Typed

(* A reply of a newer term deposes.                                        *)
LEMMA OnStaleAppendReplyType ==
    ASSUME TypeInv, NEW i \in Node, NEW m \in appendReplies, OnStaleAppendReply(i, m)
    PROVE  Typed'
<1>1. m.term \in Term
  BY DEF TypeInv, NetworkTypeOK, AppendEntriesReply
<1>2. /\ ElectionTimerAfter(i, m.term) \in {Armed, Off}
      /\ HeartbeatTimerAfter(i, m.term) \in {Armed, Off}
  BY <1>1, TermRuleType
<1> QED BY <1>1, <1>2, Zenon DEF OnStaleAppendReply, TypeInv, Typed, StateTypeOK, NetworkTypeOK,
          ObserverTypeOK, CommitRecorded, leaderVars, commitVars, network, observers

(* An ack moves the window, and perhaps the commit index.                  *)
LEMMA OnAppendAckType ==
    ASSUME TypeInv, NEW i \in Node, NEW m \in appendReplies, OnAppendAck(i, m)
    PROVE  Typed'
<1> DEFINE j     == m.from
           match == [matchIndex[i] EXCEPT ![j] = m.conflictIndex]
           c     == AdvanceCommit(i, log[i], match)
<1>1. m.from \in Node /\ m.conflictIndex \in Nat
  BY DEF TypeInv, NetworkTypeOK, AppendEntriesReply
<1>2. /\ log[i] \in Seq(Entry) /\ commitIndex[i] \in Nat /\ currentTerm[i] \in Term
      /\ matchIndex[i] \in [Node -> Nat]
  BY NodeTypes
<1>3. match \in [Node -> Nat]
  BY <1>1, <1>2, Zenon
<1>4. c \in Nat /\ (c = commitIndex[i] \/ c <= Len(log[i]))
  BY <1>2, AdvanceCommitProperties
<1>5. /\ matchIndex' = [matchIndex EXCEPT ![i] = match]
      /\ nextIndex' = [nextIndex EXCEPT ![i][j] = m.conflictIndex + 1]
      /\ Commit(i, log[i], c, currentTerm[i])
      /\ appends' = IF m.conflictIndex < Len(log[i])
                    THEN appends \cup {AppendEntriesTo(i, j, currentTerm[i], log[i],
                                                       m.conflictIndex + 1, c)}
                    ELSE appends
      /\ UNCHANGED <<persistent, roleVars, timers, requestVotes, voteReplies, appendReplies,
                     leadersByTerm, leaderLog, flaggedWins, ballots, crashes>>
  BY DEF OnAppendAck
<1> HIDE DEF match, c
<1>6. /\ commitIndex' \in [Node -> Nat]
      /\ committed' \in Seq([entry : Entry, at : Term])
      /\ CommitRecorded'
  BY <1>2, <1>4, <1>5, CommitType, Zenon
<1>7. AppendEntriesTo(i, j, currentTerm[i], log[i], m.conflictIndex + 1, c) \in AppendEntries
  BY <1>1, <1>2, <1>4, AppendEntriesToType
<1>8. nextIndex' \in [Node -> [Node -> Nat \ {0}]] /\ matchIndex' \in [Node -> [Node -> Nat]]
  <2>1. [nextIndex[i] EXCEPT ![j] = m.conflictIndex + 1] \in [Node -> Nat \ {0}]
    <3>1. nextIndex[i] \in [Node -> Nat \ {0}]
      BY DEF TypeInv, StateTypeOK
    <3>2. m.conflictIndex + 1 \in Nat \ {0}
      BY <1>1
    <3> QED BY <1>1, <3>1, <3>2, Zenon
  <2>2. nextIndex' = [nextIndex EXCEPT ![i] = [nextIndex[i] EXCEPT ![j] = m.conflictIndex + 1]]
    BY <1>5 DEF TypeInv, StateTypeOK
  <2>3. nextIndex' \in [Node -> [Node -> Nat \ {0}]]
    BY <2>1, <2>2 DEF TypeInv, StateTypeOK
  <2>4. matchIndex' \in [Node -> [Node -> Nat]]
    BY <1>3, <1>5 DEF TypeInv, StateTypeOK
  <2> QED BY <2>3, <2>4
<1>9. StateTypeOK'
  BY <1>5, <1>6, <1>8, Zenon DEF TypeInv, StateTypeOK, persistent, roleVars, timers
<1>10. NetworkTypeOK'
  BY <1>5, <1>7 DEF TypeInv, NetworkTypeOK
<1>11. ObserverTypeOK'
  BY <1>5, <1>6 DEF TypeInv, ObserverTypeOK
<1> QED BY <1>6, <1>9, <1>10, <1>11 DEF TypeInv, Typed

(* The next index after a reject is at least 1.                            *)
LEMMA LoweredNextType ==
    ASSUME TypeInv, NEW i \in Node, NEW m \in appendReplies
    PROVE  LoweredNext(i, m) \in Nat \ {0}
<1> DEFINE last == LastOfTerm(log[i], m.conflictTerm)
           hint == IF m.conflictTerm = 0 \/ last = 0 THEN m.conflictIndex ELSE last + 1
           low  == Min({hint, nextIndex[i][m.from]})
           S    == {low, matchIndex[i][m.from] + 1, 1}
<1>1. m.from \in Node /\ m.conflictIndex \in Nat
  BY DEF TypeInv, NetworkTypeOK, AppendEntriesReply
<1>2. last \in Nat
  BY LastOfTermType, NodeTypes
<1>3. hint \in Nat
  BY <1>1, <1>2
<1>4. nextIndex[i][m.from] \in Nat /\ matchIndex[i][m.from] \in Nat
  BY <1>1, NodeTypes
<1> HIDE DEF hint
<1>5. low \in Nat
  BY <1>3, <1>4, MinProperties
<1>6. LoweredNext(i, m) = Max(S)
  BY DEF LoweredNext, hint
<1> HIDE DEF low
<1>7. S \in SUBSET (0..(low + matchIndex[i][m.from] + 1)) /\ S # {}
  BY <1>4, <1>5
<1>8. low + matchIndex[i][m.from] + 1 \in Nat
  BY <1>4, <1>5
<1>9. 1 \in S
  OBVIOUS
<1> HIDE DEF S
<1>10. Max(S) \in S /\ \A y \in S : Max(S) >= y
  BY <1>7, <1>8, MaxProperties, Zenon
<1>11. Max(S) \in Nat
  <2>1. Max(S) \in 0..(low + matchIndex[i][m.from] + 1)
    BY <1>7, <1>10, Zenon
  <2> QED BY <1>8, <2>1
<1>12. Max(S) >= 1
  BY <1>9, <1>10
<1> QED BY <1>6, <1>11, <1>12

(* A reject lowers the window and retries.                                 *)
LEMMA OnAppendRejectType ==
    ASSUME TypeInv, NEW i \in Node, NEW m \in appendReplies, OnAppendReject(i, m)
    PROVE  Typed'
<1> DEFINE ni == LoweredNext(i, m)
<1>1. m.from \in Node
  BY DEF TypeInv, NetworkTypeOK, AppendEntriesReply
<1>2. ni \in Nat \ {0}
  BY LoweredNextType
<1>3. AppendEntriesTo(i, m.from, currentTerm[i], log[i], ni, commitIndex[i]) \in AppendEntries
  <2> HIDE DEF ni
  <2> QED BY <1>1, <1>2, NodeTypes, AppendEntriesToType, Zenon
<1> HIDE DEF ni
<1>4. /\ nextIndex' = [nextIndex EXCEPT ![i][m.from] = ni]
      /\ appends' = appends \cup
            {AppendEntriesTo(i, m.from, currentTerm[i], log[i], ni, commitIndex[i])}
      /\ UNCHANGED <<persistent, roleVars, timers, matchIndex, commitVars,
                     requestVotes, voteReplies, appendReplies, observers, crashes>>
  BY DEF OnAppendReject, ni
<1>5. nextIndex' \in [Node -> [Node -> Nat \ {0}]]
  <2>1. nextIndex[i] \in [Node -> Nat \ {0}]
    BY DEF TypeInv, StateTypeOK
  <2>2. [nextIndex[i] EXCEPT ![m.from] = ni] \in [Node -> Nat \ {0}]
    BY <1>1, <1>2, <2>1
  <2>3. nextIndex' = [nextIndex EXCEPT ![i] = [nextIndex[i] EXCEPT ![m.from] = ni]]
    BY <1>4 DEF TypeInv, StateTypeOK
  <2> QED BY <2>2, <2>3 DEF TypeInv, StateTypeOK
<1> QED BY <1>3, <1>4, <1>5, Zenon DEF TypeInv, Typed, StateTypeOK, NetworkTypeOK, ObserverTypeOK,
          CommitRecorded, persistent, roleVars, timers, commitVars, observers

(* A restart resets the volatile state to its types.                       *)
LEMMA ResetVolatileType ==
    ASSUME TypeInv, NEW i \in Node, ResetVolatile(i),
           currentTerm' \in [Node -> Term], votedFor' \in [Node -> Node \cup {NoNode}],
           log' \in [Node -> Seq(Entry)], leaderLog' \in [Term -> Seq(Entry)],
           UNCHANGED <<network, leadersByTerm, committed, flaggedWins, ballots>>
    PROVE  Typed'
<1>1. /\ role' \in [Node -> {Follower, Candidate, Leader}]
      /\ leaderId' \in [Node -> Node \cup {NoNode}]
      /\ votesFrom' \in [Node -> SUBSET Node]
      /\ electionTimer' \in [Node -> {Armed, Off}]
      /\ heartbeatTimer' \in [Node -> {Armed, Off}]
      /\ crashes' \in Nat
  BY DEF ResetVolatile, TypeInv, StateTypeOK
<1>2. /\ nextIndex' \in [Node -> [Node -> Nat \ {0}]]
      /\ matchIndex' \in [Node -> [Node -> Nat]]
  BY DEF ResetVolatile, TypeInv, StateTypeOK
<1>3. /\ commitIndex' \in [Node -> Nat]
      /\ CommitRecorded'
  BY LenProperties
     DEF ResetVolatile, TypeInv, StateTypeOK, ObserverTypeOK, CommitRecorded
<1> QED BY <1>1, <1>2, <1>3, Zenon
        DEF TypeInv, Typed, StateTypeOK, NetworkTypeOK, ObserverTypeOK, network

(* The four crashes keep the types.                                        *)
LEMMA CrashType ==
    ASSUME TypeInv, NEW i \in Node, Crash(i)
    PROVE  Typed'
<1>1. CASE Restart(i)
  BY <1>1, ResetVolatileType, Zenon
     DEF Restart, persistent, TypeInv, StateTypeOK, ObserverTypeOK, observers
<1>2. ASSUME NEW m \in requestVotes \cup voteReplies \cup appends \cup appendReplies,
             CrashAfterTermRule(i, m)
      PROVE  Typed'
  <2>1. m.term \in Term
    BY
       DEF TypeInv, NetworkTypeOK, RequestVote, RequestVoteReply, AppendEntries, AppendEntriesReply
  <2>2. /\ currentTerm' \in [Node -> Term] /\ votedFor' \in [Node -> Node \cup {NoNode}]
        /\ log' \in [Node -> Seq(Entry)]
    BY <1>2, <2>1 DEF CrashAfterTermRule, TypeInv, StateTypeOK
  <2> QED BY <1>2, <2>2, ResetVolatileType, Zenon
          DEF CrashAfterTermRule, TypeInv, ObserverTypeOK, observers
<1>3. ASSUME NEW m \in appends, CrashDuringAppend(i, m)
      PROVE  Typed'
  <2>1. /\ m.term \in Term /\ m.entries \in Seq(Entry) /\ m.prevLogIndex \in Nat
        /\ m.prevLogIndex <= Len(log[i])
    BY <1>3 DEF TypeInv, NetworkTypeOK, AppendEntries, CrashDuringAppend, PassesConsistencyCheck
  <2>2. TermAfter(i, m.term) \in Term /\ VoteAfter(i, m.term) \in Node \cup {NoNode}
    BY <2>1, TermRuleType
  <2>3. PICK n \in PresentCount(log[i], m)..(Len(m.entries) - 1) :
          log' = [log EXCEPT ![i] = MergedLog(log[i], m, n)]
    BY <1>3, Zenon DEF CrashDuringAppend
  <2>4. n \in PresentCount(log[i], m)..Len(m.entries)
    <3>1. PresentCount(log[i], m) \in 0..Len(m.entries)
      BY <2>1, NodeTypes, PresentCountProperties
    <3>2. Len(m.entries) \in Nat
      BY <2>1, LenProperties
    <3> QED BY <2>3, <3>1, <3>2
  <2>5. MergedLog(log[i], m, n) \in Seq(Entry)
    BY <2>1, <2>4, NodeTypes, MergedLogProperties
  <2>6. /\ currentTerm' \in [Node -> Term] /\ votedFor' \in [Node -> Node \cup {NoNode}]
        /\ log' \in [Node -> Seq(Entry)]
    BY <1>3, <2>2, <2>3, <2>5, Zenon DEF CrashDuringAppend, TypeInv, StateTypeOK
  <2> QED BY <1>3, <2>6, ResetVolatileType, Zenon
          DEF CrashDuringAppend, TypeInv, ObserverTypeOK, observers
<1>4. ASSUME NEW cmds \in Batch, CrashDuringPropose(i, cmds)
      PROVE  Typed'
  <2>1. PICK n \in 1..(Len(cmds) - 1) :
          LET lg == log[i] \o [k \in 1..n |-> [term |-> currentTerm[i], cmd |-> cmds[k]]]
          IN  /\ log' = [log EXCEPT ![i] = lg]
              /\ leaderLog' = [leaderLog EXCEPT ![currentTerm[i]] = lg]
    BY <1>4, Zenon DEF CrashDuringPropose
  <2> DEFINE batch == [k \in 1..n |-> [term |-> currentTerm[i], cmd |-> cmds[k]]]
  <2>2. log[i] \in Seq(Entry) /\ currentTerm[i] \in Term
    BY NodeTypes
  <2>3. batch \in [1..n -> Entry] /\ n \in Nat
    <3>1. PICK s \in Nat : cmds \in [1..s -> Command]
      BY BoundAssumption DEF Batch
    <3>2. cmds \in Seq(Command) /\ Len(cmds) = s
      BY <3>1, FunctionIsSeq
    <3>3. n \in Nat /\ \A k \in 1..n : cmds[k] \in Command
      BY <3>1, <3>2
    <3> QED BY <2>2, <3>3 DEF Entry
  <2>4. batch \in Seq(Entry)
    <3> HIDE DEF batch
    <3> QED BY <2>3, FunctionIsSeq
  <2>5. log[i] \o batch \in Seq(Entry)
    <3> HIDE DEF batch
    <3> QED BY <2>2, <2>4, ConcatProperties
  <2> HIDE DEF batch
  <2>6. /\ log' = [log EXCEPT ![i] = log[i] \o batch]
        /\ leaderLog' = [leaderLog EXCEPT ![currentTerm[i]] = log[i] \o batch]
    BY <2>1 DEF batch
  <2>7. /\ currentTerm' \in [Node -> Term] /\ votedFor' \in [Node -> Node \cup {NoNode}]
        /\ log' \in [Node -> Seq(Entry)] /\ leaderLog' \in [Term -> Seq(Entry)]
    BY <1>4, <2>2, <2>5, <2>6, Zenon
       DEF CrashDuringPropose, TypeInv, StateTypeOK, ObserverTypeOK
  <2> QED BY <1>4, <2>7, ResetVolatileType, Zenon DEF CrashDuringPropose
<1> QED BY <1>1, <1>2, <1>3, <1>4 DEF Crash

(* The initial state is well typed.                                        *)
LEMMA InitType == Counting /\ Init => TypeInv
<1> SUFFICES ASSUME Init, Counting PROVE TypeInv
  OBVIOUS
<1>1. 0 \in Term
  BY BoundAssumption DEF Term
<1>2. StateTypeOK
  BY <1>1 DEF Init, StateTypeOK
<1>3. NetworkTypeOK
  BY DEF Init, NetworkTypeOK
<1>4. ObserverTypeOK
  BY DEF Init, ObserverTypeOK
<1>5. CommitRecorded
  BY DEF Init, CommitRecorded
<1> QED BY <1>2, <1>3, <1>4, <1>5 DEF TypeInv

(* Every step of every handler, tick and crash keeps the types.            *)
LEMMA NextType == TypeInv /\ [Next]_vars => TypeInv'
<1> SUFFICES ASSUME TypeInv, [Next]_vars PROVE Typed'
  <2>1. Counting => Counting'
    BY DEF Counting, Majority
  <2> QED BY <2>1 DEF TypeInv, Typed
<1>1. CASE UNCHANGED vars
  BY <1>1, Zenon
     DEF vars, persistent, roleVars, timers, leaderVars, commitVars, network, observers,
              TypeInv, Typed, StateTypeOK, NetworkTypeOK, ObserverTypeOK, CommitRecorded
<1>2. ASSUME NEW i \in Node, Tick(i) PROVE Typed'
  BY <1>2, StartElectionType, SendHeartbeatsType DEF Tick
<1>3. ASSUME NEW i \in Node, Propose(i) PROVE Typed'
  BY <1>3, ProposeBatchType DEF Propose
<1>4. ASSUME NEW i \in Node, PumpApply(i) PROVE Typed'
  BY <1>4, PumpApplyType
<1>5. ASSUME NEW i \in Node, Handle(i) PROVE Typed'
  BY <1>5, OnRequestVoteType, OnRequestVoteReplyType, OnStaleAppendEntriesType,
     OnAppendEntriesType, OnStaleAppendReplyType, OnAppendAckType, OnAppendRejectType DEF Handle
<1>6. ASSUME NEW i \in Node, Crash(i) PROVE Typed'
  BY <1>6, CrashType
<1> QED BY <1>1, <1>2, <1>3, <1>4, <1>5, <1>6 DEF Next

-----------------------------------------------------------------------------
(***************************************************************************)
(* Election Safety.  A ballot is a vote a node made durable.  A node's     *)
(* durable (term, vote) pair remembers its ballot of the term              *)
(* (BallotsHonoured), so no node casts two in one term, whatever restarts  *)
(* come in between; a candidate counts only votes that are ballots of its  *)
(* own term (GrantsAreBallots, CountedVotesAreBallots), so a winner has a  *)
(* majority of ballots (WinsHaveMajority); two majorities share a voter.   *)
(***************************************************************************)

Voted(cast, t, v, c) == \E b \in cast : b.term = t /\ b.voter = v /\ b.candidate = c

(* A ballot binds its voter: the voter has reached the term of the ballot, *)
(* and while it stays in that term its vote is the one of the ballot.      *)
BallotsHonoured ==
    \A b \in ballots :
        /\ b.term <= currentTerm[b.voter]
        /\ b.term = currentTerm[b.voter] => votedFor[b.voter] = b.candidate

GrantsAreBallots == \A m \in voteReplies : m.granted => Voted(ballots, m.term, m.from, m.to)

CountedVotesAreBallots ==
    \A i \in Node : role[i] = Candidate =>
        \A v \in votesFrom[i] : Voted(ballots, currentTerm[i], v, i)

WinsHaveMajority ==
    \A t \in Term : \A i \in leadersByTerm[t] :
        \E Q \in SUBSET Node : Cardinality(Q) >= Majority /\ \A v \in Q : Voted(ballots, t, v, i)

(* The inductive invariant of this module.                                 *)
ElectionInv ==
    /\ BallotsHonoured
    /\ OneVotePerTerm
    /\ GrantsAreBallots
    /\ CountedVotesAreBallots
    /\ WinsHaveMajority

(* The fields of a ballot, and current terms as numbers.                   *)
LEMMA BallotTypes ==
    ASSUME TypeInv, NEW b \in ballots
    PROVE  b.term \in Term /\ b.term \in Nat /\ b.voter \in Node /\ b.candidate \in Node
           /\ b.log \in Seq(Entry)
BY TermsAreNat, Zenon DEF TypeInv, ObserverTypeOK

(* Current terms are numbers, before and after a step.                     *)
LEMMA CurrentTermType ==
    ASSUME TypeInv, TypeInv', NEW i \in Node
    PROVE  currentTerm[i] \in Nat /\ currentTerm'[i] \in Nat
<1>1. currentTerm[i] \in Term
  BY DEF TypeInv, StateTypeOK
<1>2. currentTerm'[i] \in Term
  BY DEF TypeInv, StateTypeOK
<1> QED BY <1>1, <1>2, TermsAreNat, Zenon

(* A larger set of nodes counts at least as many.                          *)
LEMMA NodeCounts ==
    ASSUME TypeInv, NEW Q \in SUBSET Node, NEW P \in SUBSET Q
    PROVE  /\ Cardinality(P) \in Nat /\ Cardinality(Q) \in Nat /\ Majority \in Nat
           /\ Cardinality(P) <= Cardinality(Q)
BY Zenon DEF TypeInv, Counting

(* Two majorities share a node.                                            *)
LEMMA MajoritiesShareNode ==
    ASSUME TypeInv, NEW P \in SUBSET Node, NEW Q \in SUBSET Node,
           Cardinality(P) >= Majority, Cardinality(Q) >= Majority
    PROVE  \E v \in Node : v \in P /\ v \in Q
<1>1. \E v \in P : v \in Q
  BY Zenon DEF TypeInv, Counting
<1> QED BY <1>1

(* One vote per term and a majority per win leave one winner per term.     *)
LEMMA ElectionSafetyFollows == TypeInv /\ ElectionInv => ElectionSafety
<1> SUFFICES ASSUME TypeInv, ElectionInv,
                    NEW t \in Term, NEW a \in leadersByTerm[t], NEW b \in leadersByTerm[t]
             PROVE  a = b
  BY DEF ElectionSafety
<1>1. PICK P \in SUBSET Node : Cardinality(P) >= Majority /\ \A v \in P : Voted(ballots, t, v, a)
  BY DEF ElectionInv, WinsHaveMajority
<1>2. PICK Q \in SUBSET Node : Cardinality(Q) >= Majority /\ \A v \in Q : Voted(ballots, t, v, b)
  BY DEF ElectionInv, WinsHaveMajority
<1>3. PICK v \in Node : v \in P /\ v \in Q
  BY <1>1, <1>2, MajoritiesShareNode
<1>4. Voted(ballots, t, v, a) /\ Voted(ballots, t, v, b)
  BY <1>1, <1>2, <1>3
<1> QED BY <1>4 DEF Voted, ElectionInv, OneVotePerTerm

(* A step that casts and answers no vote, that moves a (term, vote) pair   *)
(* only to a newer term, and that makes nobody a candidate.                *)
LEMMA QuietElectionStep ==
    ASSUME TypeInv, TypeInv', ElectionInv,
           UNCHANGED <<ballots, voteReplies, leadersByTerm>>,
           \A i \in Node : \/ /\ currentTerm'[i] = currentTerm[i]
                              /\ votedFor'[i] = votedFor[i]
                           \/ currentTerm'[i] > currentTerm[i],
           \A i \in Node : role'[i] = Candidate =>
               /\ role[i] = Candidate /\ currentTerm'[i] = currentTerm[i]
               /\ votesFrom'[i] = votesFrom[i]
    PROVE  ElectionInv'
<1>1. \A t, v, c : Voted(ballots', t, v, c) <=> Voted(ballots, t, v, c)
  BY DEF Voted
<1>2. BallotsHonoured'
  <2> SUFFICES ASSUME NEW b \in ballots
               PROVE  /\ b.term <= currentTerm'[b.voter]
                      /\ b.term = currentTerm'[b.voter] => votedFor'[b.voter] = b.candidate
    BY DEF BallotsHonoured
  <2>1. /\ b.term \in Nat /\ b.voter \in Node
        /\ currentTerm[b.voter] \in Nat /\ currentTerm'[b.voter] \in Nat
    BY BallotTypes, CurrentTermType
  <2>2. /\ b.term <= currentTerm[b.voter]
        /\ b.term = currentTerm[b.voter] => votedFor[b.voter] = b.candidate
    BY DEF ElectionInv, BallotsHonoured
  <2> QED BY <2>1, <2>2
<1>3. OneVotePerTerm'
  BY DEF ElectionInv, OneVotePerTerm
<1>4. GrantsAreBallots'
  BY <1>1 DEF ElectionInv, GrantsAreBallots
<1>5. CountedVotesAreBallots'
  BY <1>1 DEF ElectionInv, CountedVotesAreBallots
<1>6. WinsHaveMajority'
  BY <1>1 DEF ElectionInv, WinsHaveMajority
<1> QED BY <1>2, <1>3, <1>4, <1>5, <1>6 DEF ElectionInv

(* Every action but the three of the election is such a step.              *)
LEMMA QuietActions ==
    ASSUME TypeInv, TypeInv', ElectionInv, NEW i \in Node,
           \/ SendHeartbeats(i)
           \/ Propose(i)
           \/ PumpApply(i)
           \/ \E m \in appends : OnStaleAppendEntries(i, m) \/ OnAppendEntries(i, m)
           \/ \E m \in appendReplies :
                 OnStaleAppendReply(i, m) \/ OnAppendAck(i, m) \/ OnAppendReject(i, m)
           \/ Crash(i)
    PROVE  ElectionInv'
<1> DEFINE Quiet ==
      /\ UNCHANGED <<ballots, voteReplies, leadersByTerm>>
      /\ \A j \in Node : \/ /\ currentTerm'[j] = currentTerm[j]
                            /\ votedFor'[j] = votedFor[j]
                         \/ currentTerm'[j] > currentTerm[j]
      /\ \A j \in Node : role'[j] = Candidate =>
            /\ role[j] = Candidate /\ currentTerm'[j] = currentTerm[j]
            /\ votesFrom'[j] = votesFrom[j]
<1> USE DEF Follower, Candidate, Leader
<1>0. StateTypeOK /\ \A j \in Node : currentTerm[j] \in Nat
  BY CurrentTermType, Zenon DEF TypeInv
<1>1. CASE SendHeartbeats(i)
  <2>1. Quiet
    BY <1>1, Zenon DEF SendHeartbeats, persistent, roleVars, observers
  <2> QED BY <2>1, QuietElectionStep, Zenon
<1>2. CASE Propose(i)
  <2>1. Quiet
    BY <1>2, Zenon DEF Propose, ProposeBatch, roleVars
  <2> QED BY <2>1, QuietElectionStep, Zenon
<1>3. CASE PumpApply(i)
  <2>1. Quiet
    BY <1>3, Zenon DEF PumpApply, persistent, roleVars, observers, network
  <2> QED BY <2>1, QuietElectionStep, Zenon
<1>4. ASSUME NEW m \in appends, OnStaleAppendEntries(i, m) PROVE ElectionInv'
  <2>1. Quiet
    BY <1>4, Zenon DEF OnStaleAppendEntries, persistent, roleVars, observers
  <2> QED BY <2>1, QuietElectionStep, Zenon
<1>5. ASSUME NEW m \in appends, OnAppendEntries(i, m) PROVE ElectionInv'
  <2>1. UNCHANGED <<ballots, voteReplies, leadersByTerm, votesFrom>>
    BY <1>5, Zenon DEF OnAppendEntries
  <2>2. /\ currentTerm' = [currentTerm EXCEPT ![i] = TermAfter(i, m.term)]
        /\ votedFor' = [votedFor EXCEPT ![i] = VoteAfter(i, m.term)]
        /\ role' = [role EXCEPT ![i] = Follower]
    BY <1>5, Zenon DEF OnAppendEntries
  <2>3. Quiet
    BY <1>0, <2>1, <2>2 DEF StateTypeOK, TermAfter, VoteAfter, NewTerm
  <2> QED BY <2>3, QuietElectionStep, Zenon
<1>6. ASSUME NEW m \in appendReplies, OnStaleAppendReply(i, m) PROVE ElectionInv'
  <2>1. Quiet
    BY <1>0, <1>6 DEF OnStaleAppendReply, StateTypeOK, NewTerm, network, observers
  <2> QED BY <2>1, QuietElectionStep, Zenon
<1>7. ASSUME NEW m \in appendReplies, OnAppendAck(i, m) PROVE ElectionInv'
  <2>1. Quiet
    BY <1>7, Zenon DEF OnAppendAck, persistent, roleVars
  <2> QED BY <2>1, QuietElectionStep, Zenon
<1>8. ASSUME NEW m \in appendReplies, OnAppendReject(i, m) PROVE ElectionInv'
  <2>1. Quiet
    BY <1>8 DEF OnAppendReject, persistent, roleVars, observers
  <2> QED BY <2>1, QuietElectionStep, Zenon
<1>9. CASE Crash(i)
  <2>1. /\ role' = [role EXCEPT ![i] = Follower]
        /\ votesFrom' = [votesFrom EXCEPT ![i] = {}]
        /\ UNCHANGED <<ballots, voteReplies, leadersByTerm>>
    BY <1>9, Zenon
       DEF Crash, Restart, CrashAfterTermRule, CrashDuringAppend, CrashDuringPropose,
                ResetVolatile, network, observers
  <2>2. \/ UNCHANGED <<currentTerm, votedFor>>
        \/ \E t : /\ currentTerm' = [currentTerm EXCEPT ![i] = TermAfter(i, t)]
                  /\ votedFor' = [votedFor EXCEPT ![i] = VoteAfter(i, t)]
    BY <1>9, Zenon
       DEF Crash, Restart, CrashAfterTermRule, CrashDuringAppend, CrashDuringPropose, persistent,
                TermAfter, VoteAfter
  <2>3. Quiet
    BY <1>0, <2>1, <2>2 DEF StateTypeOK, TermAfter, VoteAfter, NewTerm
  <2> QED BY <2>3, QuietElectionStep, Zenon
<1> QED BY <1>1, <1>2, <1>3, <1>4, <1>5, <1>6, <1>7, <1>8, <1>9

(* A win recorded for a candidate with a majority of ballots, ballots only *)
(* growing, keeps every win backed by a majority.                          *)
LEMMA WinsStayBacked ==
    ASSUME TypeInv, TypeInv', ElectionInv, ballots \subseteq ballots',
           NEW i \in Node, NEW t \in Term,
           \/ leadersByTerm' = leadersByTerm
           \/ /\ leadersByTerm' = [leadersByTerm EXCEPT ![t] = @ \cup {i}]
              /\ \E Q \in SUBSET Node : Cardinality(Q) >= Majority /\ \A v \in Q : Voted(ballots', t, v, i)
    PROVE  WinsHaveMajority'
<1>1. \A u, v, c : Voted(ballots, u, v, c) => Voted(ballots', u, v, c)
  BY DEF Voted
<1> SUFFICES ASSUME NEW u \in Term, NEW j \in leadersByTerm'[u]
             PROVE  \E Q \in SUBSET Node : Cardinality(Q) >= Majority /\ \A v \in Q : Voted(ballots', u, v, j)
  BY DEF WinsHaveMajority
<1>2. CASE j \in leadersByTerm[u]
  BY <1>1, <1>2 DEF ElectionInv, WinsHaveMajority
<1>3. CASE j \notin leadersByTerm[u]
  <2>1. u = t /\ j = i
    BY <1>3 DEF TypeInv, ObserverTypeOK
  <2>2. leadersByTerm' # leadersByTerm
    BY <1>3
  <2> QED BY <2>1, <2>2
<1> QED BY <1>2, <1>3

(* A new ballot is the voter's only one of its term.                       *)
LEMMA CastBallot ==
    ASSUME TypeInv, TypeInv', ElectionInv, NEW i \in Node, NEW t \in Term, NEW c \in Node,
           NEW lg,
           ballots' = ballots \cup {[term |-> t, voter |-> i, candidate |-> c, log |-> lg]},
           currentTerm' = [currentTerm EXCEPT ![i] = t],
           votedFor' = [votedFor EXCEPT ![i] = c],
           \/ t > currentTerm[i]
           \/ t = currentTerm[i] /\ votedFor[i] \in {NoNode, c}
    PROVE  BallotsHonoured' /\ OneVotePerTerm'
<1> DEFINE new == [term |-> t, voter |-> i, candidate |-> c, log |-> lg]
<1>0. StateTypeOK /\ \A j \in Node : currentTerm[j] \in Nat /\ t \in Nat
  BY CurrentTermType, TermsAreNat DEF TypeInv
<1>1. \A b \in ballots : /\ b.term \in Nat /\ b.voter \in Node /\ b.candidate \in Node
                         /\ b.candidate # NoNode
                         /\ b.term <= currentTerm[b.voter]
                         /\ b.term = currentTerm[b.voter] => votedFor[b.voter] = b.candidate
  BY BallotTypes, NodeAssumption DEF ElectionInv, BallotsHonoured
<1>2. \A b \in ballots : b.voter = i /\ b.term = t => b.candidate = c
  BY <1>0, <1>1
<1>3. \A b \in ballots : /\ b.term <= currentTerm'[b.voter]
                         /\ b.term = currentTerm'[b.voter] => votedFor'[b.voter] = b.candidate
  <2> TAKE b \in ballots
  <2>1. CASE b.voter = i
    <3>1. currentTerm'[i] = t /\ votedFor'[i] = c
      BY DEF StateTypeOK, TypeInv
    <3> QED BY <1>0, <1>1, <1>2, <2>1, <3>1
  <2>2. CASE b.voter # i
    <3>1. currentTerm'[b.voter] = currentTerm[b.voter] /\ votedFor'[b.voter] = votedFor[b.voter]
      BY <1>1, <2>2 DEF StateTypeOK, TypeInv
    <3> QED BY <1>1, <3>1
  <2> QED BY <2>1, <2>2
<1>4. new.term <= currentTerm'[new.voter] /\ votedFor'[new.voter] = new.candidate
  BY <1>0 DEF StateTypeOK
<1>5. BallotsHonoured'
  BY <1>3, <1>4 DEF BallotsHonoured
<1>6. OneVotePerTerm'
  BY <1>2 DEF OneVotePerTerm, ElectionInv
<1> QED BY <1>5, <1>6

(* startElection votes for itself in a term nobody has asked it for.       *)
LEMMA StartElectionKeeps ==
    ASSUME TypeInv, TypeInv', ElectionInv, NEW i \in Node, StartElection(i)
    PROVE  ElectionInv'
<1> DEFINE t == currentTerm[i] + 1
<1>0. StateTypeOK /\ currentTerm[i] \in Nat
  BY CurrentTermType DEF TypeInv
<1>1. /\ currentTerm' = [currentTerm EXCEPT ![i] = t]
      /\ votedFor' = [votedFor EXCEPT ![i] = i]
      /\ votesFrom' = [votesFrom EXCEPT ![i] = {i}]
      /\ ballots' = ballots \cup {[term |-> t, voter |-> i, candidate |-> i, log |-> log[i]]}
      /\ voteReplies' = voteReplies
  BY Zenon DEF StartElection
<1>2. t \in Term
  BY ElectionTerm, Zenon
<1>3. t > currentTerm[i]
  BY <1>0
<1>4. BallotsHonoured' /\ OneVotePerTerm'
  <2> HIDE DEF t
  <2> QED BY <1>1, <1>2, <1>3, CastBallot, Zenon
<1>5. Voted(ballots', t, i, i)
  <2> HIDE DEF t
  <2>1. [term |-> t, voter |-> i, candidate |-> i, log |-> log[i]] \in ballots'
    BY <1>1
  <2> QED BY <2>1 DEF Voted
<1>6. \A u, v, c : Voted(ballots, u, v, c) => Voted(ballots', u, v, c)
  BY <1>1 DEF Voted
<1>7. GrantsAreBallots'
  BY <1>1, <1>6 DEF ElectionInv, GrantsAreBallots
<1>8. CountedVotesAreBallots'
  <2> SUFFICES ASSUME NEW j \in Node, role'[j] = Candidate, NEW v \in votesFrom'[j]
               PROVE  Voted(ballots', currentTerm'[j], v, j)
    BY DEF CountedVotesAreBallots
  <2>1. CASE j = i
    <3>1. v = i /\ currentTerm'[j] = t
      BY <1>0, <1>1, <2>1 DEF StateTypeOK
    <3> QED BY <1>5, <2>1, <3>1
  <2>2. CASE j # i
    <3>1. role'[j] = role[j]
      <4>1. \E r : role' = [role EXCEPT ![i] = r]
        BY Zenon DEF StartElection, BecomeLeader
      <4> QED BY <1>0, <2>2, <4>1 DEF StateTypeOK
    <3>2. votesFrom'[j] = votesFrom[j] /\ currentTerm'[j] = currentTerm[j]
      BY <1>0, <1>1, <2>2 DEF StateTypeOK
    <3>3. Voted(ballots, currentTerm[j], v, j)
      BY <3>1, <3>2 DEF ElectionInv, CountedVotesAreBallots
    <3> QED BY <1>6, <3>2, <3>3
  <2> QED BY <2>1, <2>2
<1>9. WinsHaveMajority'
  <2>1. ballots \subseteq ballots'
    BY <1>1
  <2>2. CASE Cardinality({i}) >= Majority
    <3>1. leadersByTerm' = [leadersByTerm EXCEPT ![t] = @ \cup {i}]
      BY <2>2, Zenon DEF StartElection, BecomeLeader
    <3>2. {i} \in SUBSET Node /\ \A v \in {i} : Voted(ballots', t, v, i)
      BY <1>5
    <3> HIDE DEF t
    <3> QED BY <1>2, <2>1, <2>2, <3>1, <3>2, WinsStayBacked, Zenon
  <2>3. CASE ~ (Cardinality({i}) >= Majority)
    <3>1. leadersByTerm' = leadersByTerm
      BY <2>3, Zenon DEF StartElection
    <3> HIDE DEF t
    <3> QED BY <1>2, <2>1, <3>1, WinsStayBacked
  <2> QED BY <2>2, <2>3
<1> QED BY <1>4, <1>7, <1>8, <1>9 DEF ElectionInv

(* onRequestVote grants at most one candidate per term.                    *)
LEMMA OnRequestVoteKeeps ==
    ASSUME TypeInv, TypeInv', ElectionInv, NEW i \in Node, NEW m \in requestVotes,
           OnRequestVote(i, m)
    PROVE  ElectionInv'
<1> DEFINE t     == TermAfter(i, m.term)
           voted == VoteAfter(i, m.term)
           grant == /\ m.term = t
                    /\ CandidateLogAtLeastAsUpToDate(m.lastLogTerm, m.lastLogIndex, log[i])
                    /\ voted \in {NoNode, m.from}
           reply == [term |-> t, from |-> i, to |-> m.from, granted |-> grant]
           new   == [term |-> t, voter |-> i, candidate |-> m.from, log |-> log[i]]
<1>0. /\ StateTypeOK /\ \A j \in Node : currentTerm[j] \in Nat
      /\ m.term \in Term /\ m.term \in Nat /\ m.from \in Node
  BY CurrentTermType, TermsAreNat, Zenon DEF TypeInv, NetworkTypeOK, RequestVote
<1>1. t \in Term
  BY <1>0, TermRuleType
<1>2. \/ t > currentTerm[i] /\ voted = NoNode
      \/ t = currentTerm[i] /\ voted = votedFor[i]
  BY <1>0 DEF TermAfter, VoteAfter, NewTerm
<1> HIDE DEF t, voted, grant
<1>3. /\ currentTerm' = [currentTerm EXCEPT ![i] = t]
      /\ votedFor' = [votedFor EXCEPT ![i] = IF grant THEN m.from ELSE voted]
      /\ role' = [role EXCEPT ![i] = RoleAfter(i, m.term)]
      /\ voteReplies' = voteReplies \cup {reply}
      /\ ballots' = IF grant THEN ballots \cup {new} ELSE ballots
      /\ UNCHANGED <<votesFrom, leadersByTerm>>
  BY Zenon DEF OnRequestVote, t, voted, grant
<1>4. ballots \subseteq ballots'
  BY <1>3
<1>5. \A u, v, c : Voted(ballots, u, v, c) => Voted(ballots', u, v, c)
  BY <1>4 DEF Voted
<1>6. BallotsHonoured' /\ OneVotePerTerm'
  <2>1. CASE grant
    <3>1. voted \in {NoNode, m.from}
      BY <2>1 DEF grant
    <3>2. t > currentTerm[i] \/ (t = currentTerm[i] /\ votedFor[i] \in {NoNode, m.from})
      BY <1>2, <3>1
    <3> QED BY <1>0, <1>1, <1>3, <2>1, <3>2, CastBallot, Zenon
  <2>2. CASE ~ grant
    <3>1. ballots' = ballots
      BY <1>3, <2>2
    <3>2. OneVotePerTerm'
      BY <3>1 DEF ElectionInv, OneVotePerTerm
    <3>3. ASSUME NEW b \in ballots
          PROVE  /\ b.term <= currentTerm'[b.voter]
                 /\ b.term = currentTerm'[b.voter] => votedFor'[b.voter] = b.candidate
      <4>1. b.term \in Nat /\ b.voter \in Node
        BY BallotTypes
      <4>2. /\ b.term <= currentTerm[b.voter]
            /\ b.term = currentTerm[b.voter] => votedFor[b.voter] = b.candidate
        BY DEF ElectionInv, BallotsHonoured
      <4>3. t \in Nat
        BY <1>1, TermsAreNat
      <4>4. CASE b.voter = i
        <5>1. currentTerm'[i] = t /\ votedFor'[i] = voted
          BY <1>3, <2>2, Zenon DEF StateTypeOK, TypeInv
        <5> QED BY <1>0, <1>2, <4>1, <4>2, <4>3, <4>4, <5>1
      <4>5. CASE b.voter # i
        <5>1. /\ currentTerm'[b.voter] = currentTerm[b.voter]
              /\ votedFor'[b.voter] = votedFor[b.voter]
          BY <1>3, <4>1, <4>5, Zenon DEF StateTypeOK, TypeInv
        <5> QED BY <4>2, <5>1, Zenon
      <4> QED BY <4>4, <4>5
    <3> QED BY <3>1, <3>2, <3>3 DEF BallotsHonoured
  <2> QED BY <2>1, <2>2
<1>7. GrantsAreBallots'
  <2>1. grant => Voted(ballots', t, i, m.from)
    <3> SUFFICES ASSUME grant PROVE Voted(ballots', t, i, m.from)
      OBVIOUS
    <3>1. new \in ballots'
      BY <1>3
    <3> QED BY <3>1 DEF Voted
  <2>2. ASSUME NEW r \in voteReplies', r.granted PROVE Voted(ballots', r.term, r.from, r.to)
    <3>1. CASE r \in voteReplies
      BY <1>5, <2>2, <3>1 DEF ElectionInv, GrantsAreBallots
    <3>2. CASE r = reply
      BY <2>1, <2>2, <3>2
    <3> QED BY <1>3, <3>1, <3>2
  <2> QED BY <2>2 DEF GrantsAreBallots
<1>8. CountedVotesAreBallots'
  <2> SUFFICES ASSUME NEW j \in Node, role'[j] = Candidate, NEW v \in votesFrom'[j]
               PROVE  Voted(ballots', currentTerm'[j], v, j)
    BY Zenon DEF CountedVotesAreBallots
  <2>1. role[j] = Candidate /\ currentTerm'[j] = currentTerm[j]
    BY <1>0, <1>2, <1>3, Zenon
       DEF StateTypeOK, RoleAfter, NewTerm, t, TermAfter, Follower, Candidate
  <2>2. Voted(ballots, currentTerm[j], v, j)
    BY <1>3, <2>1, Zenon DEF ElectionInv, CountedVotesAreBallots
  <2> QED BY <1>5, <2>1, <2>2, Zenon
<1>9. WinsHaveMajority'
  BY <1>1, <1>3, <1>4, WinsStayBacked
<1> QED BY <1>6, <1>7, <1>8, <1>9 DEF ElectionInv

(* onRequestVoteReply counts ballots of the candidate's own term only.     *)
LEMMA OnRequestVoteReplyKeeps ==
    ASSUME TypeInv, TypeInv', ElectionInv, NEW i \in Node, NEW m \in voteReplies,
           OnRequestVoteReply(i, m)
    PROVE  ElectionInv'
<1> DEFINE t      == TermAfter(i, m.term)
           counts == role[i] = Candidate /\ m.term = currentTerm[i] /\ m.granted
           votes  == IF counts THEN votesFrom[i] \cup {m.from} ELSE votesFrom[i]
           wins   == counts /\ Cardinality(votes) >= Majority
<1>0. /\ StateTypeOK /\ \A j \in Node : currentTerm[j] \in Nat
      /\ m.term \in Term /\ m.term \in Nat /\ m.from \in Node /\ m.to = i
  BY CurrentTermType, TermsAreNat, Zenon
     DEF TypeInv, NetworkTypeOK, RequestVoteReply, OnRequestVoteReply
<1>1. t \in Term
  BY <1>0, TermRuleType
<1>2. /\ currentTerm' = [currentTerm EXCEPT ![i] = t]
      /\ votedFor' = [votedFor EXCEPT ![i] = VoteAfter(i, m.term)]
      /\ votesFrom' = [votesFrom EXCEPT ![i] = votes]
      /\ UNCHANGED <<voteReplies, ballots>>
      /\ wins => BecomeLeader(i, t)
      /\ ~wins => /\ role' = [role EXCEPT ![i] = RoleAfter(i, m.term)]
                  /\ leadersByTerm' = leadersByTerm
  BY Zenon DEF OnRequestVoteReply
<1>3. \A v \in votes : role[i] = Candidate => Voted(ballots, currentTerm[i], v, i)
  BY <1>0 DEF ElectionInv, CountedVotesAreBallots, GrantsAreBallots
<1>4. counts => t = currentTerm[i]
  BY <1>0 DEF TermAfter, NewTerm
<1>5. votes \in SUBSET Node
  BY <1>0, Zenon DEF StateTypeOK
<1> HIDE DEF t, counts, votes
<1>6. BallotsHonoured'
  <2> SUFFICES ASSUME NEW b \in ballots
               PROVE  /\ b.term <= currentTerm'[b.voter]
                      /\ b.term = currentTerm'[b.voter] => votedFor'[b.voter] = b.candidate
    BY <1>2 DEF BallotsHonoured
  <2>1. b.term \in Nat /\ b.voter \in Node
    BY BallotTypes
  <2>2. /\ b.term <= currentTerm[b.voter]
        /\ b.term = currentTerm[b.voter] => votedFor[b.voter] = b.candidate
    BY DEF ElectionInv, BallotsHonoured
  <2>3. CASE b.voter = i
    <3>1. currentTerm'[i] = TermAfter(i, m.term) /\ votedFor'[i] = VoteAfter(i, m.term)
      BY <1>0, <1>2, Zenon DEF StateTypeOK, t
    <3> QED BY <1>0, <2>1, <2>2, <2>3, <3>1 DEF TermAfter, VoteAfter, NewTerm
  <2>4. CASE b.voter # i
    <3>1. /\ currentTerm'[b.voter] = currentTerm[b.voter]
          /\ votedFor'[b.voter] = votedFor[b.voter]
      BY <1>0, <1>2, <2>1, <2>4, Zenon DEF StateTypeOK
    <3> QED BY <2>2, <3>1
  <2> QED BY <2>3, <2>4
<1>7. OneVotePerTerm'
  BY <1>2 DEF ElectionInv, OneVotePerTerm
<1>8. GrantsAreBallots'
  BY <1>2 DEF ElectionInv, GrantsAreBallots
<1>9. CountedVotesAreBallots'
  <2> SUFFICES ASSUME NEW j \in Node, role'[j] = Candidate, NEW v \in votesFrom'[j]
               PROVE  Voted(ballots', currentTerm'[j], v, j)
    BY DEF CountedVotesAreBallots
  <2>1. CASE j = i
    <3>1. ~ wins
      <4> SUFFICES ASSUME wins PROVE role'[i] = Leader
        BY <2>1 DEF Leader, Candidate
      <4> QED BY <1>0, <1>2, Zenon DEF BecomeLeader, StateTypeOK
    <3>2. role'[i] = RoleAfter(i, m.term) /\ currentTerm'[i] = t /\ votesFrom'[i] = votes
      BY <1>0, <1>2, <3>1, Zenon DEF StateTypeOK
    <3>3. role[i] = Candidate /\ t = currentTerm[i]
      BY <2>1, <3>2, Zenon DEF RoleAfter, t, TermAfter, Follower, Candidate
    <3> QED BY <1>2, <1>3, <2>1, <3>2, <3>3
  <2>2. CASE j # i
    <3>1. \E r : role' = [role EXCEPT ![i] = r]
      BY <1>2, Zenon DEF BecomeLeader
    <3>2. role'[j] = role[j] /\ currentTerm'[j] = currentTerm[j] /\ votesFrom'[j] = votesFrom[j]
      BY <1>0, <1>2, <2>2, <3>1, Zenon DEF StateTypeOK
    <3> QED BY <1>2, <3>2 DEF ElectionInv, CountedVotesAreBallots
  <2> QED BY <2>1, <2>2
<1>10. WinsHaveMajority'
  <2>1. CASE wins
    <3>1. leadersByTerm' = [leadersByTerm EXCEPT ![t] = @ \cup {i}]
      BY <1>2, <2>1, Zenon DEF BecomeLeader
    <3>2. \A v \in votes : Voted(ballots', t, v, i)
      BY <1>2, <1>3, <1>4, <2>1 DEF counts
    <3> QED BY <1>1, <1>2, <1>5, <2>1, <3>1, <3>2, WinsStayBacked, Zenon
  <2>2. CASE ~ wins
    BY <1>1, <1>2, <2>2, WinsStayBacked, Zenon
  <2> QED BY <2>1, <2>2
<1> QED BY <1>6, <1>7, <1>8, <1>9, <1>10 DEF ElectionInv

(* Before anything happened nobody voted and nobody won.                   *)
LEMMA InitElection == Init => ElectionInv
BY Zenon DEF Init, ElectionInv, BallotsHonoured, OneVotePerTerm, GrantsAreBallots,
       CountedVotesAreBallots, WinsHaveMajority, Follower, Candidate

(* Every step keeps the election invariant.                                *)
LEMMA NextElection == TypeInv /\ TypeInv' /\ ElectionInv /\ [Next]_vars => ElectionInv'
<1> SUFFICES ASSUME TypeInv, TypeInv', ElectionInv, [Next]_vars PROVE ElectionInv'
  OBVIOUS
<1>1. CASE UNCHANGED vars
  BY <1>1, QuietElectionStep, Zenon
     DEF vars, persistent, roleVars, network, observers
<1>2. ASSUME NEW i \in Node, Tick(i) PROVE ElectionInv'
  BY <1>2, StartElectionKeeps, QuietActions DEF Tick
<1>3. ASSUME NEW i \in Node, Propose(i) \/ PumpApply(i) \/ Crash(i) PROVE ElectionInv'
  BY <1>3, QuietActions
<1>4. ASSUME NEW i \in Node, Handle(i) PROVE ElectionInv'
  BY <1>4, OnRequestVoteKeeps, OnRequestVoteReplyKeeps, QuietActions DEF Handle
<1> QED BY <1>1, <1>2, <1>3, <1>4 DEF Next

-----------------------------------------------------------------------------
(***************************************************************************)
(* Who acts as a leader: only a node that won its current term.  An        *)
(* AppendEntries therefore names a winner of its term, and so does the     *)
(* hint a node takes from it.  With Election Safety, no leader ever        *)
(* receives an AppendEntries of its own term.                              *)
(***************************************************************************)

(* A leader won its term (becomeLeader), and stays one only in that term.  *)
LeadersWon == \A i \in Node : role[i] = Leader => i \in leadersByTerm[currentTerm[i]]

(* Requests come from winners of their term, and go to others              *)
(* (sendAppendEntries, broadcastAppendEntries).                            *)
SendersWon == \A m \in appends : m.from \in leadersByTerm[m.term] /\ m.to # m.from

(* Replies go back to another node.                                        *)
RepliesReturn == \A m \in appendReplies : m.to # m.from

(* The inductive invariant of this part.                                   *)
LeadersInv == LeadersWon /\ SendersWon /\ RepliesReturn /\ LeaderHintTruthful

(* The second half of NoImpossibleMessage: the branch in which             *)
(* onAppendEntries logs an Election Safety violation is not reached        *)
(* (raft_core.cpp:347).                                                    *)
NoRivalLeader == \A m \in appends : ~ (role[m.to] = Leader /\ m.term = currentTerm[m.to])

(* A step after which whoever leads, sends or is named has won, or did so  *)
(* already in the same term.                                               *)
LEMMA HonestStep ==
    ASSUME TypeInv, TypeInv', LeadersInv,
           \A t \in Term : leadersByTerm[t] \subseteq leadersByTerm'[t],
           \A m \in appends' \ appends : m.from \in leadersByTerm'[m.term] /\ m.to # m.from,
           \A m \in appendReplies' \ appendReplies : m.to # m.from,
           \A j \in Node : role'[j] = Leader =>
               \/ role[j] = Leader /\ currentTerm'[j] = currentTerm[j]
               \/ j \in leadersByTerm'[currentTerm'[j]],
           \A j \in Node : leaderId'[j] # NoNode =>
               \/ leaderId'[j] = leaderId[j] /\ currentTerm'[j] = currentTerm[j]
               \/ leaderId'[j] \in leadersByTerm'[currentTerm'[j]]
    PROVE  LeadersInv'
<1>1. \A j \in Node : currentTerm[j] \in Term
  BY Zenon DEF TypeInv, StateTypeOK
<1>2. LeadersWon'
  BY <1>1, Zenon DEF LeadersInv, LeadersWon
<1>3. SendersWon'
  <2> SUFFICES ASSUME NEW m \in appends'
               PROVE  m.from \in leadersByTerm'[m.term] /\ m.to # m.from
    BY DEF SendersWon
  <2>1. CASE m \in appends
    <3>1. m.term \in Term
      BY <2>1, Zenon DEF TypeInv, NetworkTypeOK, AppendEntries
    <3>2. m.from \in leadersByTerm[m.term] /\ m.to # m.from
      BY <2>1 DEF LeadersInv, SendersWon
    <3> QED BY <3>1, <3>2
  <2> QED BY <2>1, Zenon
<1>4. LeaderHintTruthful'
  BY <1>1 DEF LeadersInv, LeaderHintTruthful
<1>5. RepliesReturn'
  BY DEF LeadersInv, RepliesReturn
<1> QED BY <1>2, <1>3, <1>4, <1>5, Zenon DEF LeadersInv

(* becomeLeader records the win before its first AppendEntries leaves.     *)
LEMMA WinIsHonest ==
    ASSUME TypeInv, TypeInv', LeadersInv, NEW i \in Node, NEW t \in Term, BecomeLeader(i, t),
           currentTerm' = [currentTerm EXCEPT ![i] = t], appendReplies' = appendReplies
    PROVE  LeadersInv'
<1>0. StateTypeOK /\ ObserverTypeOK
  BY DEF TypeInv
<1>1. /\ leadersByTerm' = [leadersByTerm EXCEPT ![t] = @ \cup {i}]
      /\ role' = [role EXCEPT ![i] = Leader]
      /\ leaderId' = [leaderId EXCEPT ![i] = i]
  BY Zenon DEF BecomeLeader
<1>2. i \in leadersByTerm'[t] /\ \A u \in Term : leadersByTerm[u] \subseteq leadersByTerm'[u]
  BY <1>0, <1>1 DEF ObserverTypeOK
<1>3. \A m \in appends' \ appends : m.term = t /\ m.from = i /\ m.to \in Peers(i)
  <2>1. appends' = appends \cup
            {AppendEntriesTo(i, j, t, log[i], Len(log[i]) + 1, commitIndex[i]) : j \in Peers(i)}
    BY Zenon DEF BecomeLeader
  <2>2. TAKE m \in appends' \ appends
  <2>3. PICK j \in Peers(i) :
            m = AppendEntriesTo(i, j, t, log[i], Len(log[i]) + 1, commitIndex[i])
    BY <2>1, Zenon
  <2> QED BY <2>3, Zenon DEF AppendEntriesTo
<1>4. \A m \in appends' \ appends : m.from \in leadersByTerm'[m.term] /\ m.to # m.from
  BY <1>2, <1>3 DEF Peers
<1>5. \A j \in Node : role'[j] = Leader =>
         \/ role[j] = Leader /\ currentTerm'[j] = currentTerm[j]
         \/ j \in leadersByTerm'[currentTerm'[j]]
  BY <1>0, <1>1, <1>2 DEF StateTypeOK
<1>6. \A j \in Node : leaderId'[j] # NoNode =>
         \/ leaderId'[j] = leaderId[j] /\ currentTerm'[j] = currentTerm[j]
         \/ leaderId'[j] \in leadersByTerm'[currentTerm'[j]]
  BY <1>0, <1>1, <1>2 DEF StateTypeOK
<1> QED BY <1>2, <1>4, <1>5, <1>6, HonestStep, Zenon

(* What a leader i sends, and to others only.                              *)
SendsAsLeader(i) ==
    /\ \A m \in appends' \ appends :
          role[i] = Leader /\ m.term = currentTerm[i] /\ m.from = i /\ m.to \in Peers(i)
    /\ \A m \in appendReplies' \ appendReplies : m.to # m.from

(* A leader adds requests to the network.                                  *)
LEMMA LeaderSends ==
    ASSUME NEW i, NEW sent, role[i] = Leader, appends' = appends \cup sent, appendReplies' = appendReplies,
           \A x \in sent : x.term = currentTerm[i] /\ x.from = i /\ x.to \in Peers(i)
    PROVE  SendsAsLeader(i)
BY Zenon DEF SendsAsLeader

(* A node answers a request of another.                                    *)
LEMMA NodeAnswers ==
    ASSUME NEW i, NEW reply, appends' = appends, appendReplies' = appendReplies \cup {reply},
           reply.to # reply.from
    PROVE  SendsAsLeader(i)
BY Zenon DEF SendsAsLeader

(* A step of node i that leaves the winners alone, keeps its role and hint *)
(* with its term or gives them up, or takes the hint of a winner.          *)
OwnMove(i, t, r, l) ==
    /\ leadersByTerm' = leadersByTerm
    /\ currentTerm' = [currentTerm EXCEPT ![i] = t]
    /\ role' = [role EXCEPT ![i] = r]
    /\ leaderId' = [leaderId EXCEPT ![i] = l]
    /\ r = Leader => role[i] = Leader /\ t = currentTerm[i]
    /\ l = NoNode \/ (l = leaderId[i] /\ t = currentTerm[i]) \/ l \in leadersByTerm[t]
    /\ SendsAsLeader(i)

(* Such a step keeps the invariant.                                        *)
LEMMA OwnStep ==
    ASSUME TypeInv, TypeInv', LeadersInv, NEW i \in Node, NEW t, NEW r, NEW l, OwnMove(i, t, r, l)
    PROVE  LeadersInv'
<1> USE DEF OwnMove, SendsAsLeader
<1>0. StateTypeOK
  BY DEF TypeInv
<1>1. \A m \in appends' \ appends : m.from \in leadersByTerm'[m.term] /\ m.to # m.from
  BY DEF LeadersInv, LeadersWon, Peers
<1>2. \A j \in Node : role'[j] = Leader =>
         \/ role[j] = Leader /\ currentTerm'[j] = currentTerm[j]
         \/ j \in leadersByTerm'[currentTerm'[j]]
  BY <1>0, Zenon DEF StateTypeOK
<1>3. \A j \in Node : leaderId'[j] # NoNode =>
         \/ leaderId'[j] = leaderId[j] /\ currentTerm'[j] = currentTerm[j]
         \/ leaderId'[j] \in leadersByTerm'[currentTerm'[j]]
  BY <1>0, Zenon DEF StateTypeOK
<1>4. \A u \in Term : leadersByTerm[u] \subseteq leadersByTerm'[u]
  OBVIOUS
<1> QED BY <1>1, <1>2, <1>3, <1>4, HonestStep, Zenon

(* The same when nothing of the node's role changes.                       *)
LEMMA SteadyStep ==
    ASSUME TypeInv, TypeInv', LeadersInv, NEW i \in Node,
           UNCHANGED <<leadersByTerm, currentTerm, role, leaderId>>,
           SendsAsLeader(i)
    PROVE  LeadersInv'
<1> USE DEF SendsAsLeader
<1>1. \A m \in appends' \ appends : m.from \in leadersByTerm'[m.term] /\ m.to # m.from
  BY Zenon DEF LeadersInv, LeadersWon, Peers
<1>2. \A u \in Term : leadersByTerm[u] \subseteq leadersByTerm'[u]
  OBVIOUS
<1> QED BY <1>1, <1>2, HonestStep, Zenon

(* Every action keeps the invariant.                                       *)
LEMMA ActionsAreHonest ==
    ASSUME TypeInv, TypeInv', LeadersInv, NEW i \in Node,
           Tick(i) \/ Propose(i) \/ PumpApply(i) \/ Handle(i) \/ Crash(i)
    PROVE  LeadersInv'
<1> USE DEF Follower, Candidate, Leader
<1>0. StateTypeOK /\ NetworkTypeOK /\ ObserverTypeOK /\ \A j \in Node : currentTerm[j] \in Nat
  BY CurrentTermType, Zenon DEF TypeInv
<1>1. CASE StartElection(i)
  <2> DEFINE t == currentTerm[i] + 1
  <2>1. t \in Term /\ t > currentTerm[i]
    BY <1>1, ElectionTerm, Zenon
  <2>2. currentTerm' = [currentTerm EXCEPT ![i] = t] /\ appendReplies' = appendReplies
    BY <1>1, Zenon DEF StartElection
  <2>3. CASE Cardinality({i}) >= Majority
    <3>1. BecomeLeader(i, t)
      BY <1>1, <2>3, Zenon DEF StartElection
    <3> HIDE DEF t
    <3> QED BY <2>1, <2>2, <3>1, WinIsHonest, Zenon
  <2>4. CASE ~ (Cardinality({i}) >= Majority)
    <3>1. /\ role' = [role EXCEPT ![i] = Candidate]
          /\ leaderId' = [leaderId EXCEPT ![i] = NoNode]
          /\ UNCHANGED <<appends, appendReplies, leadersByTerm>>
      BY <1>1, <2>4, Zenon DEF StartElection
    <3> HIDE DEF t
    <3>2. OwnMove(i, t, Candidate, NoNode)
      BY <2>2, <3>1 DEF OwnMove, SendsAsLeader
    <3> QED BY <3>2, OwnStep
  <2> QED BY <2>3, <2>4
<1>2. CASE SendHeartbeats(i)
  <2>1. /\ role[i] = Leader
        /\ UNCHANGED <<leadersByTerm, currentTerm, role, leaderId, appendReplies>>
        /\ appends' = appends \cup
              {AppendEntriesTo(i, j, currentTerm[i], log[i], nextIndex[i][j], commitIndex[i]) :
                  j \in Peers(i)}
    BY <1>2, Zenon DEF SendHeartbeats, persistent, roleVars, observers
  <2> DEFINE sent == {AppendEntriesTo(i, j, currentTerm[i], log[i], nextIndex[i][j], commitIndex[i]) :
                          j \in Peers(i)}
  <2>3. \A x \in sent : x.term = currentTerm[i] /\ x.from = i /\ x.to \in Peers(i)
    <3>1. TAKE x \in sent
    <3>2. PICK j \in Peers(i) :
              x = AppendEntriesTo(i, j, currentTerm[i], log[i], nextIndex[i][j], commitIndex[i])
      BY Zenon
    <3> QED BY <3>2, Zenon DEF AppendEntriesTo
  <2>4. appends' = appends \cup sent
    BY <2>1, Zenon
  <2> HIDE DEF sent
  <2>2. SendsAsLeader(i)
    BY <2>1, <2>3, <2>4, LeaderSends, ZenonT(30)
  <2> QED BY <2>1, <2>2, SteadyStep, Zenon
<1>3. ASSUME NEW cmds \in Batch, ProposeBatch(i, cmds) PROVE LeadersInv'
  <2>1. /\ role[i] = Leader
        /\ UNCHANGED <<leadersByTerm, currentTerm, role, leaderId, appendReplies>>
    BY <1>3, Zenon DEF ProposeBatch, roleVars
  <2> DEFINE lg == log[i] \o [k \in DOMAIN cmds |-> [term |-> currentTerm[i], cmd |-> cmds[k]]]
             c  == AdvanceCommit(i, lg, matchIndex[i])
  <2>2. appends' = appends \cup
            {AppendEntriesTo(i, j, currentTerm[i], lg, nextIndex[i][j], c) : j \in Peers(i)}
    BY <1>3, Zenon DEF ProposeBatch
  <2> HIDE DEF lg, c
  <2> DEFINE sent == {AppendEntriesTo(i, j, currentTerm[i], lg, nextIndex[i][j], c) : j \in Peers(i)}
  <2>4. \A x \in sent : x.term = currentTerm[i] /\ x.from = i /\ x.to \in Peers(i)
    <3>1. TAKE x \in sent
    <3>2. PICK j \in Peers(i) : x = AppendEntriesTo(i, j, currentTerm[i], lg, nextIndex[i][j], c)
      BY Zenon
    <3> QED BY <3>2, Zenon DEF AppendEntriesTo
  <2>5. appends' = appends \cup sent
    BY <2>2, Zenon
  <2> HIDE DEF sent
  <2>3. SendsAsLeader(i)
    BY <2>1, <2>4, <2>5, LeaderSends, ZenonT(30)
  <2> QED BY <2>1, <2>3, SteadyStep
<1>4. CASE PumpApply(i)
  <2>1. UNCHANGED <<leadersByTerm, currentTerm, role, leaderId, appends, appendReplies>>
    BY <1>4, Zenon DEF PumpApply, persistent, roleVars, observers, network
  <2> QED BY <2>1, SteadyStep, Zenon DEF SendsAsLeader
<1>5. ASSUME NEW m \in requestVotes, OnRequestVote(i, m) PROVE LeadersInv'
  <2>1. /\ currentTerm' = [currentTerm EXCEPT ![i] = TermAfter(i, m.term)]
        /\ role' = [role EXCEPT ![i] = RoleAfter(i, m.term)]
        /\ leaderId' = [leaderId EXCEPT ![i] = LeaderAfter(i, m.term)]
        /\ UNCHANGED <<appends, appendReplies, leadersByTerm>>
    BY <1>5, Zenon DEF OnRequestVote
  <2>2. /\ RoleAfter(i, m.term) = Leader => role[i] = Leader /\ TermAfter(i, m.term) = currentTerm[i]
        /\ \/ LeaderAfter(i, m.term) = NoNode
           \/ LeaderAfter(i, m.term) = leaderId[i] /\ TermAfter(i, m.term) = currentTerm[i]
    BY DEF RoleAfter, TermAfter, LeaderAfter
  <2>3. OwnMove(i, TermAfter(i, m.term), RoleAfter(i, m.term), LeaderAfter(i, m.term))
    BY <2>1, <2>2, Zenon DEF OwnMove, SendsAsLeader
  <2> QED BY <2>3, OwnStep
<1>6. ASSUME NEW m \in voteReplies, OnRequestVoteReply(i, m) PROVE LeadersInv'
  <2>1. m.term \in Term
    BY <1>0, Zenon DEF NetworkTypeOK, RequestVoteReply
  <2>2. TermAfter(i, m.term) \in Term
    BY <1>0, <2>1, TermRuleType
  <2>3. /\ currentTerm' = [currentTerm EXCEPT ![i] = TermAfter(i, m.term)]
        /\ appendReplies' = appendReplies
    BY <1>6, Zenon DEF OnRequestVoteReply
  <2>4. CASE BecomeLeader(i, TermAfter(i, m.term))
    BY <2>2, <2>3, <2>4, WinIsHonest, Zenon
  <2>5. CASE ~ BecomeLeader(i, TermAfter(i, m.term))
    <3>1. /\ role' = [role EXCEPT ![i] = RoleAfter(i, m.term)]
          /\ leaderId' = [leaderId EXCEPT ![i] = LeaderAfter(i, m.term)]
          /\ UNCHANGED <<appends, appendReplies, leadersByTerm>>
      BY <1>6, <2>5, Zenon DEF OnRequestVoteReply
    <3>2. /\ RoleAfter(i, m.term) = Leader => role[i] = Leader /\ TermAfter(i, m.term) = currentTerm[i]
          /\ \/ LeaderAfter(i, m.term) = NoNode
             \/ LeaderAfter(i, m.term) = leaderId[i] /\ TermAfter(i, m.term) = currentTerm[i]
      BY DEF RoleAfter, TermAfter, LeaderAfter
    <3>3. OwnMove(i, TermAfter(i, m.term), RoleAfter(i, m.term), LeaderAfter(i, m.term))
      BY <2>3, <3>1, <3>2, Zenon DEF OwnMove, SendsAsLeader
    <3> QED BY <3>3, OwnStep
  <2> QED BY <2>4, <2>5
<1>7. ASSUME NEW m \in appends, OnStaleAppendEntries(i, m) PROVE LeadersInv'
  <2>1. UNCHANGED <<leadersByTerm, currentTerm, role, leaderId, appends>> /\ m.to = i
    BY <1>7, Zenon DEF OnStaleAppendEntries, persistent, roleVars, observers
  <2>2. m.from # i
    BY <2>1 DEF LeadersInv, SendersWon
  <2> DEFINE reply == AppendReply(i, m, currentTerm[i], FALSE, 0, 0)
  <2>3. reply.from = i /\ reply.to = m.from
    BY DEF AppendReply
  <2>4. appendReplies' = appendReplies \cup {reply}
    BY <1>7, Zenon DEF OnStaleAppendEntries
  <2> HIDE DEF reply
  <2>5. SendsAsLeader(i)
    BY <2>1, <2>2, <2>3, <2>4, Zenon DEF SendsAsLeader
  <2> QED BY <2>1, <2>5, SteadyStep
<1>8. ASSUME NEW m \in appends, OnAppendEntries(i, m) PROVE LeadersInv'
  <2>1. /\ currentTerm' = [currentTerm EXCEPT ![i] = TermAfter(i, m.term)]
        /\ role' = [role EXCEPT ![i] = Follower]
        /\ leaderId' = [leaderId EXCEPT ![i] = m.from]
        /\ UNCHANGED <<appends, leadersByTerm>> /\ m.to = i /\ m.term >= currentTerm[i]
    BY <1>8, Zenon DEF OnAppendEntries
  <2>2. m.term \in Nat
    BY <1>0, TermsAreNat, Zenon DEF NetworkTypeOK, AppendEntries
  <2>3. TermAfter(i, m.term) = m.term
    BY <1>0, <2>1, <2>2 DEF TermAfter, NewTerm
  <2>4. m.from \in leadersByTerm[m.term] /\ m.from # i
    BY <2>1 DEF LeadersInv, SendersWon
  <2>5. \E t, s, n, u : appendReplies' = appendReplies \cup {AppendReply(i, m, t, s, n, u)}
    BY <1>8, Zenon DEF OnAppendEntries, RejectHint
  <2>8. PICK t, s, n, u : appendReplies' = appendReplies \cup {AppendReply(i, m, t, s, n, u)}
    BY <2>5
  <2> DEFINE reply == AppendReply(i, m, t, s, n, u)
  <2>9. reply.from = i /\ reply.to = m.from
    BY DEF AppendReply
  <2>10. appendReplies' = appendReplies \cup {reply}
    BY <2>8
  <2> HIDE DEF reply
  <2>6. SendsAsLeader(i)
    BY <2>1, <2>4, <2>9, <2>10, NodeAnswers, ZenonT(30)
  <2>7. OwnMove(i, m.term, Follower, m.from)
    BY <2>1, <2>3, <2>4, <2>6, Zenon DEF OwnMove
  <2> QED BY <2>7, OwnStep
<1>9. ASSUME NEW m \in appendReplies, OnStaleAppendReply(i, m) PROVE LeadersInv'
  <2>1. /\ currentTerm' = [currentTerm EXCEPT ![i] = m.term]
        /\ role' = [role EXCEPT ![i] = Follower]
        /\ leaderId' = [leaderId EXCEPT ![i] = NoNode]
        /\ UNCHANGED <<appends, appendReplies, leadersByTerm>>
    BY <1>9, Zenon DEF OnStaleAppendReply, network, observers
  <2>2. OwnMove(i, m.term, Follower, NoNode)
    BY <2>1 DEF OwnMove, SendsAsLeader
  <2> QED BY <2>2, OwnStep
<1>10. ASSUME NEW m \in appendReplies, OnAppendAck(i, m) PROVE LeadersInv'
  <2>1. /\ role[i] = Leader
        /\ UNCHANGED <<leadersByTerm, currentTerm, role, leaderId, appendReplies>>
    BY <1>10, Zenon DEF OnAppendAck, persistent, roleVars
  <2>2. \E c : \/ appends' = appends
               \/ appends' = appends \cup
                     {AppendEntriesTo(i, m.from, currentTerm[i], log[i], m.conflictIndex + 1, c)}
    BY <1>10, Zenon DEF OnAppendAck
  <2>3. m.from \in Peers(i)
    <3>1. m.to = i
      BY <1>10, Zenon DEF OnAppendAck
    <3>2. m.from \in Node
      BY <1>0, Zenon DEF NetworkTypeOK, AppendEntriesReply
    <3> QED BY <3>1, <3>2 DEF LeadersInv, RepliesReturn, Peers
  <2>5. PICK c : \/ appends' = appends
                 \/ appends' = appends \cup
                       {AppendEntriesTo(i, m.from, currentTerm[i], log[i], m.conflictIndex + 1, c)}
    BY <2>2, Zenon
  <2> DEFINE x == AppendEntriesTo(i, m.from, currentTerm[i], log[i], m.conflictIndex + 1, c)
  <2>6. x.term = currentTerm[i] /\ x.from = i /\ x.to = m.from
    BY Zenon DEF AppendEntriesTo
  <2> DEFINE sent == IF appends' = appends THEN {} ELSE {x}
  <2>7. appends' = appends \cup sent
    BY <2>5, Zenon
  <2> HIDE DEF x
  <2>8. \A y \in sent : y.term = currentTerm[i] /\ y.from = i /\ y.to \in Peers(i)
    BY <2>3, <2>6, Zenon
  <2> HIDE DEF sent
  <2>4. SendsAsLeader(i)
    BY <2>1, <2>7, <2>8, LeaderSends, ZenonT(30)
  <2> QED BY <2>1, <2>4, SteadyStep
<1>11. ASSUME NEW m \in appendReplies, OnAppendReject(i, m) PROVE LeadersInv'
  <2>1. /\ role[i] = Leader /\ m.to = i
        /\ UNCHANGED <<leadersByTerm, currentTerm, role, leaderId, appendReplies>>
    BY <1>11, Zenon DEF OnAppendReject, persistent, roleVars, observers
  <2>2. \E n, c : appends' = appends \cup
            {AppendEntriesTo(i, m.from, currentTerm[i], log[i], n, c)}
    BY <1>11, Zenon DEF OnAppendReject
  <2>3. m.from \in Peers(i)
    <3>1. m.from \in Node
      BY <1>0, Zenon DEF NetworkTypeOK, AppendEntriesReply
    <3> QED BY <2>1, <3>1, Zenon DEF LeadersInv, RepliesReturn, Peers
  <2>5. PICK n, c : appends' = appends \cup
            {AppendEntriesTo(i, m.from, currentTerm[i], log[i], n, c)}
    BY <2>2, Zenon
  <2> DEFINE x == AppendEntriesTo(i, m.from, currentTerm[i], log[i], n, c)
  <2>6. x.term = currentTerm[i] /\ x.from = i /\ x.to = m.from
    BY Zenon DEF AppendEntriesTo
  <2> DEFINE sent == {x}
  <2>7. appends' = appends \cup sent
    BY <2>5, Zenon
  <2> HIDE DEF x
  <2>8. \A y \in sent : y.term = currentTerm[i] /\ y.from = i /\ y.to \in Peers(i)
    BY <2>3, <2>6, Zenon
  <2> HIDE DEF sent
  <2>4. SendsAsLeader(i)
    BY <2>1, <2>7, <2>8, LeaderSends, ZenonT(30)
  <2> QED BY <2>1, <2>4, SteadyStep, Zenon
<1>12. CASE Crash(i)
  <2>1. /\ role' = [role EXCEPT ![i] = Follower]
        /\ leaderId' = [leaderId EXCEPT ![i] = NoNode]
        /\ UNCHANGED <<appends, appendReplies, leadersByTerm>>
    BY <1>12, Zenon
       DEF Crash, Restart, CrashAfterTermRule, CrashDuringAppend, CrashDuringPropose,
           ResetVolatile, network, observers
  <2>2. \/ currentTerm' = currentTerm
        \/ \E t : currentTerm' = [currentTerm EXCEPT ![i] = t]
    BY <1>12, Zenon
       DEF Crash, Restart, CrashAfterTermRule, CrashDuringAppend, CrashDuringPropose, persistent
  <2>3. \E t : currentTerm' = [currentTerm EXCEPT ![i] = t]
    <3>1. currentTerm = [currentTerm EXCEPT ![i] = currentTerm[i]]
      BY <1>0 DEF StateTypeOK
    <3> QED BY <2>2, <3>1
  <2>4. PICK t : OwnMove(i, t, Follower, NoNode)
    BY <2>1, <2>3, Zenon DEF OwnMove, SendsAsLeader
  <2> QED BY <2>4, OwnStep
<1> QED BY <1>1, <1>2, <1>3, <1>4, <1>5, <1>6, <1>7, <1>8, <1>9, <1>10, <1>11, <1>12, Zenon
        DEF Tick, Propose, Handle

(* Before anything happened nobody leads and nothing was sent.             *)
LEMMA InitLeaders == Init => LeadersInv
BY Zenon DEF Init, LeadersInv, LeadersWon, SendersWon, RepliesReturn, LeaderHintTruthful,
             Follower, Leader

(* Every step keeps the invariant.                                         *)
LEMMA NextLeaders == TypeInv /\ TypeInv' /\ LeadersInv /\ [Next]_vars => LeadersInv'
<1> SUFFICES ASSUME TypeInv, TypeInv', LeadersInv, [Next]_vars PROVE LeadersInv'
  OBVIOUS
<1>1. CASE UNCHANGED vars
  BY <1>1, Zenon DEF vars, persistent, roleVars, network, observers,
       LeadersInv, LeadersWon, SendersWon, RepliesReturn, LeaderHintTruthful
<1>2. CASE Next
  BY <1>2, ActionsAreHonest, Zenon DEF Next
<1> QED BY <1>1, <1>2
=============================================================================
