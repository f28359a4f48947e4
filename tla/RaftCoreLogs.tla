---------------------------- MODULE RaftCoreLogs ----------------------------
(***************************************************************************)
(* Log Matching of RaftCore, for every cluster and every bound.            *)
(*                                                                         *)
(* The log of the leader of a term is the reference: every entry of term t *)
(* in any log was copied, together with everything before it, from         *)
(* leaderLog[t] (FromLeaders).  An AppendEntries of term t is a slice of   *)
(* leaderLog[t], so the walk over an accepted one leaves either the log as *)
(* it was or a prefix of leaderLog[t].                                     *)
(***************************************************************************)
EXTENDS RaftCoreElection

(* Two logs are the same up to k, and both reach it.                       *)
Agree(a, b, k) == k <= Len(a) /\ k <= Len(b) /\ \A q \in 1..k : a[q] = b[q]

(* Every entry of lg, with all before it, is in the log of its term.       *)
FromLeaders(lg, ll) == \A k \in 1..Len(lg) : Agree(lg, ll[lg[k].term], k)

TermsUpTo(lg, t) == \A k \in 1..Len(lg) : lg[k].term <= t

(* The leaders' logs mm hold at least what ll held.                        *)
Grown(ll, mm) == \A t \in Term : Agree(mm[t], ll[t], Len(ll[t]))

-----------------------------------------------------------------------------
(* Facts about logs alone.                                                 *)

(* Agreement is symmetric.                                                 *)
LEMMA AgreeFlip ==
    ASSUME NEW a, NEW b, NEW k, Agree(a, b, k)
    PROVE  Agree(b, a, k)
BY DEF Agree

(* It is transitive.                                                       *)
LEMMA AgreeChain ==
    ASSUME NEW a, NEW b, NEW c, NEW k, Agree(a, b, k), Agree(b, c, k)
    PROVE  Agree(a, c, k)
BY DEF Agree

(* It is inherited by shorter prefixes.                                    *)
LEMMA AgreeShorter ==
    ASSUME NEW a \in Seq(Entry), NEW b \in Seq(Entry), NEW k \in Nat, NEW j \in Nat,
           j <= k, Agree(a, b, k)
    PROVE  Agree(a, b, j)
<1>1. Len(a) \in Nat /\ Len(b) \in Nat
  BY LenProperties
<1> QED BY <1>1 DEF Agree

(* A log agrees with itself.                                               *)
LEMMA AgreeSelf ==
    ASSUME NEW a \in Seq(Entry), NEW k \in Nat, k <= Len(a)
    PROVE  Agree(a, a, k)
BY DEF Agree

(* The entries of a log and their terms.                                   *)
LEMMA EntryTypes ==
    ASSUME NEW a \in Seq(Entry), NEW k \in 1..Len(a)
    PROVE  Len(a) \in Nat /\ k \in Nat /\ a[k] \in Entry /\ a[k].term \in Term /\ a[k].term \in Nat
<1>1. Len(a) \in Nat
  BY LenProperties
<1>2. a[k] \in Entry
  BY ElementOfSeq
<1>3. a[k].term \in Term
  BY <1>2 DEF Entry
<1>4. k \in Nat
  BY <1>1
<1>5. a[k].term \in Nat
  BY <1>3, TermsAreNat, Zenon
<1> QED BY <1>1, <1>2, <1>3, <1>4, <1>5

(* A prefix of a log that stems from the leaders does too.                 *)
LEMMA PrefixFromLeaders ==
    ASSUME NEW a \in Seq(Entry), NEW b \in Seq(Entry), NEW ll,
           Agree(a, b, Len(a)), FromLeaders(b, ll)
    PROVE  FromLeaders(a, ll)
<1> SUFFICES ASSUME NEW k \in 1..Len(a)
             PROVE  Agree(a, ll[a[k].term], k)
  BY DEF FromLeaders
<1>1. Len(a) \in Nat /\ Len(b) \in Nat /\ k \in Nat /\ k <= Len(a)
  BY LenProperties
<1>2. k \in 1..Len(b) /\ a[k] = b[k]
  BY <1>1 DEF Agree
<1>3. Agree(b, ll[b[k].term], k)
  BY <1>2 DEF FromLeaders
<1>4. Agree(a, b, k)
  BY <1>1, AgreeShorter
<1> QED BY <1>2, <1>3, <1>4, AgreeChain, Zenon

(* Leaders' logs that grow keep every log that stems from them.            *)
LEMMA GrownFromLeaders ==
    ASSUME NEW a \in Seq(Entry), NEW ll \in [Term -> Seq(Entry)], NEW mm \in [Term -> Seq(Entry)],
           FromLeaders(a, ll), Grown(ll, mm)
    PROVE  FromLeaders(a, mm)
<1> SUFFICES ASSUME NEW k \in 1..Len(a)
             PROVE  Agree(a, mm[a[k].term], k)
  BY DEF FromLeaders
<1> DEFINE t == a[k].term
<1>1. t \in Term /\ k \in Nat
  BY EntryTypes
<1>2. Agree(a, ll[t], k)
  BY DEF FromLeaders
<1>3. Agree(mm[t], ll[t], Len(ll[t]))
  BY <1>1 DEF Grown
<1> HIDE DEF t
<1>4. ll[t] \in Seq(Entry) /\ mm[t] \in Seq(Entry) /\ Len(ll[t]) \in Nat /\ k <= Len(ll[t])
  BY <1>1, <1>2, LenProperties DEF Agree
<1>5. Agree(mm[t], ll[t], k)
  BY <1>1, <1>3, <1>4, AgreeShorter, Zenon
<1>6. Agree(ll[t], mm[t], k)
  BY <1>5, AgreeFlip
<1> QED BY <1>2, <1>6, AgreeChain DEF t

(* Two logs that stem from the leaders and share a term at an index agree  *)
(* up to it.                                                               *)
LEMMA SameTermAgree ==
    ASSUME NEW a \in Seq(Entry), NEW b \in Seq(Entry), NEW ll,
           FromLeaders(a, ll), FromLeaders(b, ll),
           NEW k \in 1..Len(a), k \in 1..Len(b), a[k].term = b[k].term
    PROVE  Agree(a, b, k)
<1>1. Agree(a, ll[a[k].term], k) /\ Agree(b, ll[b[k].term], k)
  BY DEF FromLeaders
<1>2. Agree(ll[a[k].term], b, k)
  BY <1>1, AgreeFlip
<1> QED BY <1>1, <1>2, AgreeChain

(* Where a position past the present part of a slice lies in the slice.    *)
LEMMA OffsetInSlice ==
    ASSUME NEW p \in Nat, NEW s \in Nat, NEW n \in Nat, NEW len \in Nat, n <= len,
           NEW q \in (p + s + 1)..(p + n)
    PROVE  q - p \in 1..len /\ p + (q - p) = q
OBVIOUS

(* The first entry past the present part, where an agreement reaches it.   *)
LEMMA NextInSlice ==
    ASSUME NEW p \in Nat, NEW s \in Nat, NEW c \in Nat, NEW len \in Nat, NEW size \in Nat,
           c > p + s, c <= len, s < size
    PROVE  p + (s + 1) \in 1..c /\ p + (s + 1) <= len /\ s + 1 \in 1..size
OBVIOUS

(* What the walk over an accepted slice of the leader's log ll makes of    *)
(* the log lg, when only the first n entries reached the disk: the two     *)
(* agree up to the last entry already present; the result is lg itself or  *)
(* a prefix of ll, and no agreement with ll is lost.                       *)
LEMMA MergeSlice ==
    ASSUME TypeInv, NEW lg \in Seq(Entry), NEW ll \in Seq(Entry), NEW m,
           m.entries \in Seq(Entry), m.prevLogIndex \in Nat, m.prevLogIndex <= Len(lg),
           m.prevLogIndex + Len(m.entries) <= Len(ll),
           \A q \in 1..Len(m.entries) : m.entries[q] = ll[m.prevLogIndex + q],
           TermAt(lg, m.prevLogIndex) = TermAt(ll, m.prevLogIndex),
           \A k \in 1..Len(lg) : k <= Len(ll) /\ lg[k].term = ll[k].term => Agree(lg, ll, k),
           NEW n \in PresentCount(lg, m)..Len(m.entries)
    PROVE  LET merged == MergedLog(lg, m, n)
           IN  /\ merged \in Seq(Entry)
               /\ merged = lg \/ Agree(merged, ll, Len(merged))
               /\ n = Len(m.entries) => Agree(merged, ll, ConfirmedThrough(m))
               /\ \A c \in Nat : Agree(lg, ll, c) => Agree(merged, ll, c)
<1> DEFINE present == PresentCount(lg, m)
           p == m.prevLogIndex
           e == m.entries
           merged == MergedLog(lg, m, n)
<1>1. Len(e) \in Nat /\ Len(lg) \in Nat /\ Len(ll) \in Nat
  BY LenProperties
<1>2. /\ present \in 0..Len(e)
      /\ \A q \in 1..present : p + q <= Len(lg) /\ lg[p + q].term = e[q].term
      /\ present < Len(e) => ~ (/\ p + (present + 1) <= Len(lg)
                                /\ lg[p + (present + 1)].term = e[present + 1].term)
  BY PresentCountProperties
<1>3. /\ merged \in Seq(Entry)
      /\ p + present <= Len(lg)
      /\ present = Len(e) => merged = lg
      /\ present < Len(e) =>
            /\ Len(merged) = p + n
            /\ \A k \in 1..(p + present) : merged[k] = lg[k]
            /\ \A k \in (p + present + 1)..(p + n) : merged[k] = e[k - p]
  BY MergedLogProperties
<1>4. present \in Nat /\ n \in Nat /\ present <= n /\ n <= Len(e) /\ p \in Nat
  BY <1>1, <1>2
<1> HIDE DEF present, merged
<1>5. Agree(lg, ll, p + present)
  <2>1. CASE present = 0 /\ p = 0
    BY <1>1, <2>1 DEF Agree
  <2>2. CASE present = 0 /\ p # 0
    <3>1. p \in 1..Len(lg) /\ p <= Len(ll)
      BY <1>1, <1>4, <2>2
    <3>2. lg[p].term = ll[p].term
      BY <1>1, <3>1 DEF TermAt
    <3> QED BY <1>4, <2>2, <3>1, <3>2
  <2>3. CASE present # 0
    <3>1. present \in 1..Len(e) /\ present \in 1..present
      BY <1>4, <2>3
    <3>2. p + present <= Len(lg) /\ lg[p + present].term = e[present].term
      BY <1>2, <3>1
    <3>3. e[present] = ll[p + present]
      BY <3>1
    <3>4. p + present \in 1..Len(lg) /\ p + present <= Len(ll)
      BY <1>1, <1>4, <3>1, <3>2
    <3> QED BY <3>2, <3>3, <3>4
  <2> QED BY <2>1, <2>2, <2>3
<1>6. present < Len(e) => Agree(merged, ll, p + n)
  <2> SUFFICES ASSUME present < Len(e) PROVE Agree(merged, ll, p + n)
    OBVIOUS
  <2>1. Len(merged) = p + n /\ p + n <= Len(ll)
    BY <1>1, <1>3, <1>4
  <2>2. ASSUME NEW q \in 1..(p + n) PROVE merged[q] = ll[q]
    <3>1. CASE q <= p + present
      <4>1. q \in 1..(p + present)
        BY <1>4, <3>1
      <4>2. merged[q] = lg[q] /\ lg[q] = ll[q]
        BY <1>3, <1>5, <4>1 DEF Agree
      <4> QED BY <4>2
    <3>2. CASE ~ (q <= p + present)
      <4>1. q \in (p + present + 1)..(p + n)
        BY <1>4, <3>2
      <4>2. merged[q] = e[q - p]
        BY <1>3, <4>1
      <4>3. q - p \in 1..Len(e) /\ p + (q - p) = q
        <5> HIDE DEF p, e
        <5> QED BY <1>1, <1>4, <4>1, OffsetInSlice
      <4>4. e[q - p] = ll[p + (q - p)]
        BY <4>3
      <4> QED BY <4>2, <4>3, <4>4
    <3> QED BY <3>1, <3>2
  <2> QED BY <2>1, <2>2 DEF Agree
<1>7. merged = lg \/ Agree(merged, ll, Len(merged))
  BY <1>1, <1>3, <1>4, <1>6
<1>8. n = Len(e) => Agree(merged, ll, ConfirmedThrough(m))
  BY <1>1, <1>3, <1>4, <1>5, <1>6 DEF ConfirmedThrough
<1>9. ASSUME NEW c \in Nat, Agree(lg, ll, c) PROVE Agree(merged, ll, c)
  <2>1. CASE present = Len(e)
    BY <1>3, <1>9, <2>1
  <2>2. CASE present < Len(e)
    <3>1. c <= p + present
      <4> SUFFICES ASSUME c > p + present PROVE FALSE
        BY <1>4
      <4>1. p + (present + 1) \in 1..c /\ p + (present + 1) <= Len(lg) /\ present + 1 \in 1..Len(e)
        <5>1. c <= Len(lg)
          BY <1>9, Zenon DEF Agree
        <5> QED BY <1>1, <1>4, <1>9, <2>2, <5>1, NextInSlice, Zenon
      <4>2. lg[p + (present + 1)] = ll[p + (present + 1)]
        BY <1>9, <4>1 DEF Agree
      <4>3. e[present + 1] = ll[p + (present + 1)]
        BY <4>1
      <4> QED BY <1>2, <2>2, <4>1, <4>2, <4>3
    <3>2. Agree(merged, ll, p + n) /\ p + n \in Nat /\ c <= p + n
      BY <1>4, <1>6, <2>2, <3>1
    <3> HIDE DEF p
    <3> QED BY <1>3, <3>2, AgreeShorter, Zenon
  <2> QED BY <1>1, <1>4, <2>1, <2>2
<1> QED BY <1>3, <1>7, <1>8, <1>9 DEF merged

-----------------------------------------------------------------------------
(* The moves: every action, as far as logs, terms and wins are concerned.  *)

(* Only node i moves, and its term never falls.                            *)
Own(i) ==
    /\ currentTerm'[i] >= currentTerm[i]
    /\ \A j \in Node : j # i =>
          /\ log'[j] = log[j] /\ currentTerm'[j] = currentTerm[j] /\ role'[j] = role[j]

(* No log changes and nobody wins: a leader was one in the same term, and  *)
(* a candidate was one or has a new term.                                  *)
Still(i) ==
    /\ UNCHANGED <<log, leaderLog, leadersByTerm>>
    /\ role'[i] = Leader => role[i] = Leader /\ currentTerm'[i] = currentTerm[i]
    /\ role'[i] = Candidate => \/ role[i] = Candidate /\ currentTerm'[i] = currentTerm[i]
                               \/ currentTerm'[i] > currentTerm[i]

(* Node i wins a new term, or the one it is a candidate of.                *)
Wins(i) ==
    /\ log' = log
    /\ role[i] # Leader /\ role'[i] = Leader
    /\ currentTerm'[i] > currentTerm[i] \/ (currentTerm'[i] = currentTerm[i] /\ role[i] = Candidate)
    /\ leadersByTerm' = [leadersByTerm EXCEPT ![currentTerm'[i]] = @ \cup {i}]
    /\ leaderLog' = [leaderLog EXCEPT ![currentTerm'[i]] = log[i]]

(* The leader i appends entries of its term (and may crash at once).       *)
Extends(i, more) ==
    /\ role[i] = Leader /\ role'[i] # Candidate
    /\ currentTerm'[i] = currentTerm[i]
    /\ leadersByTerm' = leadersByTerm
    /\ more \in Seq(Entry) /\ \A k \in 1..Len(more) : more[k].term = currentTerm[i]
    /\ log' = [log EXCEPT ![i] = log[i] \o more]
    /\ leaderLog' = [leaderLog EXCEPT ![currentTerm[i]] = log[i] \o more]

(* Node i takes the first n entries of the request m.                      *)
Merges(i, m, n) ==
    /\ m \in appends /\ m.to = i /\ m.term >= currentTerm[i] /\ PassesConsistencyCheck(i, m)
    /\ n \in PresentCount(log[i], m)..Len(m.entries)
    /\ currentTerm'[i] = m.term /\ role'[i] = Follower
    /\ log' = [log EXCEPT ![i] = MergedLog(log[i], m, n)]
    /\ UNCHANGED <<leaderLog, leadersByTerm>>

LogMove(i) ==
    /\ Own(i)
    /\ Still(i) \/ Wins(i) \/ (\E more : Extends(i, more)) \/ (\E m, n : Merges(i, m, n))

(* The universal term rule, on roles and terms.                            *)
LEMMA TermRuleMove ==
    ASSUME TypeInv, NEW i \in Node, NEW t \in Term
    PROVE  /\ RoleAfter(i, t) = Leader => role[i] = Leader /\ TermAfter(i, t) = currentTerm[i]
           /\ RoleAfter(i, t) = Candidate => role[i] = Candidate /\ TermAfter(i, t) = currentTerm[i]
           /\ TermAfter(i, t) >= currentTerm[i]
           /\ t >= currentTerm[i] => TermAfter(i, t) = t
<1>1. currentTerm[i] \in Nat /\ t \in Nat
  BY NodeTypes, TermsAreNat
<1> QED BY <1>1 DEF RoleAfter, TermAfter, NewTerm, Follower, Candidate, Leader

(* The entries a batch appends.                                            *)
LEMMA BatchEntries ==
    ASSUME NEW cmds \in Batch, NEW t \in Term, NEW n \in 0..Len(cmds)
    PROVE  LET more == [k \in 1..n |-> [term |-> t, cmd |-> cmds[k]]]
           IN  /\ more \in Seq(Entry)
               /\ Len(more) = n
               /\ \A k \in 1..Len(more) : more[k].term = t
               /\ DOMAIN cmds = 1..Len(cmds) /\ Len(cmds) \in Nat
<1> DEFINE more == [k \in 1..n |-> [term |-> t, cmd |-> cmds[k]]]
<1>1. PICK s \in Nat : cmds \in [1..s -> Command]
  BY BoundAssumption DEF Batch
<1>2. cmds \in Seq(Command) /\ Len(cmds) = s /\ DOMAIN cmds = 1..s
  BY <1>1, FunctionIsSeq
<1>3. n \in Nat /\ \A k \in 1..n : cmds[k] \in Command
  BY <1>1, <1>2
<1>4. more \in [1..n -> Entry]
  BY <1>3 DEF Entry
<1>5. \A k \in 1..n : more[k].term = t
  OBVIOUS
<1>6. more \in Seq(Entry) /\ Len(more) = n
  <2> HIDE DEF more
  <2> QED BY <1>3, <1>4, FunctionIsSeq
<1> HIDE DEF more
<1> QED BY <1>1, <1>2, <1>5, <1>6 DEF more

(* becomeLeader is a win.                                                  *)
LEMMA WinMove ==
    ASSUME TypeInv, NEW i \in Node, NEW t \in Term, BecomeLeader(i, t),
           currentTerm' = [currentTerm EXCEPT ![i] = t], log' = log,
           role[i] # Leader, t > currentTerm[i] \/ (t = currentTerm[i] /\ role[i] = Candidate)
    PROVE  LogMove(i)
<1>0. StateTypeOK /\ currentTerm[i] \in Nat /\ t \in Nat
  BY NodeTypes, TermsAreNat DEF TypeInv
<1>1. /\ leadersByTerm' = [leadersByTerm EXCEPT ![t] = @ \cup {i}]
      /\ leaderLog' = [leaderLog EXCEPT ![t] = log[i]]
      /\ role' = [role EXCEPT ![i] = Leader]
  BY Zenon DEF BecomeLeader
<1>2. currentTerm'[i] = t /\ role'[i] = Leader
  BY <1>0, <1>1 DEF StateTypeOK
<1>3. Wins(i)
  BY <1>1, <1>2, Zenon DEF Wins
<1>4. Own(i)
  BY <1>0, <1>1, <1>2 DEF Own, StateTypeOK
<1> QED BY <1>3, <1>4, Zenon DEF LogMove

(* A step that leaves the logs alone, and gives node i this term and role. *)
LEMMA StillMove ==
    ASSUME TypeInv, NEW i \in Node, NEW t, NEW r,
           UNCHANGED <<log, leaderLog, leadersByTerm>>,
           currentTerm' = [currentTerm EXCEPT ![i] = t],
           role' = [role EXCEPT ![i] = r],
           t >= currentTerm[i],
           r = Leader => role[i] = Leader /\ t = currentTerm[i],
           r = Candidate => (role[i] = Candidate /\ t = currentTerm[i]) \/ t > currentTerm[i]
    PROVE  LogMove(i)
<1>0. StateTypeOK
  BY DEF TypeInv
<1>1. currentTerm'[i] = t /\ role'[i] = r
  BY <1>0 DEF StateTypeOK
<1>2. Own(i)
  BY <1>0, <1>1 DEF Own, StateTypeOK
<1>3. Still(i)
  BY <1>1, Zenon DEF Still
<1> QED BY <1>2, <1>3, Zenon DEF LogMove

(* The same when terms and roles do not change either.                     *)
LEMMA IdleMove ==
    ASSUME TypeInv, NEW i \in Node,
           UNCHANGED <<log, leaderLog, leadersByTerm, currentTerm, role>>
    PROVE  LogMove(i)
<1>0. currentTerm[i] \in Nat
  BY NodeTypes, TermsAreNat
<1>1. Own(i)
  BY <1>0 DEF Own
<1>2. Still(i)
  BY Zenon DEF Still
<1> QED BY <1>1, <1>2, Zenon DEF LogMove

(* A leader that appends a batch, or the part of it a crash leaves.        *)
LEMMA ExtendMove ==
    ASSUME TypeInv, NEW i \in Node, NEW more \in Seq(Entry),
           role[i] = Leader, \A k \in 1..Len(more) : more[k].term = currentTerm[i],
           UNCHANGED <<leadersByTerm, currentTerm>>,
           role' = role \/ role' = [role EXCEPT ![i] = Follower],
           log' = [log EXCEPT ![i] = log[i] \o more],
           leaderLog' = [leaderLog EXCEPT ![currentTerm[i]] = log[i] \o more]
    PROVE  LogMove(i)
<1>0. StateTypeOK /\ currentTerm[i] \in Nat
  BY NodeTypes, TermsAreNat DEF TypeInv
<1>1. role'[i] # Candidate /\ \A j \in Node : j # i => role'[j] = role[j]
  BY <1>0 DEF StateTypeOK, Follower, Candidate, Leader
<1>2. \A j \in Node : j # i => log'[j] = log[j]
  BY <1>0 DEF StateTypeOK
<1>3. Own(i)
  BY <1>0, <1>1, <1>2 DEF Own
<1>4. Extends(i, more)
  BY <1>1, Zenon DEF Extends
<1> QED BY <1>3, <1>4, Zenon DEF LogMove

(* A follower that takes entries of a request.                             *)
LEMMA MergeMove ==
    ASSUME TypeInv, NEW i \in Node, NEW m \in appends, m.to = i, m.term >= currentTerm[i],
           PassesConsistencyCheck(i, m),
           NEW n \in PresentCount(log[i], m)..Len(m.entries),
           currentTerm' = [currentTerm EXCEPT ![i] = TermAfter(i, m.term)],
           role' = [role EXCEPT ![i] = Follower],
           log' = [log EXCEPT ![i] = MergedLog(log[i], m, n)],
           UNCHANGED <<leaderLog, leadersByTerm>>
    PROVE  LogMove(i)
<1>0. StateTypeOK /\ m.term \in Term /\ currentTerm[i] \in Nat /\ m.term \in Nat
  BY NodeTypes, TermsAreNat, Zenon DEF TypeInv, NetworkTypeOK, AppendEntries
<1>1. TermAfter(i, m.term) = m.term
  BY <1>0, TermRuleMove
<1>2. /\ currentTerm'[i] = m.term /\ role'[i] = Follower
      /\ \A j \in Node : j # i =>
            log'[j] = log[j] /\ currentTerm'[j] = currentTerm[j] /\ role'[j] = role[j]
  BY <1>0, <1>1, Zenon DEF StateTypeOK
<1>3. Own(i)
  BY <1>2, Zenon DEF Own
<1>4. Merges(i, m, n)
  BY <1>2, Zenon DEF Merges
<1> QED BY <1>3, <1>4, Zenon DEF LogMove

(* The entries an accepted request brings: all of them may be taken.       *)
LEMMA AllEntries ==
    ASSUME TypeInv, NEW i \in Node, NEW m \in appends
    PROVE  /\ Len(m.entries) \in PresentCount(log[i], m)..Len(m.entries)
           /\ \A n \in PresentCount(log[i], m)..(Len(m.entries) - 1) :
                 n \in PresentCount(log[i], m)..Len(m.entries)
<1>1. m.entries \in Seq(Entry) /\ m.prevLogIndex \in Nat /\ log[i] \in Seq(Entry)
  BY NodeTypes, Zenon DEF TypeInv, NetworkTypeOK, AppendEntries
<1>2. Len(m.entries) \in Nat
  BY <1>1, LenProperties
<1>3. PresentCount(log[i], m) \in 0..Len(m.entries)
  BY <1>1, PresentCountProperties
<1> HIDE DEF PresentCount
<1> QED BY <1>2, <1>3

(* Every action of node i is one of the four moves.                        *)
LEMMA ActionsMove ==
    ASSUME TypeInv, NEW i \in Node,
           Tick(i) \/ Propose(i) \/ PumpApply(i) \/ Handle(i) \/ Crash(i)
    PROVE  LogMove(i)
<1>0. /\ StateTypeOK /\ NetworkTypeOK /\ currentTerm[i] \in Nat /\ currentTerm[i] \in Term
  BY NodeTypes, TermsAreNat DEF TypeInv
<1>1. CASE StartElection(i)
  <2> DEFINE t == currentTerm[i] + 1
  <2>1. t \in Term /\ t > currentTerm[i] /\ t >= currentTerm[i]
    BY <1>1, ElectionTerm, Zenon
  <2>2. currentTerm' = [currentTerm EXCEPT ![i] = t] /\ log' = log /\ role[i] # Leader
    BY <1>1, Zenon DEF StartElection
  <2> HIDE DEF t
  <2>3. CASE BecomeLeader(i, t)
    BY <2>1, <2>2, <2>3, WinMove, Zenon
  <2>4. CASE ~ BecomeLeader(i, t)
    <3>1. role' = [role EXCEPT ![i] = Candidate] /\ UNCHANGED <<leaderLog, leadersByTerm>>
      BY <1>1, <2>4, Zenon DEF StartElection, t
    <3>2. Candidate # Leader
      BY DEF Candidate, Leader
    <3> QED BY <2>1, <2>2, <3>1, <3>2, StillMove, Zenon
  <2> QED BY <2>3, <2>4
<1>2. CASE SendHeartbeats(i)
  <2>1. UNCHANGED <<log, leaderLog, leadersByTerm, currentTerm, role>>
    BY <1>2, Zenon DEF SendHeartbeats, persistent, roleVars, observers
  <2> QED BY <2>1, IdleMove, Zenon
<1>3. ASSUME NEW cmds \in Batch, ProposeBatch(i, cmds) PROVE LogMove(i)
  <2> DEFINE more == [k \in 1..Len(cmds) |-> [term |-> currentTerm[i], cmd |-> cmds[k]]]
  <2>0. Len(cmds) \in 0..Len(cmds) /\ DOMAIN cmds = 1..Len(cmds)
    <3>1. PICK s \in Nat : cmds \in [1..s -> Command]
      BY BoundAssumption DEF Batch
    <3>2. Len(cmds) = s /\ DOMAIN cmds = 1..s
      BY <3>1, FunctionIsSeq
    <3> QED BY <3>1, <3>2
  <2>1. more \in Seq(Entry) /\ \A k \in 1..Len(more) : more[k].term = currentTerm[i]
    BY <1>0, <2>0, BatchEntries
  <2>2. /\ role[i] = Leader
        /\ UNCHANGED <<leadersByTerm, currentTerm, role>>
        /\ log' = [log EXCEPT ![i] = log[i] \o more]
        /\ leaderLog' = [leaderLog EXCEPT ![currentTerm[i]] = log[i] \o more]
    BY <1>3, <2>0, Zenon DEF ProposeBatch, roleVars
  <2> HIDE DEF more
  <2> QED BY <2>1, <2>2, ExtendMove, Zenon
<1>4. CASE PumpApply(i)
  <2>1. UNCHANGED <<log, leaderLog, leadersByTerm, currentTerm, role>>
    BY <1>4, Zenon DEF PumpApply, persistent, roleVars, observers
  <2> QED BY <2>1, IdleMove, Zenon
<1>5. ASSUME NEW m \in requestVotes, OnRequestVote(i, m) PROVE LogMove(i)
  <2>1. m.term \in Term
    BY <1>0, Zenon DEF NetworkTypeOK, RequestVote
  <2>2. /\ currentTerm' = [currentTerm EXCEPT ![i] = TermAfter(i, m.term)]
        /\ role' = [role EXCEPT ![i] = RoleAfter(i, m.term)]
        /\ UNCHANGED <<log, leaderLog, leadersByTerm>>
    BY <1>5, Zenon DEF OnRequestVote
  <2> QED BY <2>1, <2>2, TermRuleMove, StillMove, Zenon
<1>6. ASSUME NEW m \in voteReplies, OnRequestVoteReply(i, m) PROVE LogMove(i)
  <2>1. m.term \in Term /\ m.term \in Nat
    BY <1>0, TermsAreNat, Zenon DEF NetworkTypeOK, RequestVoteReply
  <2>2. TermAfter(i, m.term) \in Term
    BY <2>1, TermRuleType
  <2>3. currentTerm' = [currentTerm EXCEPT ![i] = TermAfter(i, m.term)] /\ log' = log
    BY <1>6, Zenon DEF OnRequestVoteReply
  <2>4. CASE role[i] = Candidate /\ m.term = currentTerm[i] /\ BecomeLeader(i, TermAfter(i, m.term))
    <3>1. TermAfter(i, m.term) = currentTerm[i] /\ role[i] # Leader
      BY <1>0, <2>1, <2>4 DEF TermAfter, NewTerm, Candidate, Leader
    <3> QED BY <2>2, <2>3, <2>4, <3>1, WinMove, Zenon
  <2>5. CASE ~ (role[i] = Candidate /\ m.term = currentTerm[i] /\ BecomeLeader(i, TermAfter(i, m.term)))
    <3>1. role' = [role EXCEPT ![i] = RoleAfter(i, m.term)] /\ UNCHANGED <<leaderLog, leadersByTerm>>
      BY <1>6, <2>5, Zenon DEF OnRequestVoteReply
    <3> QED BY <2>1, <2>3, <3>1, TermRuleMove, StillMove, Zenon
  <2> QED BY <2>4, <2>5
<1>7. ASSUME NEW m \in appends, OnStaleAppendEntries(i, m) PROVE LogMove(i)
  <2>1. UNCHANGED <<log, leaderLog, leadersByTerm, currentTerm, role>>
    BY <1>7, Zenon DEF OnStaleAppendEntries, persistent, roleVars, observers
  <2> QED BY <2>1, IdleMove, Zenon
<1>8. ASSUME NEW m \in appends, OnAppendEntries(i, m) PROVE LogMove(i)
  <2>1. m.term \in Term
    BY <1>0, Zenon DEF NetworkTypeOK, AppendEntries
  <2>2. /\ currentTerm' = [currentTerm EXCEPT ![i] = TermAfter(i, m.term)]
        /\ role' = [role EXCEPT ![i] = Follower]
        /\ m.to = i /\ m.term >= currentTerm[i]
        /\ UNCHANGED <<leaderLog, leadersByTerm>>
    BY <1>8, Zenon DEF OnAppendEntries
  <2>3. CASE PassesConsistencyCheck(i, m)
    <3>1. log' = [log EXCEPT ![i] = MergedLog(log[i], m, Len(m.entries))]
      BY <1>8, <2>3, Zenon DEF OnAppendEntries
    <3> QED BY <2>2, <2>3, <3>1, AllEntries, MergeMove, Zenon
  <2>4. CASE ~ PassesConsistencyCheck(i, m)
    <3>1. log' = [log EXCEPT ![i] = log[i]]
      BY <1>8, <2>4, Zenon DEF OnAppendEntries
    <3>2. log' = log
      BY <1>0, <3>1 DEF StateTypeOK
    <3>3. Follower # Leader /\ Follower # Candidate
      BY DEF Follower, Candidate, Leader
    <3> QED BY <2>1, <2>2, <3>2, <3>3, TermRuleMove, StillMove, Zenon
  <2> QED BY <2>3, <2>4
<1>9. ASSUME NEW m \in appendReplies, OnStaleAppendReply(i, m) PROVE LogMove(i)
  <2>1. m.term \in Nat
    BY <1>0, TermsAreNat, Zenon DEF NetworkTypeOK, AppendEntriesReply
  <2>2. /\ currentTerm' = [currentTerm EXCEPT ![i] = m.term]
        /\ role' = [role EXCEPT ![i] = Follower]
        /\ NewTerm(i, m.term)
        /\ UNCHANGED <<log, leaderLog, leadersByTerm>>
    BY <1>9, Zenon DEF OnStaleAppendReply, observers
  <2>3. m.term >= currentTerm[i]
    BY <1>0, <2>1, <2>2 DEF NewTerm
  <2>4. Follower # Leader /\ Follower # Candidate
    BY DEF Follower, Candidate, Leader
  <2> QED BY <2>2, <2>3, <2>4, StillMove, Zenon
<1>10. ASSUME NEW m \in appendReplies, OnAppendAck(i, m) \/ OnAppendReject(i, m) PROVE LogMove(i)
  <2>1. UNCHANGED <<log, leaderLog, leadersByTerm, currentTerm, role>>
    BY <1>10, Zenon DEF OnAppendAck, OnAppendReject, persistent, roleVars, observers
  <2> QED BY <2>1, IdleMove, Zenon
<1>11. CASE Crash(i)
  <2>0. Follower # Leader /\ Follower # Candidate
    BY DEF Follower, Candidate, Leader
  <2>1. role' = [role EXCEPT ![i] = Follower]
    BY <1>11, Zenon
       DEF Crash, Restart, CrashAfterTermRule, CrashDuringAppend, CrashDuringPropose, ResetVolatile
  <2>2. CASE Restart(i)
    <3>1. UNCHANGED <<log, leaderLog, leadersByTerm, currentTerm>>
      BY <2>2, Zenon DEF Restart, persistent, observers
    <3>2. currentTerm' = [currentTerm EXCEPT ![i] = currentTerm[i]] /\ currentTerm[i] >= currentTerm[i]
      BY <1>0, <3>1 DEF StateTypeOK
    <3> QED BY <2>0, <2>1, <3>1, <3>2, StillMove, Zenon
  <2>3. ASSUME NEW m \in requestVotes \cup voteReplies \cup appends \cup appendReplies,
               CrashAfterTermRule(i, m)
        PROVE  LogMove(i)
    <3>1. m.term \in Nat
      <4>1. m.term \in Term
        BY <1>0
           DEF NetworkTypeOK, RequestVote, RequestVoteReply, AppendEntries, AppendEntriesReply
      <4> QED BY <4>1, TermsAreNat
    <3>2. /\ currentTerm' = [currentTerm EXCEPT ![i] = m.term]
          /\ NewTerm(i, m.term)
          /\ UNCHANGED <<log, leaderLog, leadersByTerm>>
      BY <2>3, Zenon DEF CrashAfterTermRule, observers
    <3>3. m.term >= currentTerm[i]
      BY <1>0, <3>1, <3>2 DEF NewTerm
    <3> QED BY <2>0, <2>1, <3>2, <3>3, StillMove, Zenon
  <2>4. ASSUME NEW m \in appends, CrashDuringAppend(i, m) PROVE LogMove(i)
    <3>1. /\ currentTerm' = [currentTerm EXCEPT ![i] = TermAfter(i, m.term)]
          /\ m.to = i /\ m.term >= currentTerm[i] /\ PassesConsistencyCheck(i, m)
          /\ UNCHANGED <<leaderLog, leadersByTerm>>
      BY <2>4, Zenon DEF CrashDuringAppend, observers
    <3>2. PICK n \in PresentCount(log[i], m)..(Len(m.entries) - 1) :
            log' = [log EXCEPT ![i] = MergedLog(log[i], m, n)]
      BY <2>4, Zenon DEF CrashDuringAppend
    <3>3. n \in PresentCount(log[i], m)..Len(m.entries)
      BY <3>2, AllEntries, Zenon
    <3> QED BY <2>1, <3>1, <3>2, <3>3, MergeMove, Zenon
  <2>5. ASSUME NEW cmds \in Batch, CrashDuringPropose(i, cmds) PROVE LogMove(i)
    <3>1. PICK n \in 1..(Len(cmds) - 1) :
            LET lg == log[i] \o [k \in 1..n |-> [term |-> currentTerm[i], cmd |-> cmds[k]]]
            IN  /\ log' = [log EXCEPT ![i] = lg]
                /\ leaderLog' = [leaderLog EXCEPT ![currentTerm[i]] = lg]
      BY <2>5, Zenon DEF CrashDuringPropose
    <3> DEFINE more == [k \in 1..n |-> [term |-> currentTerm[i], cmd |-> cmds[k]]]
    <3>2. n \in 0..Len(cmds)
      <4>1. PICK s \in Nat : cmds \in [1..s -> Command]
        BY BoundAssumption DEF Batch
      <4>2. Len(cmds) = s
        BY <4>1, FunctionIsSeq
      <4> QED BY <3>1, <4>1, <4>2
    <3>3. more \in Seq(Entry) /\ \A k \in 1..Len(more) : more[k].term = currentTerm[i]
      BY <1>0, <3>2, BatchEntries
    <3>4. /\ log' = [log EXCEPT ![i] = log[i] \o more]
          /\ leaderLog' = [leaderLog EXCEPT ![currentTerm[i]] = log[i] \o more]
      BY <3>1
    <3>5. role[i] = Leader /\ UNCHANGED <<leadersByTerm, currentTerm>>
      BY <2>5, Zenon DEF CrashDuringPropose
    <3> HIDE DEF more
    <3> QED BY <2>1, <3>3, <3>4, <3>5, ExtendMove, Zenon
  <2> QED BY <1>11, <2>2, <2>3, <2>4, <2>5, Zenon DEF Crash
<1> QED BY <1>1, <1>2, <1>3, <1>4, <1>5, <1>6, <1>7, <1>8, <1>9, <1>10, <1>11, Zenon
        DEF Tick, Propose, Handle

-----------------------------------------------------------------------------
(* What is true of the logs, and how a move keeps it.                      *)

(* A leader's log is the log of its term, and a term without a winner has  *)
(* none.                                                                   *)
LeaderHoldsLog == \A i \in Node : role[i] = Leader => log[i] = leaderLog[currentTerm[i]]
LostTermsEmpty == \A t \in Term : leadersByTerm[t] = {} => leaderLog[t] = <<>>

(* A node has reached the terms it won, and is no candidate in one of      *)
(* them.                                                                   *)
WinsArePast == \A t \in Term : \A i \in leadersByTerm[t] : t <= currentTerm[i]
CandidateNotWon == \A i \in Node : role[i] = Candidate => i \notin leadersByTerm[currentTerm[i]]

(* Every log stems from the leaders, and holds no entry of a later term.   *)
LogsFromLeaders ==
    \A i \in Node : FromLeaders(log[i], leaderLog) /\ TermsUpTo(log[i], currentTerm[i])
LeaderLogsFromLeaders ==
    \A t \in Term : FromLeaders(leaderLog[t], leaderLog) /\ TermsUpTo(leaderLog[t], t)

(* A request is a slice of the log of its term.                            *)
IsSlice(m, ll) ==
    /\ ConfirmedThrough(m) <= Len(ll)
    /\ m.prevLogTerm = TermAt(ll, m.prevLogIndex)
    /\ \A q \in 1..Len(m.entries) : m.entries[q] = ll[m.prevLogIndex + q]
AppendsAreSlices == \A m \in appends : IsSlice(m, leaderLog[m.term])

(* The inductive invariant of this module.                                 *)
LogInv ==
    /\ LeaderHoldsLog /\ LostTermsEmpty
    /\ WinsArePast /\ CandidateNotWon
    /\ LogsFromLeaders /\ LeaderLogsFromLeaders
    /\ AppendsAreSlices

(* Nobody had won the term a node wins, so it had no log.                  *)
LEMMA WinIsFresh ==
    ASSUME TypeInv, TypeInv', ElectionSafety', LogInv, NEW i \in Node, Wins(i)
    PROVE  /\ currentTerm'[i] \in Term
           /\ leadersByTerm[currentTerm'[i]] = {}
           /\ leaderLog[currentTerm'[i]] = <<>>
<1> DEFINE t == currentTerm'[i]
<1>1. t \in Term /\ t \in Nat /\ currentTerm[i] \in Nat
  BY CurrentTermType DEF TypeInv, StateTypeOK
<1>2. leadersByTerm' = [leadersByTerm EXCEPT ![t] = @ \cup {i}]
  BY Zenon DEF Wins
<1>3. t > currentTerm[i] \/ (t = currentTerm[i] /\ role[i] = Candidate)
  BY Zenon DEF Wins
<1> HIDE DEF t
<1>4. i \in leadersByTerm'[t] /\ leadersByTerm[t] \subseteq leadersByTerm'[t]
  BY <1>1, <1>2 DEF TypeInv, ObserverTypeOK
<1>5. ASSUME NEW j \in leadersByTerm[t] PROVE FALSE
  <2>1. j = i
    BY <1>1, <1>4, <1>5 DEF ElectionSafety
  <2>2. t <= currentTerm[i]
    BY <1>1, <1>5, <2>1 DEF LogInv, WinsArePast
  <2>3. t = currentTerm[i] /\ role[i] = Candidate
    BY <1>1, <1>3, <2>2
  <2> QED BY <1>5, <2>1, <2>3 DEF LogInv, CandidateNotWon
<1>6. leadersByTerm[t] = {}
  BY <1>5
<1> QED BY <1>1, <1>6 DEF t, LogInv, LostTermsEmpty

(* A log and what is appended to it.                                       *)
LEMMA Appended ==
    ASSUME NEW lg \in Seq(Entry), NEW more \in Seq(Entry)
    PROVE  /\ lg \o more \in Seq(Entry)
           /\ Len(lg \o more) = Len(lg) + Len(more)
           /\ Agree(lg \o more, lg, Len(lg))
           /\ \A k \in 1..Len(lg \o more) : k \in 1..Len(lg) \/ (k - Len(lg) \in 1..Len(more) /\ (lg \o more)[k] = more[k - Len(lg)])
<1>1. /\ lg \o more \in Seq(Entry)
      /\ Len(lg \o more) = Len(lg) + Len(more)
      /\ \A k \in 1 .. Len(lg) + Len(more) :
            (lg \o more)[k] = IF k <= Len(lg) THEN lg[k] ELSE more[k - Len(lg)]
  BY ConcatProperties, Zenon
<1>2. Len(lg) \in Nat /\ Len(more) \in Nat
  BY LenProperties
<1> DEFINE both == lg \o more
<1> HIDE DEF both
<1>3. /\ both \in Seq(Entry)
      /\ Len(both) = Len(lg) + Len(more)
      /\ \A k \in 1 .. Len(lg) + Len(more) :
            both[k] = IF k <= Len(lg) THEN lg[k] ELSE more[k - Len(lg)]
  BY <1>1 DEF both
<1>4. Agree(both, lg, Len(lg))
  BY <1>2, <1>3 DEF Agree
<1>5. \A k \in 1..Len(both) : k \in 1..Len(lg) \/ (k - Len(lg) \in 1..Len(more) /\ both[k] = more[k - Len(lg)])
  BY <1>2, <1>3
<1> QED BY <1>3, <1>4, <1>5 DEF both

(* Leaders' logs only grow, and nobody loses a win.                        *)
LEMMA LeaderLogsGrow ==
    ASSUME TypeInv, TypeInv', ElectionSafety', LogInv, NEW i \in Node, LogMove(i)
    PROVE  /\ Grown(leaderLog, leaderLog')
           /\ \A t \in Term : leadersByTerm[t] \subseteq leadersByTerm'[t]
<1>0. /\ leaderLog \in [Term -> Seq(Entry)] /\ leaderLog' \in [Term -> Seq(Entry)]
      /\ leadersByTerm \in [Term -> SUBSET Node]
      /\ currentTerm[i] \in Term /\ log[i] \in Seq(Entry)
  BY NodeTypes DEF TypeInv, ObserverTypeOK
<1>1. ASSUME NEW t \in Term, leaderLog'[t] = leaderLog[t] PROVE Agree(leaderLog'[t], leaderLog[t], Len(leaderLog[t]))
  <2>1. leaderLog[t] \in Seq(Entry) /\ Len(leaderLog[t]) \in Nat
    BY <1>0, LenProperties
  <2> QED BY <1>1, <2>1, AgreeSelf
<1>2. CASE Still(i)
  BY <1>1, <1>2 DEF Still, Grown
<1>3. CASE Wins(i)
  <2>1. /\ currentTerm'[i] \in Term
        /\ leaderLog[currentTerm'[i]] = <<>>
    BY <1>3, WinIsFresh
  <2>2. /\ leaderLog' = [leaderLog EXCEPT ![currentTerm'[i]] = log[i]]
        /\ leadersByTerm' = [leadersByTerm EXCEPT ![currentTerm'[i]] = @ \cup {i}]
    BY <1>3, Zenon DEF Wins
  <2>3. \A t \in Term : leadersByTerm[t] \subseteq leadersByTerm'[t]
    BY <1>0, <2>1, <2>2
  <2>4. ASSUME NEW t \in Term PROVE Agree(leaderLog'[t], leaderLog[t], Len(leaderLog[t]))
    <3>1. CASE t = currentTerm'[i]
      <4>1. leaderLog[t] = <<>> /\ leaderLog'[t] \in Seq(Entry)
        BY <1>0, <2>1, <3>1
      <4>2. Len(leaderLog[t]) = 0 /\ Len(leaderLog'[t]) \in Nat
        BY <4>1, LenProperties
      <4> QED BY <4>2 DEF Agree
    <3>2. CASE t # currentTerm'[i]
      BY <1>0, <1>1, <2>2, <3>2
    <3> QED BY <3>1, <3>2
  <2> QED BY <2>3, <2>4 DEF Grown
<1>4. ASSUME NEW more, Extends(i, more)
      PROVE  /\ Grown(leaderLog, leaderLog')
             /\ \A t \in Term : leadersByTerm[t] \subseteq leadersByTerm'[t]
  <2>1. /\ more \in Seq(Entry)
        /\ leaderLog' = [leaderLog EXCEPT ![currentTerm[i]] = log[i] \o more]
        /\ leadersByTerm' = leadersByTerm
        /\ leaderLog[currentTerm[i]] = log[i]
    BY <1>4, Zenon DEF Extends, LogInv, LeaderHoldsLog
  <2>2. Agree(log[i] \o more, log[i], Len(log[i]))
    BY <1>0, <2>1, Appended
  <2>3. ASSUME NEW t \in Term PROVE Agree(leaderLog'[t], leaderLog[t], Len(leaderLog[t]))
    <3>1. CASE t = currentTerm[i]
      <4>1. leaderLog[t] = log[i] /\ leaderLog'[t] = log[i] \o more
        BY <1>0, <2>1, <3>1, Zenon
      <4> QED BY <2>2, <4>1, Zenon
    <3>2. CASE t # currentTerm[i]
      BY <1>0, <1>1, <2>1, <3>2, Zenon
    <3> QED BY <3>1, <3>2
  <2> QED BY <2>1, <2>3 DEF Grown
<1>5. ASSUME NEW m, NEW n, Merges(i, m, n)
      PROVE  /\ Grown(leaderLog, leaderLog')
             /\ \A t \in Term : leadersByTerm[t] \subseteq leadersByTerm'[t]
  BY <1>1, <1>5 DEF Merges, Grown
<1> QED BY <1>2, <1>3, <1>4, <1>5, Zenon DEF LogMove

(* What a merge leaves in the log.                                         *)
LEMMA MergeResult ==
    ASSUME TypeInv, LogInv, NEW i \in Node, NEW m, NEW n, Merges(i, m, n)
    PROVE  LET ll == leaderLog[m.term]
           IN  /\ m.term \in Term /\ ll \in Seq(Entry)
               /\ log'[i] \in Seq(Entry)
               /\ log'[i] = log[i] \/ Agree(log'[i], ll, Len(log'[i]))
               /\ n = Len(m.entries) => Agree(log'[i], ll, ConfirmedThrough(m))
               /\ \A c \in Nat : Agree(log[i], ll, c) => Agree(log'[i], ll, c)
<1> DEFINE ll == leaderLog[m.term]
<1>0. /\ m \in appends /\ m.term \in Term /\ m.entries \in Seq(Entry) /\ m.prevLogIndex \in Nat
      /\ n \in PresentCount(log[i], m)..Len(m.entries)
      /\ log[i] \in Seq(Entry) /\ ll \in Seq(Entry)
  <2>1. m \in appends /\ n \in PresentCount(log[i], m)..Len(m.entries)
    BY Zenon DEF Merges
  <2>2. m.term \in Term /\ m.entries \in Seq(Entry) /\ m.prevLogIndex \in Nat
    BY <2>1, Zenon DEF TypeInv, NetworkTypeOK, AppendEntries
  <2> QED BY <2>1, <2>2, NodeTypes, Zenon DEF TypeInv, ObserverTypeOK
<1>1. m.prevLogIndex <= Len(log[i]) /\ TermAt(log[i], m.prevLogIndex) = m.prevLogTerm
  BY Zenon DEF Merges, PassesConsistencyCheck
<1>2. /\ m.prevLogIndex + Len(m.entries) <= Len(ll)
      /\ m.prevLogTerm = TermAt(ll, m.prevLogIndex)
      /\ \A q \in 1..Len(m.entries) : m.entries[q] = ll[m.prevLogIndex + q]
  BY <1>0, Zenon DEF LogInv, AppendsAreSlices, IsSlice, ConfirmedThrough
<1>3. FromLeaders(log[i], leaderLog) /\ FromLeaders(ll, leaderLog)
  BY <1>0, Zenon DEF LogInv, LogsFromLeaders, LeaderLogsFromLeaders
<1>4. log'[i] = MergedLog(log[i], m, n)
  BY Zenon DEF Merges, TypeInv, StateTypeOK
<1> HIDE DEF ll
<1>5. \A k \in 1..Len(log[i]) : k <= Len(ll) /\ log[i][k].term = ll[k].term => Agree(log[i], ll, k)
  <2> SUFFICES ASSUME NEW k \in 1..Len(log[i]), k <= Len(ll), log[i][k].term = ll[k].term
               PROVE  Agree(log[i], ll, k)
    OBVIOUS
  <2>1. k \in 1..Len(ll)
    BY <1>0, LenProperties
  <2> QED BY <1>0, <1>3, <2>1, SameTermAgree, Zenon
<1>6. /\ MergedLog(log[i], m, n) \in Seq(Entry)
      /\ MergedLog(log[i], m, n) = log[i] \/ Agree(MergedLog(log[i], m, n), ll, Len(MergedLog(log[i], m, n)))
      /\ n = Len(m.entries) => Agree(MergedLog(log[i], m, n), ll, ConfirmedThrough(m))
      /\ \A c \in Nat : Agree(log[i], ll, c) => Agree(MergedLog(log[i], m, n), ll, c)
  BY <1>0, <1>1, <1>2, <1>5, MergeSlice, Zenon
<1> QED BY <1>0, <1>4, <1>6 DEF ll

(* What the proofs of this module know before and after a step.            *)
Known == TypeInv /\ ElectionSafety /\ LeadersInv /\ LogInv

(* The log of a term that a node other than i leads does not change.       *)
LEMMA OtherLeadersKeep ==
    ASSUME Known, TypeInv', ElectionSafety', NEW i \in Node, LogMove(i),
           NEW j \in Node, j # i, role[j] = Leader
    PROVE  leaderLog'[currentTerm[j]] = leaderLog[currentTerm[j]]
<1>0. /\ TypeInv /\ ElectionSafety /\ LeadersInv /\ LogInv
      /\ currentTerm[j] \in Term /\ currentTerm[i] \in Term
      /\ leaderLog \in [Term -> Seq(Entry)]
      /\ j \in leadersByTerm[currentTerm[j]]
  BY NodeTypes, Zenon DEF Known, TypeInv, ObserverTypeOK, LeadersInv, LeadersWon
<1>1. CASE Wins(i)
  <2>1. leadersByTerm[currentTerm'[i]] = {} /\ currentTerm'[i] \in Term
    BY <1>0, <1>1, WinIsFresh
  <2>2. currentTerm[j] # currentTerm'[i]
    BY <1>0, <2>1
  <2>3. leaderLog' = [leaderLog EXCEPT ![currentTerm'[i]] = log[i]]
    BY <1>1, Zenon DEF Wins
  <2> QED BY <1>0, <2>2, <2>3, Zenon
<1>2. ASSUME NEW more, Extends(i, more) PROVE leaderLog'[currentTerm[j]] = leaderLog[currentTerm[j]]
  <2>1. i \in leadersByTerm[currentTerm[i]]
    BY <1>0, <1>2, Zenon DEF Extends, LeadersInv, LeadersWon
  <2>2. currentTerm[j] # currentTerm[i]
    BY <1>0, <2>1 DEF ElectionSafety
  <2>3. leaderLog' = [leaderLog EXCEPT ![currentTerm[i]] = log[i] \o more]
    BY <1>2, Zenon DEF Extends
  <2> QED BY <1>0, <2>2, <2>3, Zenon
<1>3. CASE leaderLog' = leaderLog
  BY <1>3
<1> QED BY <1>1, <1>2, <1>3, Zenon DEF LogMove, Still, Merges

(* A leader's log is the log of its term.                                  *)
LEMMA LeaderHoldsLogKept ==
    ASSUME Known, TypeInv', ElectionSafety', NEW i \in Node, LogMove(i)
    PROVE  LeaderHoldsLog'
<1> SUFFICES ASSUME NEW j \in Node, role'[j] = Leader
             PROVE  log'[j] = leaderLog'[currentTerm'[j]]
  BY Zenon DEF LeaderHoldsLog
<1>0. /\ TypeInv /\ LeaderHoldsLog /\ Own(i)
      /\ log \in [Node -> Seq(Entry)] /\ leaderLog \in [Term -> Seq(Entry)]
      /\ currentTerm[i] \in Term /\ currentTerm'[i] \in Term
  BY Zenon DEF Known, TypeInv, StateTypeOK, ObserverTypeOK, LogInv, LogMove
<1>1. CASE j # i
  <2>1. role[j] = Leader /\ log'[j] = log[j] /\ currentTerm'[j] = currentTerm[j]
    BY <1>0, <1>1, Zenon DEF Own
  <2>2. log[j] = leaderLog[currentTerm[j]]
    BY <1>0, <2>1, Zenon DEF LeaderHoldsLog
  <2> QED BY <1>1, <2>1, <2>2, OtherLeadersKeep, Zenon
<1>2. CASE j = i
  <2>1. CASE Still(i)
    BY <1>0, <1>2, <2>1, Zenon DEF Still, LeaderHoldsLog
  <2>2. CASE Wins(i)
    <3>1. log' = log /\ leaderLog' = [leaderLog EXCEPT ![currentTerm'[i]] = log[i]]
      BY <2>2, Zenon DEF Wins
    <3> QED BY <1>0, <1>2, <3>1, Zenon
  <2>3. ASSUME NEW more, Extends(i, more) PROVE log'[j] = leaderLog'[currentTerm'[j]]
    <3>1. /\ log' = [log EXCEPT ![i] = log[i] \o more] /\ currentTerm'[i] = currentTerm[i]
          /\ leaderLog' = [leaderLog EXCEPT ![currentTerm[i]] = log[i] \o more]
      BY <2>3, Zenon DEF Extends
    <3> QED BY <1>0, <1>2, <3>1, Zenon
  <2>4. ASSUME NEW m, NEW n, Merges(i, m, n) PROVE FALSE
    <3>1. role'[i] = Follower
      BY <2>4, Zenon DEF Merges
    <3> QED BY <1>2, <3>1 DEF Follower, Leader
  <2> QED BY <2>1, <2>2, <2>3, <2>4, Zenon DEF LogMove
<1> QED BY <1>1, <1>2

(* Wins are of terms their winners have reached.                           *)
LEMMA WinsKept ==
    ASSUME Known, TypeInv', ElectionSafety', NEW i \in Node, LogMove(i)
    PROVE  LostTermsEmpty' /\ WinsArePast' /\ CandidateNotWon'
<1>0. /\ TypeInv /\ LogInv /\ Own(i)
      /\ leaderLog \in [Term -> Seq(Entry)] /\ leadersByTerm \in [Term -> SUBSET Node]
      /\ currentTerm[i] \in Term /\ currentTerm'[i] \in Term
  BY Zenon DEF Known, TypeInv, StateTypeOK, ObserverTypeOK, LogMove
<1>00. \A j \in Node : currentTerm[j] \in Nat /\ currentTerm'[j] \in Nat /\ currentTerm[j] \in Term
  BY <1>0, CurrentTermType, NodeTypes
<1>1. \A j \in Node : currentTerm[j] <= currentTerm'[j]
  <2> TAKE j \in Node
  <2>1. j # i => currentTerm'[j] = currentTerm[j]
    BY <1>0, Zenon DEF Own
  <2>2. currentTerm'[i] >= currentTerm[i]
    BY <1>0, Zenon DEF Own
  <2> QED BY <1>00, <2>1, <2>2
<1>t. Follower # Leader /\ Follower # Candidate /\ Candidate # Leader
  BY DEF Follower, Candidate, Leader
<1>2. CASE Wins(i)
  <2> DEFINE t == currentTerm'[i]
  <2>1. /\ leadersByTerm' = [leadersByTerm EXCEPT ![t] = @ \cup {i}]
        /\ leaderLog' = [leaderLog EXCEPT ![t] = log[i]]
        /\ role'[i] = Leader /\ t \in Term
    BY <1>0, <1>2, Zenon DEF Wins
  <2>1a. /\ TypeInv /\ LogInv
    BY <1>0
  <2>1b. leadersByTerm[t] = {}
    BY <2>1a, <1>2, WinIsFresh
  <2>e. i \in leadersByTerm'[t]
    BY <1>0, <2>1
  <2>2. \A u \in Term : u # t => leadersByTerm'[u] = leadersByTerm[u] /\ leaderLog'[u] = leaderLog[u]
    BY <1>0, <2>1
  <2>3. leadersByTerm'[t] = {i}
    BY <1>0, <2>1, <2>1b
  <2>3a. t <= currentTerm'[i]
    BY <1>00
  <2> HIDE DEF t
  <2>4. LostTermsEmpty'
    BY <2>2, <2>3, <1>0, Zenon DEF LostTermsEmpty, LogInv
  <2>5. WinsArePast'
    <3> SUFFICES ASSUME NEW u \in Term, NEW j \in leadersByTerm'[u] PROVE u <= currentTerm'[j]
      BY Zenon DEF WinsArePast
    <3>1. CASE u = t
      BY <2>3, <2>3a, <3>1
    <3>2. CASE u # t
      <4>1. j \in leadersByTerm[u] /\ j \in Node /\ u \in Nat
        BY <1>0, <2>2, <3>2, TermsAreNat
      <4>2. u <= currentTerm[j]
        BY <1>0, <4>1, Zenon DEF LogInv, WinsArePast
      <4> QED BY <1>00, <1>1, <4>1, <4>2
    <3> QED BY <3>1, <3>2
  <2>6. CandidateNotWon'
    <3> SUFFICES ASSUME NEW j \in Node, role'[j] = Candidate PROVE j \notin leadersByTerm'[currentTerm'[j]]
      BY Zenon DEF CandidateNotWon
    <3>1. j # i
      BY <1>t, <2>1
    <3>2. role[j] = Candidate /\ currentTerm'[j] = currentTerm[j]
      BY <1>0, <3>1, Zenon DEF Own
    <3>3. j \notin leadersByTerm[currentTerm[j]] /\ currentTerm[j] \in Term
      BY <1>0, <1>00, <3>2, Zenon DEF LogInv, CandidateNotWon
    <3>4. currentTerm[j] = t => leadersByTerm'[currentTerm[j]] = {i}
      BY <2>3
    <3>5. currentTerm[j] # t => leadersByTerm'[currentTerm[j]] = leadersByTerm[currentTerm[j]]
      BY <2>2, <3>3, Zenon
    <3> QED BY <3>1, <3>2, <3>3, <3>4, <3>5
  <2> QED BY <2>4, <2>5, <2>6
<1>3. CASE ~ Wins(i)
  <2>1. leadersByTerm' = leadersByTerm
    BY <1>3, Zenon DEF LogMove, Still, Extends, Merges
  <2>2. WinsArePast'
    <3> SUFFICES ASSUME NEW u \in Term, NEW j \in leadersByTerm[u] PROVE u <= currentTerm'[j]
      BY <2>1, Zenon DEF WinsArePast
    <3>1. j \in Node /\ u \in Nat /\ u <= currentTerm[j]
      BY <1>0, TermsAreNat DEF LogInv, WinsArePast
    <3> QED BY <1>00, <1>1, <3>1
  <2>3. CandidateNotWon'
    <3> SUFFICES ASSUME NEW j \in Node, role'[j] = Candidate PROVE j \notin leadersByTerm[currentTerm'[j]]
      BY <2>1, Zenon DEF CandidateNotWon
    <3>1. CASE role[j] = Candidate /\ currentTerm'[j] = currentTerm[j]
      BY <1>0, <3>1, Zenon DEF LogInv, CandidateNotWon
    <3>2. CASE currentTerm'[j] > currentTerm[j]
      <4>1. currentTerm'[j] \in Term
        BY DEF TypeInv, StateTypeOK
      <4> QED BY <1>0, <1>00, <3>2, <4>1 DEF LogInv, WinsArePast
    <3>3. j # i => role[j] = Candidate /\ currentTerm'[j] = currentTerm[j]
      BY <1>0, Zenon DEF Own
    <3>4. j = i => \/ role[j] = Candidate /\ currentTerm'[j] = currentTerm[j]
                   \/ currentTerm'[j] > currentTerm[j]
      BY <1>3, <1>t, Zenon DEF LogMove, Still, Extends, Merges
    <3> QED BY <3>1, <3>2, <3>3, <3>4
  <2>4. LostTermsEmpty'
    <3> SUFFICES ASSUME NEW u \in Term, leadersByTerm[u] = {} PROVE leaderLog'[u] = <<>>
      BY <2>1, Zenon DEF LostTermsEmpty
    <3>1. leaderLog[u] = <<>>
      BY <1>0, Zenon DEF LogInv, LostTermsEmpty
    <3>2. ASSUME NEW more, Extends(i, more) PROVE leaderLog'[u] = leaderLog[u]
      <4>1. /\ role[i] = Leader
            /\ leaderLog' = [leaderLog EXCEPT ![currentTerm[i]] = log[i] \o more]
        BY <3>2, Zenon DEF Extends
      <4>2. i \in leadersByTerm[currentTerm[i]]
        BY <4>1, Zenon DEF Known, LeadersInv, LeadersWon
      <4>3. u # currentTerm[i]
        BY <4>2
      <4> QED BY <1>0, <4>1, <4>3, Zenon
    <3> QED BY <1>3, <3>1, <3>2, Zenon DEF LogMove, Still, Merges
  <2> QED BY <2>2, <2>3, <2>4
<1> QED BY <1>2, <1>3

(* Appending entries of one term to a log, where that term's log is the    *)
(* result.                                                                 *)
LEMMA AppendedFromLeaders ==
    ASSUME NEW lg \in Seq(Entry), NEW more \in Seq(Entry), NEW ll, NEW t \in Term, NEW both,
           both = lg \o more, ll[t] = both, \A k \in 1..Len(more) : more[k].term = t,
           FromLeaders(lg, ll), TermsUpTo(lg, t)
    PROVE  FromLeaders(both, ll) /\ TermsUpTo(both, t)
<1>1. /\ both \in Seq(Entry) /\ Agree(both, lg, Len(lg))
      /\ \A k \in 1..Len(both) : k \in 1..Len(lg) \/ (k - Len(lg) \in 1..Len(more) /\ both[k] = more[k - Len(lg)])
  BY Appended
<1>2. ll[t] = both
  OBVIOUS
<1>3. Len(lg) \in Nat /\ t \in Nat
  BY LenProperties, TermsAreNat
<1>4. ASSUME NEW k \in 1..Len(both) PROVE Agree(both, ll[both[k].term], k) /\ both[k].term <= t
  <2>0. k \in Nat /\ k <= Len(both)
    BY <1>1, EntryTypes, LenProperties
  <2>1. CASE k \in 1..Len(lg)
    <3>1. both[k] = lg[k] /\ k <= Len(lg)
      BY <1>1, <1>3, <2>1 DEF Agree
    <3>2. Agree(both, lg, k)
      BY <1>1, <1>3, <2>0, <3>1, AgreeShorter
    <3>3. Agree(lg, ll[lg[k].term], k) /\ lg[k].term <= t
      BY <2>1 DEF FromLeaders, TermsUpTo
    <3> QED BY <3>1, <3>2, <3>3, AgreeChain, Zenon
  <2>2. CASE k - Len(lg) \in 1..Len(more) /\ both[k] = more[k - Len(lg)]
    <3>1. both[k].term = t
      BY <2>2
    <3>2. Agree(both, both, k)
      BY <1>1, <2>0, AgreeSelf
    <3>3. t <= t
      BY <1>3
    <3> QED BY <1>2, <3>1, <3>2, <3>3, Zenon
  <2> QED BY <1>1, <2>1, <2>2
<1> QED BY <1>4 DEF FromLeaders, TermsUpTo

(* Later terms bound what earlier terms bound.                             *)
LEMMA TermsUpToLater ==
    ASSUME NEW lg \in Seq(Entry), NEW t \in Nat, NEW u \in Nat, t <= u, TermsUpTo(lg, t)
    PROVE  TermsUpTo(lg, u)
<1> SUFFICES ASSUME NEW k \in 1..Len(lg) PROVE lg[k].term <= u
  BY DEF TermsUpTo
<1>1. lg[k].term \in Nat /\ lg[k].term <= t
  BY EntryTypes DEF TermsUpTo
<1> QED BY <1>1

(* A prefix holds no later terms than the whole.                           *)
LEMMA PrefixTerms ==
    ASSUME NEW a \in Seq(Entry), NEW b \in Seq(Entry), NEW t, Agree(a, b, Len(a)), TermsUpTo(b, t)
    PROVE  TermsUpTo(a, t)
<1>1. Len(a) \in Nat /\ Len(b) \in Nat
  BY LenProperties
<1> QED BY <1>1 DEF TermsUpTo, Agree

(* Every log stems from the leaders' logs after a move.                    *)
LEMMA LogsKept ==
    ASSUME Known, TypeInv', ElectionSafety', NEW i \in Node, LogMove(i)
    PROVE  LogsFromLeaders' /\ LeaderLogsFromLeaders'
<1>0. /\ TypeInv /\ LogInv /\ Own(i)
      /\ leaderLog \in [Term -> Seq(Entry)] /\ leaderLog' \in [Term -> Seq(Entry)]
      /\ log \in [Node -> Seq(Entry)] /\ log' \in [Node -> Seq(Entry)]
      /\ currentTerm[i] \in Term /\ currentTerm'[i] \in Term
      /\ log[i] \in Seq(Entry)
  BY Zenon DEF Known, TypeInv, StateTypeOK, ObserverTypeOK, LogMove
<1>1. /\ currentTerm[i] \in Nat /\ currentTerm'[i] \in Nat /\ currentTerm[i] <= currentTerm'[i]
  <2>1. currentTerm[i] \in Nat /\ currentTerm'[i] \in Nat /\ currentTerm'[i] >= currentTerm[i]
    BY <1>0, CurrentTermType, Zenon DEF Own
  <2> QED BY <2>1
<1>2. Grown(leaderLog, leaderLog')
  BY <1>0, LeaderLogsGrow
<1>3. \A j \in Node : FromLeaders(log[j], leaderLog) /\ TermsUpTo(log[j], currentTerm[j])
  BY <1>0, Zenon DEF LogInv, LogsFromLeaders
<1>4. \A t \in Term : FromLeaders(leaderLog[t], leaderLog) /\ TermsUpTo(leaderLog[t], t)
  BY <1>0, Zenon DEF LogInv, LeaderLogsFromLeaders
<1>5. \A lg \in Seq(Entry) : FromLeaders(lg, leaderLog) => FromLeaders(lg, leaderLog')
  BY <1>0, <1>2, GrownFromLeaders, Zenon
<1>6. /\ FromLeaders(log'[i], leaderLog') /\ TermsUpTo(log'[i], currentTerm'[i])
      /\ \A t \in Term : \/ leaderLog'[t] = leaderLog[t]
                         \/ /\ t = currentTerm'[i]
                            /\ leaderLog'[t] = log'[i]
  <2>1. CASE Still(i)
    <3>1. log' = log /\ leaderLog' = leaderLog
      BY <2>1, Zenon DEF Still
    <3>2. TermsUpTo(log[i], currentTerm'[i])
      BY <1>0, <1>1, <1>3, TermsUpToLater, Zenon
    <3> QED BY <1>3, <3>1, <3>2, Zenon
  <2>2. CASE Wins(i)
    <3>1. log' = log /\ leaderLog' = [leaderLog EXCEPT ![currentTerm'[i]] = log[i]]
      BY <2>2, Zenon DEF Wins
    <3>2. TermsUpTo(log[i], currentTerm'[i])
      BY <1>0, <1>1, <1>3, TermsUpToLater, Zenon
    <3>3. FromLeaders(log[i], leaderLog')
      BY <1>0, <1>3, <1>5, Zenon
    <3> QED BY <1>0, <3>1, <3>2, <3>3, Zenon
  <2>3. ASSUME NEW more, Extends(i, more)
        PROVE  /\ FromLeaders(log'[i], leaderLog') /\ TermsUpTo(log'[i], currentTerm'[i])
               /\ \A t \in Term : \/ leaderLog'[t] = leaderLog[t]
                                  \/ /\ t = currentTerm'[i]
                                     /\ leaderLog'[t] = log'[i]
    <3>1. /\ log' = [log EXCEPT ![i] = log[i] \o more] /\ currentTerm'[i] = currentTerm[i]
          /\ leaderLog' = [leaderLog EXCEPT ![currentTerm[i]] = log[i] \o more]
          /\ more \in Seq(Entry) /\ \A k \in 1..Len(more) : more[k].term = currentTerm[i]
      BY <2>3, Zenon DEF Extends
    <3>2. log'[i] = log[i] \o more /\ leaderLog'[currentTerm[i]] = log[i] \o more
      BY <1>0, <3>1, Zenon
    <3>3. FromLeaders(log[i], leaderLog') /\ TermsUpTo(log[i], currentTerm[i])
      BY <1>0, <1>3, <1>5, Zenon
    <3>4. FromLeaders(log'[i], leaderLog') /\ TermsUpTo(log'[i], currentTerm[i])
      <4>1. PICK lg, ll, both, t : lg = log[i] /\ ll = leaderLog' /\ both = log'[i] /\ t = currentTerm[i]
        OBVIOUS
      <4>2. /\ lg \in Seq(Entry) /\ more \in Seq(Entry) /\ t \in Term
            /\ both = lg \o more /\ ll[t] = both
        BY <1>0, <3>1, <3>2, <4>1
      <4>3. FromLeaders(lg, ll) /\ TermsUpTo(lg, t) /\ \A k \in 1..Len(more) : more[k].term = t
        BY <3>1, <3>3, <4>1
      <4>4. FromLeaders(both, ll) /\ TermsUpTo(both, t)
        BY <4>2, <4>3, AppendedFromLeaders
      <4> QED BY <4>1, <4>4
    <3> QED BY <1>0, <3>1, <3>2, <3>4, Zenon
  <2>4. ASSUME NEW m, NEW n, Merges(i, m, n)
        PROVE  /\ FromLeaders(log'[i], leaderLog') /\ TermsUpTo(log'[i], currentTerm'[i])
               /\ leaderLog' = leaderLog
    <3>1. leaderLog' = leaderLog /\ currentTerm'[i] = m.term
      BY <2>4, Zenon DEF Merges
    <3>2. /\ m.term \in Term /\ leaderLog[m.term] \in Seq(Entry)
          /\ log'[i] \in Seq(Entry)
          /\ log'[i] = log[i] \/ Agree(log'[i], leaderLog[m.term], Len(log'[i]))
      BY <1>0, <2>4, MergeResult
    <3>3. CASE log'[i] = log[i]
      <4>1. TermsUpTo(log[i], currentTerm'[i])
        BY <1>0, <1>1, <1>3, TermsUpToLater, Zenon
      <4> QED BY <1>3, <3>1, <3>3, <4>1, Zenon
    <3>4. CASE Agree(log'[i], leaderLog[m.term], Len(log'[i]))
      BY <1>4, <3>1, <3>2, <3>4, PrefixFromLeaders, PrefixTerms, Zenon
    <3> QED BY <3>1, <3>2, <3>3, <3>4
  <2> QED BY <2>1, <2>2, <2>3, <2>4, Zenon DEF LogMove
<1>7. LogsFromLeaders'
  <2> SUFFICES ASSUME NEW j \in Node
               PROVE  FromLeaders(log'[j], leaderLog') /\ TermsUpTo(log'[j], currentTerm'[j])
    BY Zenon DEF LogsFromLeaders
  <2>1. CASE j # i
    <3>1. log'[j] = log[j] /\ currentTerm'[j] = currentTerm[j]
      BY <1>0, <2>1, Zenon DEF Own
    <3> QED BY <1>0, <1>3, <1>5, <3>1, Zenon
  <2> QED BY <1>6, <2>1
<1>8. LeaderLogsFromLeaders'
  <2> SUFFICES ASSUME NEW t \in Term
               PROVE  FromLeaders(leaderLog'[t], leaderLog') /\ TermsUpTo(leaderLog'[t], t)
    BY Zenon DEF LeaderLogsFromLeaders
  <2>1. CASE leaderLog'[t] = leaderLog[t]
    <3>1. leaderLog[t] \in Seq(Entry)
      BY <1>0
    <3> QED BY <1>4, <1>5, <2>1, <3>1, Zenon
  <2>2. CASE t = currentTerm'[i] /\ leaderLog'[t] = log'[i]
    BY <1>6, <2>2, Zenon
  <2> QED BY <1>6, <2>1, <2>2, Zenon
<1> QED BY <1>7, <1>8

-----------------------------------------------------------------------------
(* What leaders send, and their windows.                                   *)

(* What node i sends as a leader: each new AppendEntries starts at the     *)
(* next index of its peer and carries the rest of the log.                 *)
Sends(i) ==
    \A m \in appends' \ appends :
        /\ role'[i] = Leader
        /\ \E j \in Peers(i) :
              m = AppendEntriesTo(i, j, currentTerm'[i], log'[i], nextIndex'[i][j], commitIndex'[i])

(* The first round of a new leader.                                        *)
LEMMA WinSends ==
    ASSUME TypeInv, NEW i \in Node, NEW t \in Term, BecomeLeader(i, t),
           currentTerm' = [currentTerm EXCEPT ![i] = t], UNCHANGED <<log, commitIndex>>
    PROVE  Sends(i)
<1> DEFINE next == [j \in Node |-> Len(log[i]) + 1]
<1>1. /\ role' = [role EXCEPT ![i] = Leader]
      /\ nextIndex' = [nextIndex EXCEPT ![i] = next]
      /\ appends' = appends \cup
            {AppendEntriesTo(i, j, t, log[i], Len(log[i]) + 1, commitIndex[i]) : j \in Peers(i)}
  BY Zenon DEF BecomeLeader
<1>2. \A j \in Peers(i) : next[j] = Len(log[i]) + 1
  BY DEF Peers
<1>3. appends' = appends \cup
            {AppendEntriesTo(i, j, t, log[i], next[j], commitIndex[i]) : j \in Peers(i)}
  <2> HIDE DEF next
  <2> QED BY <1>1, <1>2, Zenon
<1> HIDE DEF next
<1>4. role'[i] = Leader /\ currentTerm'[i] = t /\ nextIndex'[i] = next
      /\ log'[i] = log[i] /\ commitIndex'[i] = commitIndex[i]
  BY <1>1, Zenon DEF TypeInv, StateTypeOK
<1>5. \A m \in appends' \ appends : \E j \in Peers(i) :
         m = AppendEntriesTo(i, j, t, log[i], next[j], commitIndex[i])
  BY <1>3, Zenon
<1> QED BY <1>4, <1>5, Zenon DEF Sends

(* Every action sends this way or not at all.                              *)
LEMMA ActionsSend ==
    ASSUME TypeInv, LeadersInv, NEW i \in Node,
           Tick(i) \/ Propose(i) \/ PumpApply(i) \/ Handle(i) \/ Crash(i)
    PROVE  Sends(i)
<1>0. /\ StateTypeOK /\ NetworkTypeOK /\ currentTerm[i] \in Nat /\ currentTerm[i] \in Term
      /\ matchIndex[i] \in [Node -> Nat] /\ nextIndex[i] \in [Node -> Nat \ {0}]
      /\ Peers(i) \in SUBSET Node
  BY NodeTypes, TermsAreNat DEF TypeInv, StateTypeOK, Peers
<1>q. CASE appends' = appends
  BY <1>q DEF Sends
<1>1. CASE StartElection(i) /\ appends' # appends
  <2> DEFINE t == currentTerm[i] + 1
  <2>1. t \in Term
    BY <1>1, ElectionTerm, Zenon
  <2>2. currentTerm' = [currentTerm EXCEPT ![i] = t] /\ UNCHANGED <<log, commitIndex>>
        /\ BecomeLeader(i, t)
    BY <1>1, Zenon DEF StartElection, commitVars
  <2> HIDE DEF t
  <2> QED BY <2>1, <2>2, WinSends, Zenon
<1>2. CASE SendHeartbeats(i)
  <2>1. /\ role'[i] = Leader /\ currentTerm' = currentTerm /\ log' = log /\ commitIndex' = commitIndex
        /\ nextIndex' = nextIndex
        /\ appends' = appends \cup
             {AppendEntriesTo(i, j, currentTerm[i], log[i], nextIndex[i][j], commitIndex[i]) : j \in Peers(i)}
    BY <1>2, Zenon DEF SendHeartbeats, persistent, roleVars, leaderVars, commitVars
  <2>2. currentTerm'[i] = currentTerm[i] /\ log'[i] = log[i] /\ commitIndex'[i] = commitIndex[i]
        /\ \A j \in Peers(i) : nextIndex'[i][j] = nextIndex[i][j]
    BY <2>1
  <2>3. \A m \in appends' \ appends : \E j \in Peers(i) :
           m = AppendEntriesTo(i, j, currentTerm[i], log[i], nextIndex[i][j], commitIndex[i])
    BY <2>1, Zenon
  <2> QED BY <2>1, <2>2, <2>3, Zenon DEF Sends
<1>3. ASSUME NEW cmds \in Batch, ProposeBatch(i, cmds) PROVE Sends(i)
  <2> DEFINE lg == log[i] \o [k \in DOMAIN cmds |-> [term |-> currentTerm[i], cmd |-> cmds[k]]]
             c  == AdvanceCommit(i, lg, matchIndex[i])
  <2>1. /\ role[i] = Leader /\ currentTerm' = currentTerm /\ log' = [log EXCEPT ![i] = lg]
        /\ commitIndex' = [commitIndex EXCEPT ![i] = c]
        /\ nextIndex' = nextIndex /\ role' = role
        /\ appends' = appends \cup
             {AppendEntriesTo(i, j, currentTerm[i], lg, nextIndex[i][j], c) : j \in Peers(i)}
    BY <1>3, Zenon DEF ProposeBatch, roleVars, leaderVars, Commit
  <2> HIDE DEF lg, c
  <2>2. currentTerm'[i] = currentTerm[i] /\ log'[i] = lg /\ commitIndex'[i] = c /\ role'[i] = Leader
        /\ \A j \in Peers(i) : nextIndex'[i][j] = nextIndex[i][j]
    BY <1>0, <2>1, Zenon DEF StateTypeOK
  <2>3. \A m \in appends' \ appends : \E j \in Peers(i) :
           m = AppendEntriesTo(i, j, currentTerm[i], lg, nextIndex[i][j], c)
    BY <2>1, Zenon
  <2> QED BY <2>1, <2>2, <2>3, Zenon DEF Sends
<1>6. ASSUME NEW m \in voteReplies, OnRequestVoteReply(i, m), appends' # appends PROVE Sends(i)
  <2>1. TermAfter(i, m.term) \in Term
    <3>1. m.term \in Term
      BY <1>0, Zenon DEF NetworkTypeOK, RequestVoteReply
    <3> QED BY <3>1, TermRuleType
  <2>2. currentTerm' = [currentTerm EXCEPT ![i] = TermAfter(i, m.term)] /\ UNCHANGED <<log, commitIndex>>
        /\ BecomeLeader(i, TermAfter(i, m.term))
    BY <1>6, Zenon DEF OnRequestVoteReply, commitVars
  <2> QED BY <2>1, <2>2, WinSends, Zenon
<1>10. ASSUME NEW m \in appendReplies, OnAppendAck(i, m) \/ OnAppendReject(i, m), appends' # appends
       PROVE  Sends(i)
  <2>1. PICK ni, c :
          /\ role[i] = Leader /\ currentTerm' = currentTerm /\ log' = log /\ role' = role
          /\ m.to = i
          /\ commitIndex'[i] = c
          /\ nextIndex' = [nextIndex EXCEPT ![i][m.from] = ni]
          /\ appends' = appends \cup {AppendEntriesTo(i, m.from, currentTerm[i], log[i], ni, c)}
    <3>1. CASE OnAppendAck(i, m)
      <4> DEFINE match == [matchIndex[i] EXCEPT ![m.from] = m.conflictIndex]
                 c == AdvanceCommit(i, log[i], match)
      <4>1. /\ role[i] = Leader /\ currentTerm' = currentTerm /\ log' = log /\ role' = role
            /\ m.to = i
            /\ commitIndex' = [commitIndex EXCEPT ![i] = c]
            /\ nextIndex' = [nextIndex EXCEPT ![i][m.from] = m.conflictIndex + 1]
            /\ appends' = appends \cup {AppendEntriesTo(i, m.from, currentTerm[i], log[i], m.conflictIndex + 1, c)}
        BY <1>10, <3>1, Zenon DEF OnAppendAck, Commit, persistent, roleVars
      <4> HIDE DEF c
      <4>2. commitIndex'[i] = c
        BY <1>0, <4>1, Zenon DEF StateTypeOK
      <4> QED BY <4>1, <4>2, Zenon
    <3>2. CASE OnAppendReject(i, m)
      BY <3>2, Zenon DEF OnAppendReject, persistent, roleVars, commitVars
    <3> QED BY <1>10, <3>1, <3>2
  <2>2. m.from \in Node /\ m.from # i
    <3>1. m.from \in Node
      BY <1>0, Zenon DEF NetworkTypeOK, AppendEntriesReply
    <3> QED BY <2>1, <3>1, Zenon DEF LeadersInv, RepliesReturn
  <2>3. nextIndex'[i][m.from] = ni /\ m.from \in Peers(i)
    BY <1>0, <2>1, <2>2 DEF StateTypeOK, Peers
  <2>4. currentTerm'[i] = currentTerm[i] /\ log'[i] = log[i] /\ role'[i] = Leader
    BY <2>1
  <2>5. ASSUME NEW x \in appends' \ appends
        PROVE  /\ role'[i] = Leader
               /\ \E j \in Peers(i) :
                    x = AppendEntriesTo(i, j, currentTerm'[i], log'[i], nextIndex'[i][j], commitIndex'[i])
    <3>1. x = AppendEntriesTo(i, m.from, currentTerm[i], log[i], ni, c)
      BY <2>1, <2>5, Zenon
    <3>2. x = AppendEntriesTo(i, m.from, currentTerm'[i], log'[i], nextIndex'[i][m.from], commitIndex'[i])
      BY <2>1, <2>3, <2>4, <3>1, Zenon
    <3> QED BY <2>3, <2>4, <3>2, Zenon
  <2> QED BY <2>5, Zenon DEF Sends
<1>11. PumpApply(i) \/ Crash(i) => appends' = appends
  BY Zenon
     DEF PumpApply, Crash, Restart, CrashAfterTermRule, CrashDuringAppend, CrashDuringPropose,
         network
<1>12. \A m : OnRequestVote(i, m) \/ OnStaleAppendEntries(i, m) \/ OnAppendEntries(i, m) \/ OnStaleAppendReply(i, m)
          => appends' = appends
  BY Zenon DEF OnRequestVote, OnStaleAppendEntries, OnAppendEntries, OnStaleAppendReply, network
<1> QED BY <1>q, <1>1, <1>2, <1>3, <1>6, <1>10, <1>11, <1>12, Zenon DEF Tick, Propose, Handle

(* The next index of a peer is above the match and within the log.         *)
Window ==
    \A i \in Node : role[i] = Leader =>
        \A j \in Node : matchIndex[i][j] < nextIndex[i][j] /\ nextIndex[i][j] <= Len(log[i]) + 1

(* What a step does to the window of node i: nothing, or it opens the      *)
(* window of a new leader, moves it past an ack, or lowers it by a reject. *)
KeepsWindow(i) ==
    role[i] = Leader /\ nextIndex'[i] = nextIndex[i] /\ matchIndex'[i] = matchIndex[i]
OpensWindow(i) ==
    \A j \in Node : nextIndex'[i][j] = Len(log'[i]) + 1 /\ matchIndex'[i][j] = 0
MovesWindow(i, m) ==
    /\ m \in appendReplies /\ m.to = i /\ m.term = currentTerm[i] /\ m.success
    /\ role[i] = Leader /\ log' = log /\ currentTerm' = currentTerm
    /\ m.conflictIndex <= Len(log[i])
    /\ nextIndex'[i] = [nextIndex[i] EXCEPT ![m.from] = m.conflictIndex + 1]
    /\ matchIndex'[i] = [matchIndex[i] EXCEPT ![m.from] = m.conflictIndex]
LowersWindow(i, m) ==
    /\ m \in appendReplies
    /\ role[i] = Leader /\ log' = log
    /\ nextIndex'[i] = [nextIndex[i] EXCEPT ![m.from] = LoweredNext(i, m)]
    /\ matchIndex'[i] = matchIndex[i]

WindowMove(i) ==
    /\ \A j \in Node : j # i => nextIndex'[j] = nextIndex[j] /\ matchIndex'[j] = matchIndex[j]
    /\ role'[i] = Leader => \/ KeepsWindow(i) \/ OpensWindow(i)
                            \/ \E m : MovesWindow(i, m) \/ LowersWindow(i, m)

(* A reject moves the next index down, and never to the match or below.    *)
LEMMA LoweredNextBounds ==
    ASSUME TypeInv, NEW i \in Node, NEW m \in appendReplies,
           matchIndex[i][m.from] < nextIndex[i][m.from]
    PROVE  matchIndex[i][m.from] < LoweredNext(i, m) /\ LoweredNext(i, m) <= nextIndex[i][m.from]
<1> DEFINE last == LastOfTerm(log[i], m.conflictTerm)
           hint == IF m.conflictTerm = 0 \/ last = 0 THEN m.conflictIndex ELSE last + 1
           next == nextIndex[i][m.from]
           low  == Min({hint, next})
           S    == {low, matchIndex[i][m.from] + 1, 1}
<1>1. m.from \in Node /\ m.conflictIndex \in Nat
  BY DEF TypeInv, NetworkTypeOK, AppendEntriesReply
<1>2. last \in Nat
  BY LastOfTermType, NodeTypes
<1>3. hint \in Nat
  BY <1>1, <1>2
<1>4. next \in Nat /\ matchIndex[i][m.from] \in Nat /\ 1 <= next /\ matchIndex[i][m.from] + 1 <= next
  BY <1>1, NodeTypes
<1>5. LoweredNext(i, m) = Max(S)
  BY DEF LoweredNext
<1> HIDE DEF hint, next
<1>6. low \in {hint, next} /\ \A y \in {hint, next} : low <= y
  <2>1. {hint, next} \in SUBSET Nat /\ {hint, next} # {}
    BY <1>3, <1>4
  <2> QED BY <2>1, MinProperties, Zenon
<1>7. low \in Nat /\ low <= next
  BY <1>3, <1>4, <1>6
<1> HIDE DEF low
<1>8. S \in SUBSET (0..next) /\ S # {} /\ matchIndex[i][m.from] + 1 \in S
  BY <1>4, <1>7
<1> HIDE DEF S
<1>9. Max(S) \in S /\ \A y \in S : Max(S) >= y
  BY <1>4, <1>8, MaxProperties, Zenon
<1>10. Max(S) \in 0..next /\ Max(S) >= matchIndex[i][m.from] + 1
  BY <1>8, <1>9, Zenon
<1>11. matchIndex[i][m.from] < Max(S) /\ Max(S) <= next
  BY <1>4, <1>10
<1> QED BY <1>5, <1>11 DEF next

(* Every action treats the windows this way.                               *)
LEMMA ActionsMoveWindow ==
    ASSUME TypeInv, NEW i \in Node,
           Tick(i) \/ Propose(i) \/ PumpApply(i) \/ Handle(i) \/ Crash(i)
    PROVE  WindowMove(i)
<1>0. StateTypeOK /\ Follower # Leader /\ Candidate # Leader
  BY DEF TypeInv, Follower, Candidate, Leader
<1>1. ASSUME NEW t, BecomeLeader(i, t), log' = log PROVE WindowMove(i)
  <2>1. /\ nextIndex' = [nextIndex EXCEPT ![i] = [j \in Node |-> Len(log[i]) + 1]]
        /\ matchIndex' = [matchIndex EXCEPT ![i] = [j \in Node |-> 0]]
    BY <1>1, Zenon DEF BecomeLeader
  <2>2. OpensWindow(i)
    BY <1>0, <1>1, <2>1 DEF OpensWindow, StateTypeOK
  <2> QED BY <1>0, <2>1, <2>2, Zenon DEF WindowMove, StateTypeOK
<1>2. ASSUME UNCHANGED leaderVars,
             role'[i] = Leader => role[i] = Leader
      PROVE  WindowMove(i)
  BY <1>2, Zenon DEF WindowMove, KeepsWindow, leaderVars
<1>3. ASSUME NEW t PROVE RoleAfter(i, t) = Leader => role[i] = Leader
  BY <1>0 DEF RoleAfter
<1>4. CASE Tick(i)
  <2>1. CASE StartElection(i)
    <3>1. log' = log
      BY <2>1, Zenon DEF StartElection
    <3>2. \/ BecomeLeader(i, currentTerm[i] + 1)
          \/ role' = [role EXCEPT ![i] = Candidate] /\ UNCHANGED leaderVars
      BY <2>1, Zenon DEF StartElection
    <3>3. role' = [role EXCEPT ![i] = Candidate] => role'[i] # Leader
      BY <1>0, Zenon DEF StateTypeOK
    <3> QED BY <1>1, <1>2, <3>1, <3>2, <3>3, Zenon
  <2>2. CASE SendHeartbeats(i)
    BY <1>2, <2>2, Zenon DEF SendHeartbeats, roleVars
  <2> QED BY <1>4, <2>1, <2>2, Zenon DEF Tick
<1>5. CASE Propose(i) \/ PumpApply(i)
  BY <1>2, <1>5, Zenon DEF Propose, ProposeBatch, PumpApply, roleVars
<1>6. CASE Crash(i)
  <2>1. /\ role' = [role EXCEPT ![i] = Follower]
        /\ nextIndex' = [nextIndex EXCEPT ![i] = [j \in Node |-> 1]]
        /\ matchIndex' = [matchIndex EXCEPT ![i] = [j \in Node |-> 0]]
    BY <1>6, Zenon
       DEF Crash, Restart, CrashAfterTermRule, CrashDuringAppend, CrashDuringPropose, ResetVolatile
  <2>2. role'[i] # Leader
    BY <1>0, <2>1, Zenon DEF StateTypeOK
  <2> QED BY <1>0, <2>1, <2>2, Zenon DEF WindowMove, StateTypeOK
<1>7. ASSUME NEW m, OnRequestVote(i, m) PROVE WindowMove(i)
  <2>1. role' = [role EXCEPT ![i] = RoleAfter(i, m.term)] /\ UNCHANGED leaderVars
    BY <1>7, Zenon DEF OnRequestVote
  <2>2. role'[i] = RoleAfter(i, m.term)
    BY <1>0, <2>1, Zenon DEF StateTypeOK
  <2> QED BY <1>2, <1>3, <2>1, <2>2, Zenon
<1>8. ASSUME NEW m, OnRequestVoteReply(i, m) PROVE WindowMove(i)
  <2>1. log' = log
    BY <1>8, Zenon DEF OnRequestVoteReply
  <2>2. \/ BecomeLeader(i, TermAfter(i, m.term))
        \/ role' = [role EXCEPT ![i] = RoleAfter(i, m.term)] /\ UNCHANGED leaderVars
    BY <1>8, Zenon DEF OnRequestVoteReply
  <2>3. role' = [role EXCEPT ![i] = RoleAfter(i, m.term)] => role'[i] = RoleAfter(i, m.term)
    BY <1>0, Zenon DEF StateTypeOK
  <2> QED BY <1>1, <1>2, <1>3, <2>1, <2>2, <2>3, Zenon
<1>9. ASSUME NEW m, OnStaleAppendEntries(i, m) \/ OnAppendEntries(i, m) \/ OnStaleAppendReply(i, m)
      PROVE  WindowMove(i)
  <2>1. /\ UNCHANGED leaderVars
        /\ role' = role \/ role' = [role EXCEPT ![i] = Follower]
    BY <1>9, Zenon DEF OnStaleAppendEntries, OnAppendEntries, OnStaleAppendReply, roleVars
  <2>2. role'[i] = Leader => role[i] = Leader
    BY <1>0, <2>1 DEF StateTypeOK
  <2> QED BY <1>2, <2>1, <2>2, Zenon
<1>10. ASSUME NEW m \in appendReplies, OnAppendAck(i, m) PROVE WindowMove(i)
  <2>0. m.from \in Node
    BY Zenon DEF TypeInv, NetworkTypeOK, AppendEntriesReply
  <2>1. /\ m.to = i /\ role[i] = Leader /\ m.term = currentTerm[i] /\ m.success
        /\ m.conflictIndex <= Len(log[i])
        /\ matchIndex' = [matchIndex EXCEPT ![i] = [matchIndex[i] EXCEPT ![m.from] = m.conflictIndex]]
        /\ nextIndex' = [nextIndex EXCEPT ![i][m.from] = m.conflictIndex + 1]
        /\ log' = log /\ currentTerm' = currentTerm
    BY <1>10, Zenon DEF OnAppendAck, persistent
  <2>2. /\ matchIndex'[i] = [matchIndex[i] EXCEPT ![m.from] = m.conflictIndex]
        /\ nextIndex'[i] = [nextIndex[i] EXCEPT ![m.from] = m.conflictIndex + 1]
        /\ \A j \in Node : j # i => nextIndex'[j] = nextIndex[j] /\ matchIndex'[j] = matchIndex[j]
    BY <1>0, <2>0, <2>1 DEF StateTypeOK
  <2>3. MovesWindow(i, m)
    BY <2>1, <2>2, Zenon DEF MovesWindow
  <2> QED BY <2>2, <2>3, Zenon DEF WindowMove
<1>11. ASSUME NEW m \in appendReplies, OnAppendReject(i, m) PROVE WindowMove(i)
  <2>1. /\ role[i] = Leader
        /\ nextIndex' = [nextIndex EXCEPT ![i][m.from] = LoweredNext(i, m)]
        /\ matchIndex' = matchIndex /\ log' = log
    BY <1>11, Zenon DEF OnAppendReject, persistent
  <2>2. /\ nextIndex'[i] = [nextIndex[i] EXCEPT ![m.from] = LoweredNext(i, m)]
        /\ \A j \in Node : j # i => nextIndex'[j] = nextIndex[j]
    BY <1>0, <2>1 DEF StateTypeOK
  <2>3. LowersWindow(i, m)
    BY <2>1, <2>2, Zenon DEF LowersWindow
  <2> QED BY <2>1, <2>2, <2>3, Zenon DEF WindowMove
<1> QED BY <1>4, <1>5, <1>6, <1>7, <1>8, <1>9, <1>10, <1>11, Zenon DEF Handle

(* The log of a node that leads after a step did not shrink.               *)
LEMMA LeaderLogGrows ==
    ASSUME TypeInv, NEW i \in Node, LogMove(i), role'[i] = Leader
    PROVE  Len(log[i]) <= Len(log'[i])
<1>0. log[i] \in Seq(Entry) /\ Len(log[i]) \in Nat /\ Follower # Leader /\ log \in [Node -> Seq(Entry)]
  BY NodeTypes DEF Follower, Leader, TypeInv, StateTypeOK
<1>1. CASE log' = log
  BY <1>0, <1>1
<1>2. ASSUME NEW more, Extends(i, more) PROVE Len(log[i]) <= Len(log'[i])
  <2>1. more \in Seq(Entry) /\ log' = [log EXCEPT ![i] = log[i] \o more]
    BY <1>2, Zenon DEF Extends
  <2>2. log'[i] = log[i] \o more
    BY <1>0, <2>1, Zenon
  <2>3. Len(log[i] \o more) = Len(log[i]) + Len(more) /\ Len(more) \in Nat
    BY <1>0, <2>1, Appended, LenProperties
  <2> QED BY <1>0, <2>2, <2>3
<1> QED BY <1>0, <1>1, <1>2, Zenon DEF LogMove, Still, Wins, Merges

(* The windows stay in bounds.                                             *)
LEMMA WindowKept ==
    ASSUME TypeInv, TypeInv', Window, NEW i \in Node, LogMove(i), WindowMove(i)
    PROVE  Window'
<1> SUFFICES ASSUME NEW l \in Node, role'[l] = Leader, NEW j \in Node
             PROVE  matchIndex'[l][j] < nextIndex'[l][j] /\ nextIndex'[l][j] <= Len(log'[l]) + 1
  BY Zenon DEF Window
<1>0. /\ Own(i) /\ Len(log[i]) \in Nat /\ Len(log[l]) \in Nat
      /\ matchIndex[i] \in [Node -> Nat] /\ nextIndex[i] \in [Node -> Nat \ {0}]
  BY NodeTypes, Zenon DEF LogMove, TypeInv, StateTypeOK
<1>0a. Len(log'[l]) \in Nat /\ Len(log'[i]) \in Nat
  <2>1. log'[l] \in Seq(Entry) /\ log'[i] \in Seq(Entry)
    BY Zenon DEF TypeInv, StateTypeOK
  <2> QED BY <2>1, LenProperties
<1>1. CASE l # i
  <2>1. /\ role[l] = Leader /\ log'[l] = log[l]
        /\ nextIndex'[l] = nextIndex[l] /\ matchIndex'[l] = matchIndex[l]
    BY <1>0, <1>1, Zenon DEF Own, WindowMove
  <2> QED BY <2>1, Zenon DEF Window
<1>2. CASE l = i
  <2>0. Len(log[i]) <= Len(log'[i])
    BY <1>2, LeaderLogGrows
  <2>w. role[i] = Leader => matchIndex[i][j] < nextIndex[i][j] /\ nextIndex[i][j] <= Len(log[i]) + 1
    BY Zenon DEF Window
  <2>t. matchIndex[i][j] \in Nat /\ nextIndex[i][j] \in Nat
    BY <1>0
  <2>1. CASE KeepsWindow(i)
    <3>1. role[i] = Leader /\ nextIndex'[i] = nextIndex[i] /\ matchIndex'[i] = matchIndex[i]
      BY <2>1, Zenon DEF KeepsWindow
    <3> QED BY <1>0, <1>0a, <1>2, <2>0, <2>w, <2>t, <3>1
  <2>2. CASE OpensWindow(i)
    <3>1. nextIndex'[i][j] = Len(log'[i]) + 1 /\ matchIndex'[i][j] = 0
      BY <2>2, Zenon DEF OpensWindow
    <3> QED BY <1>0a, <1>2, <3>1
  <2>3. ASSUME NEW m, MovesWindow(i, m)
        PROVE  matchIndex'[l][j] < nextIndex'[l][j] /\ nextIndex'[l][j] <= Len(log'[l]) + 1
    <3>1. /\ m \in appendReplies /\ role[i] = Leader /\ log' = log /\ m.conflictIndex <= Len(log[i])
          /\ nextIndex'[i] = [nextIndex[i] EXCEPT ![m.from] = m.conflictIndex + 1]
          /\ matchIndex'[i] = [matchIndex[i] EXCEPT ![m.from] = m.conflictIndex]
      BY <2>3, Zenon DEF MovesWindow
    <3>2. m.from \in Node /\ m.conflictIndex \in Nat
      BY <3>1, Zenon DEF TypeInv, NetworkTypeOK, AppendEntriesReply
    <3>3. CASE j = m.from
      BY <1>0, <1>2, <3>1, <3>2, <3>3
    <3>4. CASE j # m.from
      BY <1>0, <1>2, <2>w, <3>1, <3>2, <3>4
    <3> QED BY <3>3, <3>4
  <2>4. ASSUME NEW m, LowersWindow(i, m)
        PROVE  matchIndex'[l][j] < nextIndex'[l][j] /\ nextIndex'[l][j] <= Len(log'[l]) + 1
    <3>1. /\ m \in appendReplies /\ role[i] = Leader /\ log' = log
          /\ nextIndex'[i] = [nextIndex[i] EXCEPT ![m.from] = LoweredNext(i, m)]
          /\ matchIndex'[i] = matchIndex[i]
      BY <2>4, Zenon DEF LowersWindow
    <3>2. m.from \in Node
      BY <3>1, Zenon DEF TypeInv, NetworkTypeOK, AppendEntriesReply
    <3>3. CASE j = m.from
      <4>1. matchIndex[i][j] < LoweredNext(i, m) /\ LoweredNext(i, m) <= nextIndex[i][j]
        BY <2>w, <3>1, <3>3, LoweredNextBounds
      <4>2. LoweredNext(i, m) \in Nat
        BY <3>1, LoweredNextType
      <4>3. nextIndex'[i][j] = LoweredNext(i, m) /\ matchIndex'[i][j] = matchIndex[i][j]
        BY <1>0, <3>1, <3>2, <3>3, Zenon
      <4> HIDE DEF LoweredNext
      <4> QED BY <1>0, <1>2, <2>w, <2>t, <3>1, <4>1, <4>2, <4>3
    <3>4. CASE j # m.from
      BY <1>0, <1>2, <2>w, <3>1, <3>2, <3>4
    <3> QED BY <3>3, <3>4
  <2> QED BY <1>2, <2>1, <2>2, <2>3, <2>4, Zenon DEF WindowMove
<1> QED BY <1>1, <1>2

-----------------------------------------------------------------------------
(* The requests, and the theorems.                                         *)

(* A slice of a log is a slice of every log that extends it.               *)
LEMMA SliceOfGrown ==
    ASSUME NEW m \in AppendEntries, NEW ll \in Seq(Entry), NEW mm \in Seq(Entry),
           IsSlice(m, ll), Agree(mm, ll, Len(ll))
    PROVE  IsSlice(m, mm)
<1> DEFINE p == m.prevLogIndex
<1>1. /\ m.entries \in Seq(Entry) /\ p \in Nat /\ Len(m.entries) \in Nat
      /\ Len(ll) \in Nat /\ Len(mm) \in Nat
  BY LenProperties DEF AppendEntries
<1>2. Len(ll) <= Len(mm) /\ \A k \in 1..Len(ll) : mm[k] = ll[k]
  BY DEF Agree
<1>3. /\ p + Len(m.entries) <= Len(ll) /\ m.prevLogTerm = TermAt(ll, p)
      /\ \A q \in 1..Len(m.entries) : m.entries[q] = ll[p + q]
  BY DEF IsSlice, ConfirmedThrough
<1> HIDE DEF p
<1>4. TermAt(mm, p) = TermAt(ll, p)
  <2>1. CASE p = 0
    BY <1>1, <2>1 DEF TermAt
  <2>2. CASE p # 0
    <3>1. p \in 1..Len(ll) /\ p \in 1..Len(mm) /\ mm[p] = ll[p]
      BY <1>1, <1>2, <1>3, <2>2
    <3> QED BY <3>1 DEF TermAt
  <2> QED BY <2>1, <2>2
<1>5. ASSUME NEW q \in 1..Len(m.entries) PROVE m.entries[q] = mm[p + q]
  <2>1. p + q \in 1..Len(ll)
    BY <1>1, <1>3
  <2> QED BY <1>2, <1>3, <2>1
<1>6. p + Len(m.entries) <= Len(mm)
  BY <1>1, <1>2, <1>3
<1> QED BY <1>3, <1>4, <1>5, <1>6 DEF IsSlice, ConfirmedThrough, p

(* What a leader sends is a slice of its log, up to the end.               *)
LEMMA SentIsSlice ==
    ASSUME NEW i, NEW j, NEW t, NEW lg \in Seq(Entry), NEW c,
           NEW next \in Nat \ {0}, next <= Len(lg) + 1,
           NEW m, m = AppendEntriesTo(i, j, t, lg, next, c)
    PROVE  IsSlice(m, lg) /\ ConfirmedThrough(m) = Len(lg)
<1>1. /\ m.prevLogIndex = next - 1 /\ m.prevLogTerm = TermAt(lg, next - 1)
      /\ m.entries = EntriesFrom(lg, next)
  BY DEF AppendEntriesTo
<1>2. /\ Len(m.entries) = IF next <= Len(lg) THEN Len(lg) - next + 1 ELSE 0
      /\ \A q \in 1..Len(m.entries) : m.entries[q] = lg[next + q - 1]
      /\ m.entries \in Seq(Entry)
  BY <1>1, EntriesFromProperties
<1>3. Len(lg) \in Nat /\ Len(m.entries) \in Nat
  BY <1>2, LenProperties
<1>4. ConfirmedThrough(m) = Len(lg)
  BY <1>1, <1>2, <1>3 DEF ConfirmedThrough
<1>5. ASSUME NEW q \in 1..Len(m.entries) PROVE m.entries[q] = lg[m.prevLogIndex + q]
  <2>1. m.prevLogIndex + q = next + q - 1
    BY <1>1, <1>3
  <2> QED BY <1>2, <2>1
<1> QED BY <1>1, <1>3, <1>4, <1>5 DEF IsSlice

(* Requests stay slices of the log of their term.                          *)
LEMMA SlicesKept ==
    ASSUME TypeInv, TypeInv', AppendsAreSlices, LeaderHoldsLog', Window',
           Grown(leaderLog, leaderLog'), NEW i \in Node, Sends(i)
    PROVE  AppendsAreSlices'
<1> SUFFICES ASSUME NEW m \in appends'
             PROVE  IsSlice(m, leaderLog'[m.term])
  BY Zenon DEF AppendsAreSlices
<1>0. /\ m \in AppendEntries /\ m.term \in Term
      /\ leaderLog \in [Term -> Seq(Entry)] /\ leaderLog' \in [Term -> Seq(Entry)]
  BY Zenon DEF TypeInv, NetworkTypeOK, ObserverTypeOK, AppendEntries
<1>1. CASE m \in appends
  <2>1. IsSlice(m, leaderLog[m.term])
    BY <1>1, Zenon DEF AppendsAreSlices
  <2>2. Agree(leaderLog'[m.term], leaderLog[m.term], Len(leaderLog[m.term]))
    BY <1>0, Zenon DEF Grown
  <2>3. leaderLog[m.term] \in Seq(Entry) /\ leaderLog'[m.term] \in Seq(Entry)
    BY <1>0
  <2> QED BY <1>0, <2>1, <2>2, <2>3, SliceOfGrown, Zenon
<1>2. CASE m \notin appends
  <2>1. role'[i] = Leader
    BY <1>2, Zenon DEF Sends
  <2>2. PICK j \in Peers(i) :
          m = AppendEntriesTo(i, j, currentTerm'[i], log'[i], nextIndex'[i][j], commitIndex'[i])
    BY <1>2, Zenon DEF Sends
  <2>3. j \in Node /\ log'[i] \in Seq(Entry) /\ nextIndex'[i][j] \in Nat \ {0}
    BY DEF Peers, TypeInv, StateTypeOK
  <2>4. nextIndex'[i][j] <= Len(log'[i]) + 1
    BY <2>1, <2>3, Zenon DEF Window
  <2>5. IsSlice(m, log'[i])
    BY <2>2, <2>3, <2>4, SentIsSlice, Zenon
  <2>6. m.term = currentTerm'[i]
    BY <2>2 DEF AppendEntriesTo
  <2>7. log'[i] = leaderLog'[currentTerm'[i]]
    BY <2>1, Zenon DEF LeaderHoldsLog
  <2> QED BY <2>5, <2>6, <2>7, Zenon
<1> QED BY <1>1, <1>2

(* The initial state.                                                      *)
LEMMA InitLogs == Init => LogInv /\ Window
<1> SUFFICES ASSUME Init PROVE LogInv /\ Window
  OBVIOUS
<1>1. /\ \A i \in Node : role[i] = Follower /\ log[i] = <<>>
      /\ appends = {} /\ \A t \in Term : leadersByTerm[t] = {} /\ leaderLog[t] = <<>>
  BY Zenon DEF Init
<1>2. Follower # Leader /\ Follower # Candidate /\ 1..Len(<<>>) = {}
  BY DEF Follower, Leader, Candidate
<1>3. \A ll, t : FromLeaders(<<>>, ll) /\ TermsUpTo(<<>>, t)
  BY <1>2 DEF FromLeaders, TermsUpTo
<1> QED BY <1>1, <1>2, <1>3, Zenon
        DEF LogInv, Window, LeaderHoldsLog, LostTermsEmpty, WinsArePast, CandidateNotWon,
            LogsFromLeaders, LeaderLogsFromLeaders, AppendsAreSlices

(* Every step keeps the invariant.                                         *)
LEMMA NextLogs ==
    TypeInv /\ TypeInv' /\ ElectionSafety /\ ElectionSafety' /\ LeadersInv /\ LogInv /\ Window
      /\ [Next]_vars => LogInv' /\ Window'
<1> SUFFICES ASSUME TypeInv, TypeInv', ElectionSafety, ElectionSafety', LeadersInv, LogInv, Window,
                    [Next]_vars
             PROVE  LogInv' /\ Window'
  OBVIOUS
<1>1. CASE UNCHANGED vars
  BY <1>1, Zenon
     DEF vars, persistent, roleVars, leaderVars, network, observers,
         LogInv, Window, LeaderHoldsLog, LostTermsEmpty, WinsArePast, CandidateNotWon,
         LogsFromLeaders, LeaderLogsFromLeaders, AppendsAreSlices
<1>2. CASE Next
  <2>1. PICK i \in Node : Tick(i) \/ Propose(i) \/ PumpApply(i) \/ Handle(i) \/ Crash(i)
    BY <1>2, Zenon DEF Next
  <2>2. LogMove(i) /\ Sends(i) /\ WindowMove(i) /\ Known
    BY <2>1, ActionsMove, ActionsSend, ActionsMoveWindow, Zenon DEF Known
  <2>3. LeaderHoldsLog' /\ LostTermsEmpty' /\ WinsArePast' /\ CandidateNotWon'
    BY <2>2, LeaderHoldsLogKept, WinsKept, Zenon
  <2>4. LogsFromLeaders' /\ LeaderLogsFromLeaders'
    BY <2>2, LogsKept, Zenon
  <2>5. Window'
    BY <2>2, WindowKept, Zenon
  <2>6. Grown(leaderLog, leaderLog')
    BY <2>2, LeaderLogsGrow
  <2>7. AppendsAreSlices'
    BY <2>2, <2>3, <2>5, <2>6, SlicesKept, Zenon DEF LogInv
  <2> QED BY <2>3, <2>4, <2>5, <2>7 DEF LogInv
<1> QED BY <1>1, <1>2

=============================================================================
