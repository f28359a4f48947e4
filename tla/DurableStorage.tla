--------------------------- MODULE DurableStorage ---------------------------
(***************************************************************************)
(* DurableLog and DurablePersistentState (src/src/storage): one action per *)
(* system call, a process kill or a power loss between any two, and the    *)
(* constructors that run at the next boot.                                 *)
(*                                                                         *)
(* The log file is a sequence of cells: a record is two header cells (the  *)
(* second holds commandLength) and a body whose last cell holds the CRC,   *)
(* which matches exactly when every cell of the record was written.  What  *)
(* a power loss leaves is any member of images: the contents since the     *)
(* last fsync, an append torn anywhere and with holes in the body of the   *)
(* last record it reached.                                                 *)
(***************************************************************************)
EXTENDS Integers, Sequences, SequencesExt

CONSTANTS
    Terms,          \* terms of the entries Raft appends
    Sizes,          \* body cells of a record; 1 is the empty command
    MaxLog,         \* bound: entries in the log
    MaxBatch,       \* bound: entries of one append() call
    MaxSaves,       \* bound: how often save() is called with a new pair
    MaxCrashes,     \* bound: kills and power losses together
    Faults          \* the sets of kinds of crash a behaviour may have

Kinds == {"kill", "outage"}

ASSUME Faults \subseteq SUBSET Kinds /\ Sizes \subseteq Nat \ {0}

Hole == [index |-> 0, term |-> 0, size |-> 1, part |-> 0]   \* zero bytes
Header == 2
NoFile == -1        \* no meta file: term 0 and no vote
Garbage == -2       \* a meta file the constructor rejects

VARIABLES
    page,           \* the log file as the operating system shows it
    images,         \* the log files a power loss may leave
    entry,          \* the file's directory entry is durable
    entries,        \* DurableLog::entries_
    offsets,        \* DurableLog::offsets_
    end,            \* DurableLog::size_
    buf,            \* DurableLog::writeBuf_, what pwriteAll has still to write
    meta,           \* the meta file as the operating system shows it
    metaImages,     \* the meta files a power loss may leave
    tmp,            \* meta.tmp: its contents, and whether they are durable
    saved,          \* term_ and votedFor_: the number of the pair saved last
    pc,             \* the next system call of the node
    call,           \* the arguments of the call that is running
    returned,       \* history: the log as the last completed call left it
    acked,          \* history: the log Raft last acknowledged from, ...
    ackedSave,      \* ... and the pair
    faults, crashes

logFile == <<page, images, entry>>
logMemory == <<entries, offsets, end, buf>>
metaVars == <<meta, metaImages, tmp, saved>>
history == <<returned, acked, ackedSave>>
failing == <<faults, crashes>>
vars == <<logFile, logMemory, metaVars, pc, call, history, failing>>

NoCall == [op |-> "none"]

-----------------------------------------------------------------------------
Before(s, i) == IF i <= Len(s) THEN SubSeq(s, 1, i - 1) ELSE s
Longer(s, t) == IF Len(t) >= Len(s) THEN t ELSE s

Record(i, e) ==
    [k \in 1..(Header + e.size) |-> [index |-> i, term |-> e.term, size |-> e.size, part |-> k]]

Serialize(from, es) == FlattenSeq([k \in 1..Len(es) |-> Record(from + k, es[k])])

(* What a torn append of file to the first n cells may have left of it.    *)
TornAt(file, base, n) ==
    LET starts == {k \in (base + 1)..n : file[k].part = 1}
        last == CHOOSE k \in starts \cup {n + 1} : \A j \in starts : j <= k /\ k \in starts
    IN  IF starts = {} THEN {SubSeq(file, 1, n)}
        ELSE {[k \in 1..n |-> IF k \in holes THEN Hole ELSE file[k]] :
                 holes \in SUBSET ((last + Header)..n)}

Torn(file, base) == UNION {TornAt(file, base, n) : n \in base..Len(file)}

(* replay(): the records from offset off on that are whole and in order,   *)
(* and how the parse ended.                                                *)
RECURSIVE Parse(_, _, _, _)
Parse(file, off, es, offs) ==
    LET remaining == Len(file) - off
        extent == Header + file[off + Header].size
        claim == SubSeq(file, off + 1, off + extent)
        e == [term |-> claim[1].term, size |-> claim[1].size]
    IN  IF remaining = 0 THEN [es |-> es, offs |-> offs, end |-> off, how |-> "clean"]
        ELSE IF remaining < Header \/ extent > remaining
        THEN [es |-> es, offs |-> offs, end |-> off, how |-> "torn"]
        ELSE IF claim = Record(Len(es) + 1, e)
        THEN Parse(file, off + extent, Append(es, e), Append(offs, off))
        ELSE [es |-> es, offs |-> offs, end |-> off,
              how |-> IF extent = remaining THEN "torn" ELSE "corrupt"]

Replay(file) == Parse(file, 0, <<>>, <<>>)

-----------------------------------------------------------------------------
Init ==
    /\ page = <<>> /\ images = {<<>>} /\ entry = FALSE
    /\ entries = <<>> /\ offsets = <<>> /\ end = 0 /\ buf = <<>>
    /\ meta = NoFile /\ metaImages = {NoFile} /\ tmp = [value |-> NoFile, synced |-> FALSE]
    /\ saved = 0
    /\ pc = "boot" /\ call = NoCall
    /\ returned = <<>> /\ acked = <<>> /\ ackedSave = 0
    /\ faults \in Faults /\ crashes = 0

(* The node is about to use what it has in memory: the votes it grants and *)
(* the AppendEntries it acknowledges rest on entries and saved.  Only a    *)
(* truncation takes back what was acknowledged.                            *)
Ready ==
    /\ pc' = "ready" /\ call' = NoCall
    /\ acked' = Longer(acked, entries')
    /\ ackedSave' = IF saved' > ackedSave THEN saved' ELSE ackedSave

(* The constructor of DurablePersistentState: drop meta.tmp, read meta.    *)
OpenMeta ==
    /\ pc = "boot"
    /\ tmp' = [value |-> NoFile, synced |-> FALSE]
    /\ saved' = IF meta < 0 THEN 0 ELSE meta
    /\ pc' = IF meta = Garbage THEN "refused" ELSE "opened"
    /\ UNCHANGED <<logFile, logMemory, meta, metaImages, call, history, failing>>

OpenLogUnsynced ==                                                   \* mutant
    /\ pc = "opened"
    /\ pc' = "replay"
    /\ UNCHANGED <<logFile, metaImages, logMemory, meta, tmp, saved, call, history, failing>>

(* The constructor of DurableLog: fsync the directory, which the meta file *)
(* shares, ...                                                             *)
OpenLog ==
    /\ pc = "opened"
    /\ entry' = TRUE /\ metaImages' = {meta}
    /\ pc' = "replay"
    /\ UNCHANGED <<page, images, logMemory, meta, tmp, saved, call, history, failing>>

(* ... then replay the file.  The file is not synced unless it was torn.   *)
ReplayLog ==
    LET r == Replay(page)
    IN  /\ pc = "replay"
        /\ entries' = r.es /\ offsets' = r.offs /\ end' = r.end
        /\ \/ /\ r.how = "clean"
              /\ UNCHANGED <<page, images, saved>>
              /\ Ready
           \/ /\ r.how # "clean"
              /\ page' = IF r.how = "torn" THEN SubSeq(page, 1, r.end) ELSE page
              /\ images' = images \cup {page'}
              /\ pc' = IF r.how = "torn" THEN "sync" ELSE "refused"
              /\ call' = [op |-> "replay"]
              /\ UNCHANGED <<saved, acked, ackedSave>>
        /\ UNCHANGED <<entry, buf, meta, metaImages, tmp, returned, failing>>

-----------------------------------------------------------------------------
(* append(): serialize the batch, ...                                      *)
BeginAppend(es) ==
    /\ pc = "ready" /\ es # <<>> /\ Len(entries) + Len(es) <= MaxLog
    /\ buf' = Serialize(Len(entries), es)
    /\ pc' = "write" /\ call' = [op |-> "append", es |-> es]
    /\ UNCHANGED <<logFile, entries, offsets, end, metaVars, history, failing>>

(* ... pwriteAll: one pwrite(), which may write less than it was given, ...*)
Pwrite(n) ==
    LET off == end + Len(Serialize(Len(entries), call.es)) - Len(buf)
    IN  /\ pc = "write" /\ n \in 1..Len(buf)
        /\ page' = SubSeq(page, 1, off) \o SubSeq(buf, 1, n)
        /\ images' = images \cup Torn(page', end)
        /\ buf' = SubSeq(buf, n + 1, Len(buf))
        /\ pc' = IF buf' = <<>> THEN "sync" ELSE "write"
        /\ UNCHANGED <<entry, entries, offsets, end, metaVars, call, history, failing>>

TruncateLate(i) ==                                                   \* mutant
    /\ pc = "ready" /\ i \in 1..Len(entries)
    /\ page' = SubSeq(page, 1, IF i < Len(offsets) THEN offsets[i + 1] ELSE end)
    /\ images' = images \cup {page'}
    /\ pc' = "sync" /\ call' = [op |-> "truncate", from |-> i]
    /\ returned' = Before(returned, i) /\ acked' = Before(acked, i)
    /\ UNCHANGED <<entry, logMemory, metaVars, ackedSave, failing>>

(* truncateSuffixFrom(i): the entries from i on stop being promised.       *)
Truncate(i) ==
    /\ pc = "ready" /\ i \in 1..Len(entries)
    /\ page' = SubSeq(page, 1, offsets[i]) /\ images' = images \cup {page'}
    /\ pc' = "sync" /\ call' = [op |-> "truncate", from |-> i]
    /\ returned' = Before(returned, i) /\ acked' = Before(acked, i)
    /\ UNCHANGED <<entry, logMemory, metaVars, ackedSave, failing>>

(* The in-memory half of a call, after its fsync().                        *)
Remember ==
    \/ /\ call.op = "append"
       /\ entries' = entries \o call.es
       /\ LET at == Len(entries)
              sizes == [k \in 1..Len(call.es) |-> Header + call.es[k].size]
              before[k \in 1..(Len(sizes) + 1)] ==
                  IF k = 1 THEN end ELSE before[k - 1] + sizes[k - 1]
          IN  /\ offsets' = offsets \o [k \in 1..Len(sizes) |-> before[k]]
              /\ end' = before[Len(sizes) + 1]
    \/ /\ call.op = "truncate"
       /\ end' = offsets[call.from]
       /\ offsets' = Before(offsets, call.from)
       /\ entries' = Before(entries, call.from)
    \/ call.op = "replay" /\ UNCHANGED <<entries, offsets, end>>

SyncLogDeferred ==                                                   \* mutant
    /\ pc = "sync"
    /\ Remember
    /\ UNCHANGED <<logFile, buf, metaVars, failing>>
    /\ Ready /\ returned' = Longer(returned, entries')

(* fsyncFd ends append, truncateSuffixFrom and the replay of a torn file.  *)
SyncLog ==
    /\ pc = "sync"
    /\ images' = {page}
    /\ Remember
    /\ UNCHANGED <<page, entry, buf, metaVars, failing>>
    /\ Ready /\ returned' = Longer(returned, entries')

-----------------------------------------------------------------------------
(* save(): write a new meta.tmp, sync it, rename it, sync the directory.   *)
BeginSave(v) ==
    /\ pc = "ready" /\ v \in (saved + 1)..MaxSaves
    /\ tmp' = [value |-> Garbage, synced |-> FALSE]
    /\ pc' = "writeTmp" /\ call' = [op |-> "save", v |-> v]
    /\ UNCHANGED <<logFile, logMemory, meta, metaImages, saved, history, failing>>

WriteTmp ==
    /\ pc = "writeTmp"
    /\ tmp' = [value |-> call.v, synced |-> FALSE]
    /\ pc' = "syncTmp"
    /\ UNCHANGED <<logFile, logMemory, meta, metaImages, saved, call, history, failing>>

SyncTmpSkipped ==                                                    \* mutant
    /\ pc = "syncTmp"
    /\ pc' = "rename"
    /\ UNCHANGED <<logFile, logMemory, metaVars, call, history, failing>>

SyncTmp ==
    /\ pc = "syncTmp"
    /\ tmp' = [tmp EXCEPT !.synced = TRUE]
    /\ pc' = "rename"
    /\ UNCHANGED <<logFile, logMemory, meta, metaImages, saved, call, history, failing>>

Rename ==
    /\ pc = "rename"
    /\ meta' = tmp.value
    /\ metaImages' = metaImages \cup {tmp.value} \cup (IF tmp.synced THEN {} ELSE {Garbage})
    /\ tmp' = [value |-> NoFile, synced |-> FALSE]
    /\ pc' = "syncDir"
    /\ UNCHANGED <<logFile, logMemory, saved, call, history, failing>>

SyncDir ==
    /\ pc = "syncDir"
    /\ metaImages' = {meta} /\ entry' = TRUE
    /\ saved' = call.v
    /\ UNCHANGED <<page, images, logMemory, meta, tmp, returned, failing>>
    /\ Ready

-----------------------------------------------------------------------------
(* The process dies, killed or by an error a system call reported: what it *)
(* wrote is still in the page cache.                                       *)
Kill ==
    /\ "kill" \in faults /\ crashes < MaxCrashes
    /\ crashes' = crashes + 1
    /\ pc' = "boot" /\ call' = NoCall
    /\ entries' = <<>> /\ offsets' = <<>> /\ end' = 0 /\ buf' = <<>> /\ saved' = 0
    /\ UNCHANGED <<logFile, meta, metaImages, tmp, history, faults>>

(* The machine loses power: the files are what had reached the disk.       *)
Outage ==
    /\ "outage" \in faults /\ crashes < MaxCrashes
    /\ crashes' = crashes + 1
    /\ page' \in images \cup (IF entry THEN {} ELSE {<<>>})
    /\ meta' \in metaImages
    /\ images' = {page'} /\ metaImages' = {meta'}
    /\ pc' = "boot" /\ call' = NoCall
    /\ entries' = <<>> /\ offsets' = <<>> /\ end' = 0 /\ buf' = <<>> /\ saved' = 0
    /\ UNCHANGED <<entry, tmp, history, faults>>

Entry == [term : Terms, size : Sizes]
Batches == UNION {[1..n -> Entry] : n \in 1..MaxBatch}

Next ==
    \/ OpenMeta \/ OpenLog \/ ReplayLog
    \/ \E es \in Batches : BeginAppend(es)
    \/ \E n \in 1..Len(buf) : Pwrite(n)
    \/ \E i \in 1..Len(entries) : Truncate(i)
    \/ SyncLog
    \/ \E v \in 1..MaxSaves : BeginSave(v)
    \/ WriteTmp \/ SyncTmp \/ Rename \/ SyncDir
    \/ Kill \/ Outage

Spec == Init /\ [][Next]_vars

-----------------------------------------------------------------------------
(* What append(), truncateSuffixFrom() or the replay of a torn file left   *)
(* when it returned is there after any sequence of crashes, whatever call  *)
(* they interrupt and wherever they tear it.                               *)
ReturnedSurvives == pc = "ready" => IsPrefix(returned, entries)

(* No crash leaves files that the constructors refuse: a torn append is    *)
(* told from corruption, and meta is never half-written.                   *)
BootNeverRefuses == pc # "refused"

(* A term and vote the node has acted on are not forgotten: not even when  *)
(* save() was killed between rename() and the directory's fsync().         *)
VoteSurvives == pc = "ready" => saved >= ackedSave

(* DESIGN.md: every node syncs before an ack that depends on it, so that   *)
(* an entry it once acknowledged is never lost.                            *)
AcksSurvive == pc = "ready" => IsPrefix(acked, entries)
=============================================================================
