------------------------------ MODULE Messages ------------------------------
(***************************************************************************)
(* The message codec (src/src/rpc/messages.cpp).  A frame is decoded into  *)
(* a slot that has held other messages: the slot's message keeps its       *)
(* buffers, and a pool keeps those of the alternatives it has left, with   *)
(* the bytes they held.                                                    *)
(***************************************************************************)
EXTENDS Wire, FiniteSets

CONSTANTS
    kMaxPayloadSize,    \* 16 MiB in the code
    Sample              \* the messages sent

kProtocolVersion == 1
kEnvelopeSize == 12
kMinEntryWireSize == 12

Types == <<"RequestVote", "RequestVoteReply", "AppendEntries", "AppendEntriesReply",
           "ClientRequest", "ClientReply">>
TypeOf(m) == CHOOSE t \in DOMAIN Types : Types[t] = m.type
ValidType(t) == t \in DOMAIN Types

EncodeBool(b) == U8(IF b THEN 1 ELSE 0)

EncodePayload(m) ==
    CASE m.type = "RequestVote" ->
            U64(m.term) \o U16(m.candidateId) \o U64(m.lastLogIndex) \o U64(m.lastLogTerm)
      [] m.type = "RequestVoteReply" -> U64(m.term) \o EncodeBool(m.voteGranted)
      [] m.type = "AppendEntries" ->
            U64(m.term) \o U16(m.leaderId) \o U64(m.prevLogIndex) \o U64(m.prevLogTerm)
                \o U64(m.leaderCommit) \o U32(Len(m.entries))
                \o FlattenSeq([i \in DOMAIN m.entries |-> U64(m.entries[i].term) \o Blob(m.entries[i].command)])
      [] m.type = "AppendEntriesReply" ->
            U64(m.term) \o EncodeBool(m.success) \o U64(m.conflictIndex) \o U64(m.conflictTerm)
      [] m.type = "ClientRequest" -> U64(m.clientId) \o U64(m.seqNo) \o Blob(m.command)
      [] m.type = "ClientReply" -> U8(m.status) \o U16(m.leaderHint) \o Blob(m.result)

PayloadSize(m) ==
    LET entry(e) == 8 + 4 + Len(e.command)
    IN  CASE m.type = "RequestVote" -> 8 + 2 + 8 + 8
          [] m.type = "RequestVoteReply" -> 8 + 1
          [] m.type = "AppendEntries" ->
                FoldLeft(LAMBDA n, e : n + entry(e), 8 + 2 + 8 + 8 + 8 + 4, m.entries)
          [] m.type = "AppendEntriesReply" -> 8 + 1 + 8 + 8
          [] m.type = "ClientRequest" -> 8 + 8 + 4 + Len(m.command)
          [] m.type = "ClientReply" -> 1 + 2 + 4 + Len(m.result)

EncodeEnvelope(e) ==
    U8(e.version) \o U8(e.type) \o U16(e.from) \o U16(e.to) \o U16(0) \o U32(e.payloadLength)

(* Nothing is written when the message is too large for the cap, or for    *)
(* the buffer.                                                             *)
EncodeMessage(from, to, m, size) ==
    LET psize == PayloadSize(m)
        env == [version |-> kProtocolVersion, type |-> TypeOf(m), from |-> from, to |-> to,
                payloadLength |-> psize]
    IN  IF psize > kMaxPayloadSize \/ size < kEnvelopeSize + psize THEN <<>>
        ELSE Written(EncodeEnvelope(env) \o EncodePayload(m), size)

-----------------------------------------------------------------------------
(* DecodePool, and what it does when the slot changes its alternative.     *)
EmptySlot ==
    [message |-> [type |-> "RequestVote", term |-> 0, candidateId |-> 0, lastLogIndex |-> 0, lastLogTerm |-> 0],
     bufs |-> <<>>, entryLists |-> <<>>]

PutBufs(slot, bs) == [slot EXCEPT !.bufs = @ \o bs]
TopBuf(slot) == IF slot.bufs = <<>> THEN <<>> ELSE Last(slot.bufs)
DropBuf(slot) == IF slot.bufs = <<>> THEN slot ELSE [slot EXCEPT !.bufs = Front(@)]
Commands(entries) == [i \in DOMAIN entries |-> entries[i].command]

Salvage(slot) ==
    CASE slot.message.type = "AppendEntries" ->
            [PutBufs(slot, Commands(slot.message.entries)) EXCEPT !.entryLists = Append(@, <<>>)]
      [] slot.message.type = "ClientRequest" -> PutBufs(slot, <<slot.message.command>>)
      [] slot.message.type = "ClientReply" -> PutBufs(slot, <<slot.message.result>>)
      [] OTHER -> slot

Fresh(slot, type) ==
    CASE type = "AppendEntries" ->
            IF slot.entryLists = <<>> THEN [slot EXCEPT !.message = [type |-> type, entries |-> <<>>]]
            ELSE [slot EXCEPT !.message = [type |-> type, entries |-> Last(slot.entryLists)],
                              !.entryLists = Front(@)]
      [] type = "ClientRequest" -> [DropBuf(slot) EXCEPT !.message = [type |-> type, command |-> TopBuf(slot)]]
      [] type = "ClientReply" -> [DropBuf(slot) EXCEPT !.message = [type |-> type, result |-> TopBuf(slot)]]
      [] OTHER -> [slot EXCEPT !.message = [type |-> type]]

AlternativeFor(slot, type) == IF slot.message.type = type THEN slot ELSE Fresh(Salvage(slot), type)

-----------------------------------------------------------------------------
DecodeBool(r) == LET b == GetU8(r) IN [b EXCEPT !.ok = @ /\ LastOf(b) <= 1]

(* decodePayload: the numbers and the buffer that are read,               *)
ReadFields(r, type) ==
    CASE type = "RequestVote" -> GetEach(r, <<8, 2, 8, 8>>)
      [] type = "RequestVoteReply" -> DecodeBool(GetU64(r))
      [] type = "AppendEntriesReply" -> GetEach(DecodeBool(GetU64(r)), <<8, 8>>)
      [] type = "ClientRequest" -> GetBlob(GetEach(r, <<8, 8>>))
      [] type = "ClientReply" ->
            LET s == GetU8(r) IN GetBlob(GetU16([s EXCEPT !.ok = @ /\ LastOf(s) <= 2]))

(* and the message they leave in m.  A buffer is assigned only when all of *)
(* its bytes are there; numbers that could not be read are scratch.        *)
WithFields(m, g, ok) ==
    LET buffer(old) == IF ok THEN g[4] ELSE old
    IN  CASE m.type = "RequestVote" ->
                [type |-> m.type, term |-> g[1], candidateId |-> g[2],
                 lastLogIndex |-> g[3], lastLogTerm |-> g[4]]
          [] m.type = "RequestVoteReply" -> [type |-> m.type, term |-> g[1], voteGranted |-> g[2] = 1]
          [] m.type = "AppendEntriesReply" ->
                [type |-> m.type, term |-> g[1], success |-> g[2] = 1,
                 conflictIndex |-> g[3], conflictTerm |-> g[4]]
          [] m.type = "ClientRequest" ->
                [type |-> m.type, clientId |-> g[1], seqNo |-> g[2], command |-> buffer(m.command)]
          [] m.type = "ClientReply" ->
                [type |-> m.type, status |-> g[1], leaderHint |-> g[2], result |-> buffer(m.result)]

DecodePayload(r, m) ==
    LET body == ReadFields(r, m.type)
    IN  [r |-> body, message |-> WithFields(m, body.got, body.ok)]

(* One entry of decodePayloadInto: overwrite an entry of the slot, or add  *)
(* one with a buffer from the pool.                                        *)
DecodeEntry(x, i) ==
    LET grown == IF i <= Len(x.slot.message.entries) THEN x.slot
                 ELSE [DropBuf(x.slot) EXCEPT !.message.entries =
                          Append(@, [term |-> 0, command |-> TopBuf(x.slot)])]
        r == GetBlob(GetU64([x.r EXCEPT !.got = <<>>]))
        old == grown.message.entries[i].command
    IN  IF ~x.r.ok THEN x
        ELSE [r |-> r, slot |-> [grown EXCEPT !.message.entries[i] =
                  [term |-> r.got[1], command |-> IF r.ok THEN r.got[3] ELSE old]]]

ShrinkNothing(slot, count) == slot                                   \* mutant
(* The entries beyond count go, the last one first, their buffers stay.    *)
Shrink(slot, count) ==
    LET es == slot.message.entries
    IN  IF Len(es) <= count THEN slot
        ELSE [PutBufs(slot, Reverse(Commands(SubSeq(es, count + 1, Len(es)))))
                EXCEPT !.message.entries = SubSeq(@, 1, count)]

DecodePayloadInto(r, slot) ==
    LET head == GetEach(r, <<8, 2, 8, 8, 8, 4>>)
        g == head.got
        count == g[6]
        assigned == [slot EXCEPT !.message =
                        [type |-> "AppendEntries", term |-> g[1], leaderId |-> g[2], prevLogIndex |-> g[3],
                         prevLogTerm |-> g[4], leaderCommit |-> g[5], entries |-> slot.message.entries]]
    IN  IF ~head.ok \/ count > Remaining(head) \div kMinEntryWireSize
        THEN [r |-> [head EXCEPT !.ok = FALSE], slot |-> assigned]
        ELSE FoldLeft(DecodeEntry, [r |-> head, slot |-> Shrink(assigned, count)], [i \in 1..count |-> i])

DecodeIntoAlternative(r, slot, type) ==
    LET alt == AlternativeFor(slot, type)
        d == DecodePayload(r, alt.message)
    IN  IF type = "AppendEntries" THEN DecodePayloadInto(r, alt)
        ELSE [r |-> d.r, slot |-> [alt EXCEPT !.message = d.message]]

DecodeMessageInto(frame, slot) ==
    LET r == GetEach(Reader(frame), <<1, 1, 2, 2, 2, 4>>)
        g == r.got
        d == DecodeIntoAlternative([r EXCEPT !.got = <<>>], slot, Types[g[2]])
    IN  IF \/ Len(frame) < kEnvelopeSize \/ Len(frame) > kEnvelopeSize + kMaxPayloadSize
           \/ ~r.ok \/ g[1] # kProtocolVersion \/ g[5] # 0 \/ ~ValidType(g[2])
           \/ g[6] # Len(frame) - kEnvelopeSize
        THEN [ok |-> FALSE, slot |-> slot]
        ELSE [ok |-> Exhausted(d.r), slot |-> d.slot, from |-> g[3], to |-> g[4]]

-----------------------------------------------------------------------------
VARIABLE slot

Frame(m) == EncodeMessage(1, 2, m, kEnvelopeSize + kMaxPayloadSize)

(* A frame whose payload is cut short under a length that agrees; one cut  *)
(* or extended under the old length, or with a byte replaced.              *)
Shortened(f) ==
    {SubSeq(f, 1, 8) \o U32(n - kEnvelopeSize) \o SubSeq(f, 13, n) : n \in kEnvelopeSize..(Len(f) - 1)}
Damaged(f) ==
    Shortened(f) \cup {SubSeq(f, 1, n) : n \in 0..(Len(f) - 1)} \cup {Append(f, 0)}
        \cup {[f EXCEPT ![i] = b] : i \in DOMAIN f, b \in {0, Radix - 1}}

Init == slot = EmptySlot

(* A slot of the inbound ring decodes what arrives, one frame after the    *)
(* other; a frame refused on the way leaves it half written.               *)
Decode(f) == slot' = DecodeMessageInto(f, slot).slot
Next == \E frame \in {Frame(m) : m \in Sample} : \E f \in {frame} \cup Shortened(frame) : Decode(f)
Spec == Init /\ [][Next]_slot

(* Whatever the slot held before, a message is decoded as it was encoded;  *)
(* and a frame that is accepted is the encoding of what was decoded: no    *)
(* stale entry or buffer shows, no other byte sequence is taken.           *)
OnlyEncodingsDecode ==
    \A m \in Sample : \A frame \in {Frame(m)} : \A f \in {frame} \cup Damaged(frame) :
        \A d \in {DecodeMessageInto(f, slot)} :
            /\ f = frame => d.ok /\ d.slot.message = m
            /\ d.ok => EncodeMessage(d.from, d.to, d.slot.message, Len(f)) = f
=============================================================================
