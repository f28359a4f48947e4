--------------------------- MODULE FrameAssembler ---------------------------
(***************************************************************************)
(* Length-prefixed framing (src/src/transport/frame.h, frame.cpp): the     *)
(* bytes of a connection collected so far, and what feed() finds in them.  *)
(***************************************************************************)
EXTENDS Integers, Sequences

CONSTANTS
    Radix,                  \* values of a byte
    kLengthPrefixSize,      \* 4 in the code; here any size a read may split
    kMaxFrameSize

RECURSIVE BigEndian(_)
BigEndian(bytes) ==
    IF bytes = <<>> THEN 0 ELSE bytes[Len(bytes)] + Radix * BigEndian(SubSeq(bytes, 1, Len(bytes) - 1))

RECURSIVE LengthPrefix(_, _)
LengthPrefix(n, size) == IF size = 0 THEN <<>> ELSE Append(LengthPrefix(n \div Radix, size - 1), n % Radix)

Framed(body) == LengthPrefix(Len(body), kLengthPrefixSize) \o body

(* feed() appends to the buffer, then takes frames off its front.  A       *)
(* length that no frame has poisons the assembler for good; its connection *)
(* is closed at once, so the flag itself is left out.                      *)
Fresh == <<>>
Feed(buf, data) == buf \o data

BodyLength(buf) == BigEndian(SubSeq(buf, 1, kLengthPrefixSize))
HasLength(buf) == Len(buf) >= kLengthPrefixSize
Illegal(buf) == HasLength(buf) /\ (BodyLength(buf) = 0 \/ BodyLength(buf) > kMaxFrameSize)
Complete(buf) == HasLength(buf) /\ ~Illegal(buf) /\ Len(buf) >= kLengthPrefixSize + BodyLength(buf)

Body(buf) == SubSeq(buf, kLengthPrefixSize + 1, kLengthPrefixSize + BodyLength(buf))
ConsumedTooLittle(buf) == SubSeq(buf, BodyLength(buf) + 1, Len(buf))  \* mutant
Consumed(buf) == SubSeq(buf, kLengthPrefixSize + BodyLength(buf) + 1, Len(buf))
=============================================================================
