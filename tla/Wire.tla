-------------------------------- MODULE Wire --------------------------------
(***************************************************************************)
(* The little-endian cursors of src/src/rpc/wire.h.  What a Writer has     *)
(* written is a sequence of bytes; a Reader is the input that remains, its *)
(* sticky ok flag, and what it has returned so far.  A byte has Radix      *)
(* values: 256 in the code, fewer here so that 8 of them fit TLC's         *)
(* integers; widths are the code's.                                        *)
(***************************************************************************)
EXTENDS Integers, SequencesExt

CONSTANT Radix

RECURSIVE Put(_, _), Value(_)
Put(v, n) == IF n = 0 THEN <<>> ELSE <<v % Radix>> \o Put(v \div Radix, n - 1)
Value(bytes) == IF bytes = <<>> THEN 0 ELSE Head(bytes) + Radix * Value(Tail(bytes))

U8(v) == Put(v, 1)
U16(v) == Put(v, 2)
U32(v) == Put(v, 4)
U64(v) == Put(v, 8)
Blob(bytes) == U32(Len(bytes)) \o bytes

(* A Writer over a buffer of this size: past its end it writes no more.    *)
Written(bytes, size) == IF Len(bytes) <= size THEN bytes ELSE <<>>

-----------------------------------------------------------------------------
Reader(bytes) == [in |-> bytes, ok |-> TRUE, got |-> <<>>]
Remaining(r) == Len(r.in)
Exhausted(r) == r.ok /\ r.in = <<>>

(* take: n bytes, or failure; a failed reader returns 0 from then on.      *)
Take(r, n) ==
    IF r.ok /\ n <= Remaining(r)
    THEN [in |-> SubSeq(r.in, n + 1, Len(r.in)), ok |-> TRUE,
          got |-> Append(r.got, Value(SubSeq(r.in, 1, n)))]
    ELSE [r EXCEPT !.ok = FALSE, !.got = Append(@, 0)]

GetU8(r) == Take(r, 1)
GetU16(r) == Take(r, 2)
GetU32(r) == Take(r, 4)
GetU64(r) == Take(r, 8)
(* Numbers of these widths, one after the other.                          *)
GetEach(r, widths) == FoldLeft(Take, r, widths)
LastOf(r) == r.got[Len(r.got)]

ReadBytes(r, n) ==
    IF r.ok /\ n <= Remaining(r)
    THEN [in |-> SubSeq(r.in, n + 1, Len(r.in)), ok |-> TRUE,
          got |-> Append(r.got, SubSeq(r.in, 1, n))]
    ELSE [r EXCEPT !.ok = FALSE, !.got = Append(@, <<>>)]

(* A u32 length, then as many bytes.                                       *)
GetBlob(r) == LET l == GetU32(r) IN ReadBytes(l, LastOf(l))
=============================================================================
