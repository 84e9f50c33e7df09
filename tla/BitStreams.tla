----------------------------- MODULE BitStreams -----------------------------
(***************************************************************************)
(* Bit strings as the entropy coders write and read them (bit.rs): a       *)
(* sequence of bits, the first written first, a field's low bit before its *)
(* high bits.  BitFwd reads from the front.  BitRev reads from the end     *)
(* mark, so what was written last is read first.                           *)
(***************************************************************************)
EXTENDS Integers, Sequences, SequencesExt, FiniteSetsExt

CONSTANT Corrupt  \* Error::Corruption, and what is read past a stream's start

\* Rust's `?`: an error is passed on, anything else is gone on with.
Then(v, Do(_)) == IF v = Corrupt THEN Corrupt ELSE Do(v)

Else(v, w) == IF v = Corrupt THEN w ELSE v

\* The position of the highest set bit of a u32 above 0.
HighBit(n) == Max({k \in 0..30 : 2^k <= n})

\* BitCStream::add_bits: the low `width` bits of v.
Field(v, width) == [i \in 1..width |-> (v \div 2^(i - 1)) % 2]

Number(bits) == FoldRight(LAMBDA b, n : b + 2 * n, bits, 0)

\* The bytes a bit string fills.
ByteLen(bits) == (Len(bits) + 7) \div 8

Padded(bits) == bits \o [i \in 1..(8 * ByteLen(bits) - Len(bits)) |-> 0]

-----------------------------------------------------------------------------
(* BitCStream::close and BitRev.  The mark is set above the last bit, and   *)
(* the reader drops it with the padding over it.                            *)

Close(bits) == Padded(Append(bits, 1))

Opened(closed) ==
    LET mark == Max({0} \cup {i \in DOMAIN closed : closed[i] = 1})
    IN IF mark = 0 \/ Len(closed) - mark >= 8 THEN Corrupt
       ELSE SubSeq(closed, 1, mark - 1)

\* look_bits_fast: bits past the start of the stream read as zeros.
Look(bits, n) ==
    IF n <= Len(bits) THEN Number(SubSeq(bits, Len(bits) - n + 1, Len(bits)))
    ELSE Number(bits) * 2^(n - Len(bits))

\* skip_bits.  A skip past the start leaves nothing.
Skip(bits, n) ==
    IF bits = Corrupt \/ n > Len(bits) THEN Corrupt
    ELSE SubSeq(bits, 1, Len(bits) - n)

FinishedExactly(bits) == bits = <<>>
=============================================================================
