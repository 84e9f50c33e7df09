---------------------------- MODULE ContentHash ----------------------------
(***************************************************************************)
(* The content checksum (xxh64.rs), taken over bytes that come in parts.   *)
(* Stripes of 32 bytes go into four accumulators, the rest into the tail;  *)
(* a hasher keeps an unfinished stripe in a buffer that is never cleared.  *)
(* The arithmetic is left out: an accumulator is the list of words mixed   *)
(* into it, a hash what all of its steps were given.                       *)
(***************************************************************************)
EXTENDS Integers, Sequences, FiniteSetsExt

Drop(seq, n) == SubSeq(seq, n + 1, Len(seq))
Word(src, i) == SubSeq(src, i + 1, i + 8)

\* stripe: a word into each accumulator.
Stripe(v, src) == [k \in 1..4 |-> Append(v[k], Word(src, 8 * (k - 1)))]

\* stripes_all: the words of every whole stripe, and what is left.
StripesAll(src, v) ==
    LET n == Len(src) \div 32
    IN [v |-> [k \in 1..4 |-> v[k] \o [i \in 1..n |-> Word(src, 32 * (i - 1) + 8 * (k - 1))]],
        rest |-> Drop(src, 32 * n)]

\* finish_tail: words of eight, one of four, single bytes.
FinishTail(tail, acc, total) ==
    LET words == Len(tail) \div 8
        half == (Len(tail) % 8) \div 4
        bytes == Drop(tail, 8 * words + 4 * half)
    IN [acc |-> acc, total |-> total, words |-> [i \in 1..words |-> Word(tail, 8 * (i - 1))],
        half |-> IF half = 1 THEN SubSeq(tail, 8 * words + 1, 8 * words + 4) ELSE <<>>,
        bytes |-> SubSeq(bytes, 1, Min({3, Len(bytes)}))]

Lanes == [k \in 1..4 |-> <<>>]
NoLanes == <<>>   \* P5 stands in for the fold of the accumulators

\* xxh64.
Xxh64(src) ==
    LET all == StripesAll(src, Lanes)
    IN IF Len(src) >= 32 THEN FinishTail(all.rest, all.v, Len(src))
       ELSE FinishTail(src, NoLanes, Len(src))

-----------------------------------------------------------------------------
(* The hasher.                                                              *)

New == [total |-> 0, v |-> Lanes, buf |-> [i \in 1..32 |-> 0], buf_len |-> 0]

\* copy_into_buf: two moves of one width, the second up against the end.
CopyIntoBuf(buf, at, src) ==
    LET n == Len(src)
        width == CASE n >= 16 -> 16
                   [] n \in 8..15 -> 8
                   [] n \in 4..7 -> 4
                   [] n \in 2..3 -> 2
                   [] OTHER -> n
        move(b, from) == [i \in DOMAIN b |-> IF i - at - from \in 1..width THEN src[i - at] ELSE b[i]]
    IN move(move(buf, 0), n - width)

\* update.
Buffered(h, data) ==
    [h EXCEPT !.buf = CopyIntoBuf(@, h.buf_len, data), !.buf_len = @ + Len(data)]

ToppedUp(h, head) ==
    LET buf == CopyIntoBuf(h.buf, h.buf_len, head)
    IN [h EXCEPT !.buf = buf, !.v = Stripe(@, buf), !.buf_len = 0]

Absorb(h, data) ==
    LET all == StripesAll(data, h.v)
    IN IF all.rest = <<>> THEN [h EXCEPT !.v = all.v]
       ELSE [h EXCEPT !.v = all.v, !.buf = CopyIntoBuf(@, 0, all.rest), !.buf_len = Len(all.rest)]

Update(h, data) ==
    LET counted == [h EXCEPT !.total = @ + Len(data)]
        take == 32 - h.buf_len
    IN IF h.buf_len + Len(data) < 32 THEN Buffered(counted, data)
       ELSE IF h.buf_len > 0
            THEN Absorb(ToppedUp(counted, SubSeq(data, 1, take)), Drop(data, take))
       ELSE Absorb(counted, data)

\* digest.
Digest_mut(h) ==
    FinishTail(SubSeq(h.buf, 1, h.buf_len), IF h.total > 32 THEN h.v ELSE NoLanes, h.total)

Digest(h) ==
    FinishTail(SubSeq(h.buf, 1, h.buf_len), IF h.total >= 32 THEN h.v ELSE NoLanes, h.total)

-----------------------------------------------------------------------------

\* What the hasher has come to is what hashing all of its bytes at once gives.
HashesAsOne(h, src) == h.buf_len < 32 /\ Digest(h) = Xxh64(src)
=============================================================================
