---------------------------- MODULE HashFinders -----------------------------
(***************************************************************************)
(* The finders that keep only the last position of each bucket: fast, of   *)
(* one hash, and dfast, of two (encode/fast.rs, encode/dfast.rs).          *)
(***************************************************************************)
EXTENDS Finders

\* put_h, put_hl: one position in each table, as far as a search may begin there.
LongHash(p) == Hash(p, Margin, Buckets)
PutLong(t, p, limit) == IF p <= limit THEN [t EXCEPT !.long[LongHash(p)] = p] ELSE t
PutBoth(t, p, limit) == PutLong(PutShort(t, p, limit), p, limit)

\* fill_dfast_after_match: two bytes on, and two bytes before the end.
FillEnds(t, ip, at, end) ==
  PutBoth(PutLong(PutShort(t, at + 2, Limit), ip + 2, Limit), end - 2, Limit)

\* dfast: the last position of each of two hashes; the long one is looked up a byte
\* further on too, and what comes later must be longer.
SearchDouble ==
  LET ip == piece.ip
      known == PutBoth(tables, ip, Limit)
      candidate(m, p) == [at |-> m, len |-> LengthAt(m, p), ip |-> p]
      long == candidate(tables.long[LongHash(ip)], ip)
      short == candidate(tables.head[Hash(ip, MinMatch, Buckets)], ip)
      next == IF ip < Limit THEN {candidate(known.long[LongHash(ip + 1)], ip + 1)} ELSE {}
      worth == {c \in {long} : c.len > 0} \union {c \in {short} \union next : c.len > long.len}
  IN /\ Searching /\ RepLength < RepMin /\ piece.finder = "dfast"
     /\ \/ \E c \in worth : /\ piece' = Taken(c.ip, c)
                            /\ tables' = FillEnds(known, ip, c.ip, c.ip + c.len)
        \/ /\ long.len = 0 /\ short.len = 0
           /\ \E step \in {1, 2} : piece' = Onward(step)
           /\ tables' = known
     /\ UNCHANGED <<call, data, dropped, off, reps, ldm, pc, block, hits, pos>>

\* fill_fast_after_match
FillFast(t, at, end) == PutShort(PutShort(t, at + 2, Limit), end - 2, Limit)

\* fast: the last position of one hash; the next byte is looked up too, or not.  What
\* repeats offsets a lot takes long matches only, and keeps trying the same offset.
SearchFast ==
  LET ip == piece.ip
      slot(t, p) == t.head[Hash(p, MinMatch, Buckets)]
      known == PutShort(tables, ip, Limit)
      here == [at |-> slot(tables, ip), len |-> LengthAt(slot(tables, ip), ip)]
      pair == PutShort(known, ip + 1, Limit)
      next == [at |-> slot(known, ip + 1), len |-> LengthAt(slot(known, ip + 1), ip + 1)]
  IN /\ Searching /\ piece.finder = "fast"
     /\ \/ RepLength >= RepMin /\ piece' = RepTaken /\ tables' = known
        \/ /\ RepLength < RepMin /\ here.len > 0
           /\ \E rep \in {piece.rep1, ip - here.at} :
                piece' = [Taken(ip, here) EXCEPT !.rep1 = rep]
           /\ tables' = FillFast(known, ip, ip + here.len)
        \/ /\ RepLength < RepMin /\ ip < Limit /\ next.len > 0
           /\ piece' = [Taken(ip + 1, next) EXCEPT !.rep1 = piece.rep1]
           /\ tables' = FillFast(pair, ip + 1, ip + 1 + next.len)
        \/ /\ RepLength < RepMin
           /\ \E step \in {1, 2} : piece' = Onward(step)
           /\ tables' \in {known, pair}
     /\ UNCHANGED <<call, data, dropped, off, reps, ldm, pc, block, hits, pos>>
=============================================================================
