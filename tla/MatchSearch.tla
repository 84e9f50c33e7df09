---------------------------- MODULE MatchSearch -----------------------------
(***************************************************************************)
(* How the sequences of a block are found: by one of the finders, around   *)
(* the long-distance matches (ldm.rs), with tables the history primes, in  *)
(* the blocks of a frame, one-shot (encode_frame_blocks) or streamed       *)
(* (emit_block), where the history slides and every position with it.      *)
(*                                                                         *)
(* A finder's answer must be one the decoder can follow: the bytes are     *)
(* really there, and the decoder still has them.                           *)
(***************************************************************************)
EXTENDS ChainFinders, HashFinders, RowFinder, TreeFinders

\* prime_tables, prime_ldm: the last window of what lies before `at`.
Primed(t, at) ==
  LET from == Above(at, Window)  ilimit == Above(at, Margin)
      n == KeyBytes(t)
      put(x, p) == CASE call.finder \in {"fast", "tree", "optimal"} -> PutShort(x, p, ilimit)
                     [] call.finder = "dfast" -> PutBoth(x, p, ilimit)
                     [] call.finder = "rows" -> RowInsert(x, p)
                     [] OTHER -> Link(x, p, Hash(p, n, Buckets))
  IN IF from >= ilimit THEN t ELSE FoldLeft(put, t, Positions(from, ilimit))

Aligned(p) == p + ((LdmStep - (p % LdmStep)) % LdmStep)

PrimedLdm(at) ==
  LET sampled == {p \in Above(at, Window)..Above(at, LdmMin) :
                    p % LdmStep = 0 /\ p + LdmMin <= at /\ p + Margin <= End}
      inBucket(h) == {p \in sampled : Hash(p, LdmMin, LdmBuckets) = h}
  IN [h \in 0..(LdmBuckets - 1) |->
        IF inBucket(h) = {} THEN 0
        ELSE CHOOSE p \in inBucket(h) : \A q \in inBucket(h) : q <= p]

-----------------------------------------------------------------------------
NoBlock == [from |-> 0, to |-> 0, hint |-> <<0, 0, 0>>, seqs |-> <<>>, lits |-> <<>>]

\* A one-shot call copies of the history what a window and a block reach.
Init ==
  /\ call \in Settings
  /\ \E p \in Payloads : data = call.history \o p
  /\ dropped = IF call.stream THEN 0 ELSE Above(Len(call.history), Window + BlockMax)
  /\ off = PayloadAt /\ reps = call.reps
  /\ tables = Primed(Cleared, off) /\ ldm = PrimedLdm(off)
  /\ pc = "block" /\ block = NoBlock /\ hits = {} /\ pos = 0 /\ piece = NoPiece

\* The repeat offsets to try: those beyond the window only while the block ends in
\* the content's first window (far_reps_ok).
Hint(end) ==
  [k \in 1..3 |-> IF end - PayloadAt <= Window \/ reps[k] <= Window THEN reps[k] ELSE 0]

BlockEnds == {Lower(off + n, End) : n \in BlockLens}

NextBlock(end, next) ==
  /\ pc = "block" /\ off < End
  /\ block' = [NoBlock EXCEPT !.from = off, !.to = end, !.hint = Hint(end)]
  /\ off' = end /\ pc' = next
  /\ UNCHANGED <<call, data, dropped, reps, tables, piece>>

\* One byte repeated, or a run of raw blocks behind: no search.
SkipSearch ==
  /\ \E end \in BlockEnds : NextBlock(end, "skipped")
  /\ UNCHANGED <<ldm, hits, pos>>

Search ==
  /\ \E end \in BlockEnds :
       LET far == call.ldm /\ end - off >= LdmMin /\ End >= LdmMin + Margin
       IN /\ NextBlock(end, IF far THEN "far" ELSE "piece")
          /\ end > off + 1 => \E p \in off..(end - 1) : At(p) # At(off)
          /\ pos' = IF far THEN Aligned(off) ELSE off
  /\ hits' = {} /\ UNCHANGED ldm

(***************************************************************************)
(* The long-distance matches of a block: every LdmStep positions are       *)
(* looked up and remembered, and a match is stepped over.                  *)
(***************************************************************************)
Collect ==
  LET h == Hash(pos, LdmMin, LdmBuckets)
      m == ldm[h]
      n == MatchLength(m, pos, block.to)
  IN /\ pc = "far"
     /\ IF pos + LdmMin > block.to \/ pos + Margin > End
        THEN pc' = "piece" /\ pos' = block.from /\ UNCHANGED <<ldm, hits>>
        ELSE /\ IF m \in FrameStart..(pos - 1) /\ pos - m <= Window /\ n >= LdmMin
                THEN /\ hits' = hits \union {[ip |-> pos, len |-> n, off |-> pos - m]}
                     /\ pos' = Aligned(pos + n)
                ELSE pos' = pos + LdmStep /\ UNCHANGED hits
             /\ ldm' = [ldm EXCEPT ![h] = pos]
             /\ UNCHANGED pc
     /\ UNCHANGED <<call, data, dropped, off, reps, tables, block, piece>>

(***************************************************************************)
(* One piece of the block, up to the next long-distance match.             *)
(***************************************************************************)
PieceEnd ==
  IF hits = {} THEN block.to
  ELSE CHOOSE ip \in {h.ip : h \in hits} : \A h \in hits : ip <= h.ip

\* chain_finder_prologue: a piece too short for a search is all literals.  A row
\* finder asks once whether its repeat offsets stay inside what it may reach, and
\* looks up every position since the last it saw; an empty slot reads as position 0, which
\* therefore never matches (row_greedy_pos0: it may).
ParkMax(lowest) == IF pos = lowest THEN 1 ELSE pos - lowest
Parked(rep, lowest) == IF rep > ParkMax(lowest) THEN 0 ELSE rep

\* A fast frame whose offsets repeat a lot has a piece searched by the lazy finder, which
\* reads the same heads under a narrower hash: those of the last window are put anew
\* (fast_hash_relatch), what the others hold is out of place or no position at all.
SeedFrom(at) == Upper(Above(at, Window), FrameStart)
SeedTo(at) == Lower(Above(at, Margin), End - Margin)

Relatched(t, at) ==
  LET put(x, p) == [x EXCEPT !.head[Hash(p, NarrowMatch, Buckets)] = p]
      stale == [h \in DOMAIN t.head |-> End]
  IN {FoldLeft(put, x, Positions(SeedFrom(at), SeedTo(at))) : x \in {t, [t EXCEPT !.head = stale]}}

\* A frame whose walks find better matches late has its chains keyed by a whole match
\* from here on: the last window is inserted once more (maybe_latch_wide_chain), over
\* heads and links that stay where the other key put them and may lead forward.
WideLatched(t, at) == InsertAll([t EXCEPT !.wide = TRUE], SeedFrom(at), SeedTo(at))

StartPiece ==
  LET lowest == Upper(Above(pos, Window), FrameStart)
      fresh == [NoPiece EXCEPT !.to = PieceEnd, !.ip = pos, !.anchor = pos, !.lowest = lowest,
                               !.rep1 = block.hint[1]]
      short == IF call.finder = "optimal" THEN PieceEnd - pos < Margin
               ELSE pos >= Above(PieceEnd, Margin)
      rows == [fresh EXCEPT !.finder = "rows", !.ip = IF pos = lowest THEN pos + 1 ELSE pos,
                            !.rep1 = Parked(block.hint[1], lowest),
                            !.rep2 = Parked(block.hint[2], lowest)]
      searchers == {call.finder} \union (IF call.finder = "fast" THEN {"lazy"} ELSE {})
      seen == [tables EXCEPT !.ntu = IF @ = None \/ @ > pos THEN pos ELSE Upper(@, lowest)]
  IN /\ pc = "piece"
     /\ \/ short /\ piece' = fresh /\ UNCHANGED tables
        \/ /\ ~short /\ call.finder = "rows" /\ tables' = seen
           /\ \E least \in {0, 1} : piece' = [rows EXCEPT !.lowest1 = Upper(lowest, least)]
        \/ /\ ~short /\ call.finder # "rows"
           /\ \E finder \in searchers, use_rep \in BOOLEAN, walk_on \in BOOLEAN :
                /\ walk_on => finder \in {"greedy", "lazy"}
                /\ piece' = [fresh EXCEPT !.finder = finder, !.use_rep = use_rep,
                                          !.walk_on = walk_on]
                /\ tables' \in {tables}
                     \union (IF finder # call.finder THEN Relatched(tables, pos) ELSE {})
                     \union (IF finder \in {"greedy", "lazy"} /\ ~tables.wide
                             THEN {WideLatched(tables, pos)} ELSE {})
     /\ pc' = IF short THEN "tail" ELSE "search"
     /\ UNCHANGED <<call, data, dropped, off, reps, ldm, block, hits, pos>>

SearchOver ==
  /\ pc = "search" /\ ~Searching /\ piece.finder # "optimal"
  /\ pc' = "tail"
  /\ UNCHANGED <<call, data, dropped, off, reps, tables, ldm, block, hits, pos, piece>>

\* The piece's last literals; then the long-distance match behind it, or the end.
SumLit(seqs) ==
  LET sum[k \in 0..Len(seqs)] == IF k = 0 THEN 0 ELSE sum[k - 1] + seqs[k].lit
  IN sum[Len(seqs)]

JoinPiece ==
  LET lits == piece.lits \o Slice(piece.anchor, piece.to)
      leftover == Above(Len(lits), SumLit(piece.seqs))
      joined(more) == [block EXCEPT !.seqs = @ \o piece.seqs \o more, !.lits = @ \o lits]
  IN /\ pc = "tail"
     /\ IF hits = {}
        THEN /\ block' = joined(<<>>) /\ pc' = "found"
             /\ UNCHANGED <<hits, pos>>
        ELSE \E hit \in {h \in hits : h.ip = piece.to} :
             /\ block' = joined(<<[lit |-> leftover, len |-> hit.len, off |-> hit.off]>>)
             /\ pos' = Lower(hit.ip + hit.len, block.to)
             /\ hits' = {h \in hits : h.ip >= pos' /\ h.ip < block.to}
             /\ pc' = "piece"
     /\ piece' = NoPiece
     /\ UNCHANGED <<call, data, dropped, off, reps, tables, ldm>>

(***************************************************************************)
(* The block is written, compressed or raw; a raw one leaves the repeat    *)
(* offsets alone.  A stream that holds enough history keeps its last       *)
(* window, clears the tables and primes them with what it kept; a key that *)
(* is wide stays so.                                                       *)
(***************************************************************************)
RepsAfter(seqs) ==
  LET after[k \in 0..Len(seqs)] ==
        IF k = 0 THEN reps ELSE RepMove(seqs[k].off, seqs[k].lit = 0, after[k - 1])
  IN after[Len(seqs)]

EndBlock ==
  /\ pc \in {"found", "skipped"}
  /\ reps' \in {reps, RepsAfter(block.seqs)}
  /\ UNCHANGED <<call, data>>
  /\ IF call.stream /\ off >= SlideAt
     THEN /\ dropped' = dropped + off - Window /\ off' = Window
          /\ \E wide \in {tables.wide} : tables' = Primed([Cleared EXCEPT !.wide = wide], off)'
     ELSE UNCHANGED <<dropped, off, tables>>
  /\ pc' = "block" /\ block' = NoBlock
  /\ UNCHANGED <<ldm, hits, pos, piece>>

Done == pc = "block" /\ off = End /\ UNCHANGED searchVars

Next ==
  \/ SkipSearch \/ Search \/ Collect \/ StartPiece \/ RepMatch \/ SearchGreedy \/ SearchLazy
  \/ SearchDouble \/ SearchFast \/ SearchRows \/ LookAhead \/ TakePick \/ RepAgain
  \/ SearchTree \/ SearchOptimal \/ TurnBack \/ StepBack \/ TakeWay \/ SearchOver \/ JoinPiece \/ EndBlock \/ Done

Spec == Init /\ [][Next]_searchVars

-----------------------------------------------------------------------------
(* Properties *)

\* The decoder, told nothing but the sequences and the literals: out is what it
\* has, of it the first `before` bytes the dictionary (copy_match).
CopyMatch(s, d, before) ==
  LET n == Len(d.out)
      ok == s.off \in 1..n /\ (n - s.off >= before => s.off <= Window)
      copied[i \in 1..(n + s.len)] == IF i <= n THEN d.out[i] ELSE copied[i - s.off]
  IN [out |-> IF ok THEN copied ELSE d.out, lits |-> d.lits, ok |-> d.ok /\ ok]

Execute(s, d, before) ==
  CopyMatch(s, [out |-> d.out \o SubSeq(d.lits, 1, s.lit),
                lits |-> SubSeq(d.lits, s.lit + 1, Len(d.lits)), ok |-> d.ok], before)

ExecuteAll(seqs, d, before) ==
  LET after[k \in 0..Len(seqs)] == IF k = 0 THEN d ELSE Execute(seqs[k], after[k - 1], before)
  IN after[Len(seqs)]

\* However the search went, the sequences and literals of a block, executed by a
\* decoder that has the blocks before it (and the history, unless prime_only hid it
\* from the frame), give back the block's bytes, and every match is one copy_match
\* accepts: of the last window, or of the dictionary.
SequencesRebuild ==
  pc = "found" =>
    LET hidden == IF call.prime_only THEN Len(call.history) ELSE 0
        before == Len(call.history) - hidden
        start == [out |-> SubSeq(data, hidden + 1, dropped + block.from), lits |-> block.lits,
                  ok |-> TRUE]
        d == ExecuteAll(block.seqs, start, before)
    IN d.ok /\ d.out \o d.lits = SubSeq(data, hidden + 1, dropped + block.to)
=============================================================================
