------------------------------ MODULE Finders -------------------------------
(***************************************************************************)
(* What the finders of the sequences of a block share: the history and the *)
(* content they search, the tables they keep, the piece of a block one of  *)
(* them is searching, and what they find.                                  *)
(*                                                                         *)
(* What is heuristic is left open: how long a block is, whether it is      *)
(* searched, kept or written raw, whether repeat offsets are tried,        *)
(* whether a walk goes on after a miss, which of several matches is best.  *)
(***************************************************************************)
EXTENDS RepCodes, Sequences, SequencesExt

CONSTANTS Payloads,   \* the contents a frame may have
          Settings,   \* the calls: finder, history, reps, prime_only, ldm, stream
          Window,     \* 1 << window_log
          BlockMax,   \* block_max
          BlockLens,  \* the lengths a block may have, of 1..BlockMax
          SlideAt,    \* slide_threshold
          Margin,     \* 8: no search begins closer to the end of a block
          MinMatch,   \* mls
          NarrowMatch, \* 4: bytes of the chain finders' key, until a frame's is wide
          RepMin,     \* 4: the shortest match at a repeat offset
          Depth,      \* positions the lazy finder looks ahead
          Attempts,   \* candidates a walk may look at
          Buckets,    \* 1 << hash_log
          ChainSize,  \* 1 << chain_log
          StepLength, \* 1 << 12: literals after which a search steps wider
          RowSize,    \* positions a row keeps
          RowGap,     \* 384: of a longer gap a row search remembers
          RowHead,    \* 96: only so many positions at its beginning
          RowTail,    \* 32: and so many at its end
          SkipStep,   \* 8: a wider step leaves the gap out altogether
          LdmMin,     \* min_match of the long-distance matches
          LdmStep,    \* 1 << hash_rate_log
          LdmBuckets  \* 1 << hash_log of theirs

ASSUME SearchAssumption ==
  /\ Window \in Nat \ {0} /\ BlockMax \in 1..Window /\ BlockLens \subseteq 1..BlockMax
  /\ SlideAt \in Nat /\ SlideAt >= 2 * Window
  /\ Margin \in Nat /\ MinMatch \in 1..Margin /\ RepMin \in 1..(Margin - 1)
  /\ Depth \in 0..(MinMatch - 1) /\ Attempts \in Nat
  /\ NarrowMatch \in Nat
  /\ {Buckets, ChainSize, StepLength, RowSize} \subseteq Nat \ {0}
  /\ RowGap \in Nat /\ SkipStep \in Nat /\ RowHead + RowTail <= RowGap
  /\ {LdmMin, LdmStep, LdmBuckets} \subseteq Nat \ {0}

\* What only primes is the history of a one-shot call (a job of a multi-threaded
\* compression); no dictionary has a repeat offset of 0.
ASSUME InputAssumption ==
  /\ \A p \in Payloads : p \in Seq(Nat)
  /\ \A c \in Settings :
       /\ c.finder \in {"fast", "dfast", "greedy", "lazy", "rows", "tree", "optimal"}
       /\ c.history \in Seq(Nat) /\ c.reps \in [1..3 -> Nat \ {0}]
       /\ {c.prime_only, c.ldm, c.stream} \subseteq BOOLEAN
       /\ c.prime_only => ~c.stream

VARIABLES call,     \* the setting of this frame
          data,     \* its history, then its content
          dropped,  \* bytes of data no longer in the workspace
          off,      \* where the next block begins; like every position below
                    \* counted from the beginning of the workspace
          reps,     \* the repeat offsets, as of the last block
          tables,   \* head: of each bucket the last position; chain: of each position
                    \* the one before it in its bucket, in a ring; long: as head, for
                    \* the hash of more bytes; rows: of each bucket the last few
                    \* positions; ntu: the first a row search has not seen (row_ntu);
                    \* wide: whether the chain finders' key is (chain_wide)
          ldm,      \* of each bucket the last position sampled
          pc,
          block,    \* from, to, the offsets to try; its sequences and literals so far
          hits,     \* the set of the long-distance matches not yet used
          pos,      \* how far the block is covered, or looked through for such matches
          piece     \* the piece being searched

searchVars == <<call, data, dropped, off, reps, tables, ldm, pc, block, hits, pos, piece>>

Above(a, b) == IF a > b THEN a - b ELSE 0     \* saturating_sub
Lower(a, b) == IF a < b THEN a ELSE b
Upper(a, b) == IF a < b THEN b ELSE a

None == -1
At(p) == data[dropped + p + 1]
End == Len(data) - dropped
Slice(from, to) == SubSeq(data, dropped + from + 1, dropped + to)
Positions(from, to) == [k \in 1..(to - from + 1) |-> from + k - 1]

\* Where the content begins, and how far back prime_only lets anything reach.
PayloadAt == Len(call.history) - dropped
FrameStart == IF call.prime_only THEN PayloadAt ELSE 0

(***************************************************************************)
(* Comparing and hashing.                                                  *)
(***************************************************************************)
Equal(m, ip, n) == \A k \in 0..(n - 1) : At(m + k) = At(ip + k)

\* count_match: how many bytes agree, up to the end given.
MatchLength(m, ip, end) ==
  CHOOSE n \in 0..(end - ip) : Equal(m, ip, n) /\ (ip + n < end => At(m + n) # At(ip + n))

\* A hash of the n bytes at p; unlike bytes may share a bucket.
Hash(p, n, buckets) ==
  FoldLeft(LAMBDA h, q : (2 * h + At(q)) % buckets, 0, Positions(p, p + n - 1))

\* put_h: a position enters its bucket, as far as a search may begin there.
PutShort(t, p, limit) ==
  IF p <= limit THEN [t EXCEPT !.head[Hash(p, MinMatch, Buckets)] = p] ELSE t

\* RowTable.put: a row forgets its oldest position.
RowInsert(t, p) ==
  [t EXCEPT !.rows[Hash(p, MinMatch, Buckets)] =
     SubSeq(<<p>> \o @, 1, Lower(RowSize, Len(@) + 1))]

Cleared ==
  [head |-> [h \in 0..(Buckets - 1) |-> None], chain |-> [c \in 0..(ChainSize - 1) |-> 0],
   long |-> [h \in 0..(Buckets - 1) |-> None], rows |-> [h \in 0..(Buckets - 1) |-> <<>>],
   ntu |-> None, wide |-> FALSE]

(***************************************************************************)
(* The piece, and what is found in it.                                     *)
(***************************************************************************)
\* finder: who searches it; rep1, rep2: offsets to repeat; pick: the match in hand;
\* edges: the steps find_opt may take; way: the matches of those it took.
NoPick == [start |-> 0, len |-> 0, off |-> 0]
NoPiece == [finder |-> "", to |-> 0, ip |-> 0, anchor |-> 0, lowest |-> 0, lowest1 |-> 0,
            rep1 |-> 0, rep2 |-> 0, use_rep |-> FALSE, walk_on |-> FALSE, skipping |-> FALSE,
            pick |-> NoPick, edges |-> {}, way |-> <<>>,
            seqs |-> <<>>, lits |-> <<>>]

Searching == pc = "search" /\ piece.ip <= Above(piece.to, Margin)

\* The literals since the last sequence, and a match of len bytes at start.
Emit(start, len, offset) ==
  [piece EXCEPT !.seqs = Append(@, [lit |-> start - piece.anchor, len |-> len, off |-> offset]),
                !.lits = @ \o Slice(piece.anchor, start)]

\* try_rep1: the repeat offset one byte further on.
RepLength ==
  LET at == piece.ip + 1
  IN IF piece.use_rep /\ piece.rep1 # 0 /\ at - piece.rep1 >= piece.lowest
     THEN MatchLength(at - piece.rep1, at, piece.to) ELSE 0

RepTaken ==
  LET start == piece.ip + 1  end == start + RepLength
  IN [Emit(start, RepLength, piece.rep1) EXCEPT !.ip = end, !.anchor = end]

RepMatch ==
  /\ Searching /\ piece.finder \in {"greedy", "lazy", "dfast", "tree"} /\ RepLength >= RepMin
  /\ piece' = RepTaken
  /\ UNCHANGED <<call, data, dropped, off, reps, tables, ldm, pc, block, hits, pos>>

\* Mutant: a window before the block, not before the position.
Low_mut(ip) == piece.lowest
\* The furthest back a match may begin.
Low(ip) == IF ip >= piece.lowest + Window THEN ip - Window ELSE piece.lowest

\* How far a match can be drawn back over bytes that agree.
Back(s, m, floor) ==
  LET most == Lower(s - piece.anchor, m - floor)
  IN CHOOSE n \in 0..most : /\ \A k \in 0..(n - 1) : At(m - 1 - k) = At(s - 1 - k)
                            /\ n < most => At(m - 1 - n) # At(s - 1 - n)

\* The match is drawn back and taken, and the search goes on behind it.
Limit == piece.to - Margin
Taken(ip, best) ==
  LET back == Back(ip, best.at, FrameStart)
  IN [Emit(ip - back, best.len + back, ip - best.at) EXCEPT
        !.rep1 = ip - best.at, !.ip = ip + best.len, !.anchor = ip + best.len]

\* Nothing found: on by a step that grows with the literals.
Onward(step) == [piece EXCEPT !.ip = @ + (piece.ip - piece.anchor) \div StepLength + step]

\* match_ok: what the decoder may be sent to from p.
MatchOk(m, p) ==
  m \in piece.lowest..(p - 1) /\ p - m <= Window /\ Equal(m, p, MinMatch)
LengthAt(m, p) == IF MatchOk(m, p) THEN MatchLength(m, p, piece.to) ELSE 0

\* Of the positions looked at for p, in order, the first of those from `low` on that
\* have the longest match, if it is long enough: one position or none.
Longest(looked, p, low) ==
  LET n(i) == MatchLength(looked[i], p, piece.to)
      good == {i \in DOMAIN looked : looked[i] \in low..(p - 1) /\ n(i) >= MinMatch}
      first == {i \in good : \A j \in good : n(j) < n(i) \/ (n(j) = n(i) /\ i <= j)}
  IN {[at |-> looked[i], len |-> n(i)] : i \in first}
=============================================================================
