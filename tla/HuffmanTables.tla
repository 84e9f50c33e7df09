---------------------------- MODULE HuffmanTables ----------------------------
(***************************************************************************)
(* Huffman coding of literals (huffman.rs).  The encoder gives each symbol *)
(* a code length, hands over the lengths as weights, all but the last, and *)
(* both sides build one table from the weights.  The decoder has a table   *)
(* of single symbols, X1, and one of pairs, X2, which it may build later.  *)
(***************************************************************************)
EXTENDS FseTables

CONSTANTS
    MaxBits,     \* 11: the longest code
    FastLog,     \* 11: the log a table is widened to before X2 is built
    MaxDirect    \* 128: the most weights the direct form of a tree holds

ASSUME BitsOrdered == MaxBits \in Nat \ {0} /\ FastLog \in Nat /\ FastLog >= MaxBits

Coded(f) == {s \in DOMAIN f : f[s] > 0}

\* The symbols of a set, in order of what Before says.
LOCAL Ordered(set, Before(_, _)) ==
    [k \in 1..Cardinality(set) |->
        CHOOSE s \in set : Cardinality({x \in set : Before(x, s)}) = k - 1]

-----------------------------------------------------------------------------
(* huffman_nbits: the two-queue merge.  Leaves wait in order of count, the   *)
(* merged nodes in order of creation, and the leaf goes first on a tie.     *)

Leaves(freq) ==
    [k \in 1..Cardinality(Coded(freq)) |->
        LET s == Ordered(Coded(freq), LAMBDA x, y : freq[x] < freq[y] \/ (freq[x] = freq[y] /\ x < y))[k]
        IN [count |-> freq[s], symbols |-> {s}]]

PopMin(q) ==
    IF q.leaves # <<>> /\ (q.internal = <<>> \/ q.leaves[1].count <= q.internal[1].count)
    THEN [node |-> q.leaves[1], queues |-> [q EXCEPT !.leaves = Tail(@)]]
    ELSE [node |-> q.internal[1], queues |-> [q EXCEPT !.internal = Tail(@)]]

\* A symbol's depth is the number of merges above it.
RECURSIVE Merge(_)
Merge(q) ==
    LET a == PopMin(q)
        b == PopMin(a.queues)
        both == a.node.symbols \cup b.node.symbols
    IN IF Len(q.leaves) + Len(q.internal) <= 1 THEN q.depth
       ELSE Merge([b.queues EXCEPT
                     !.internal = Append(@, [count |-> a.node.count + b.node.count, symbols |-> both]),
                     !.depth = [s \in DOMAIN @ |-> IF s \in both THEN @[s] + 1 ELSE @[s]]])

\* limit_nbits: what the code lengths take of the code space, and the two loops
\* that repair it.  Each takes the lowest symbol of the shortest, or longest.
Kraft(nbits) == MapThenSumSet(LAMBDA s : 2^(MaxBits - nbits[s]), Coded(nbits))

RECURSIVE LengthenShortest(_)
LengthenShortest(nbits) ==
    LET some == {s \in Coded(nbits) : nbits[s] < MaxBits}
        s == Ordered(some, LAMBDA x, y : nbits[x] < nbits[y] \/ (nbits[x] = nbits[y] /\ x < y))[1]
    IN IF Kraft(nbits) <= 2^MaxBits \/ some = {} THEN nbits
       ELSE LengthenShortest([nbits EXCEPT ![s] = @ + 1])

RECURSIVE ShortenLongest(_)
ShortenLongest(nbits) ==
    LET some == {s \in Coded(nbits) : nbits[s] > 1}
        s == Ordered(some, LAMBDA x, y : nbits[x] > nbits[y] \/ (nbits[x] = nbits[y] /\ x < y))[1]
    IN IF Kraft(nbits) >= 2^MaxBits \/ some = {} THEN nbits
       ELSE ShortenLongest([nbits EXCEPT ![s] = @ - 1])

LimitNbits(nbits) ==
    ShortenLongest(LengthenShortest([s \in DOMAIN nbits |-> Min({nbits[s], MaxBits})]))

HuffmanNbits(freq) ==
    LET none == [s \in DOMAIN freq |-> 0]
        queues == [leaves |-> Leaves(freq), internal |-> <<>>, depth |-> none]
    IN IF Cardinality(Coded(freq)) < 2 THEN Corrupt
       ELSE IF Cardinality(Coded(freq)) = 2 THEN Merge(queues)
       ELSE LimitNbits(Merge(queues))

-----------------------------------------------------------------------------
(* The table both sides build.  A weight is one more than the code's share   *)
(* of the bits not spent; the last is what completes a power of two.        *)

LastWeight(ws) ==
    LET total == FoldLeft(LAMBDA n, w : n + (2^w) \div 2, 0, ws)
        log == HighBit(total) + 1
        rest == 2^log - total
    IN IF total = 0 \/ log > MaxBits \/ (\A k \in 0..log : rest # 2^k) THEN Corrupt
       ELSE [weight |-> HighBit(rest) + 1, log |-> log]

\* table_from_weights, before it is widened.  Slots in order of weight.
TableFromWeights(ws) ==
    LET last == LastWeight(ws)
        all == Append(ws, last.weight)
        ones == Cardinality({i \in DOMAIN all : all[i] = 1})
        weighty == {i \in DOMAIN all : all[i] > 0}
        order == Ordered(weighty, LAMBDA i, j : all[i] < all[j] \/ (all[i] = all[j] /\ i < j))
        slots(i) == [k \in 1..(2^(all[i] - 1)) |->
                       [symbol |-> i - 1, nbits |-> last.log + 1 - all[i]]]
    IN IF ws = <<>> \/ (\E i \in DOMAIN ws : ws[i] > MaxBits) THEN Corrupt
       ELSE IF last = Corrupt THEN Corrupt
       ELSE IF ones < 2 \/ ones % 2 # 0 THEN Corrupt
       ELSE [table |-> FlattenSeq([k \in DOMAIN order |-> slots(order[k])]),
             x2 |-> <<>>, max_bits |-> last.log]

\* upsample_dtable: a slot for every value of FastLog bits.
UpsampleDtable(t) ==
    [t EXCEPT !.max_bits = FastLog,
              !.table = [i \in 1..(2^FastLog) |-> t.table[((i - 1) \div 2^(FastLog - t.max_bits)) + 1]]]

\* x2_from_x1_into: a second symbol where the bits left over decide one.
X2FromX1(t) ==
    LET min_nbits == Min({t.table[i].nbits : i \in DOMAIN t.table})
        entry(val) ==
          LET e1 == t.table[val + 1]
              leftover == t.max_bits - e1.nbits
              e2 == t.table[(val % 2^leftover) * 2^e1.nbits + 1]
          IN IF leftover < min_nbits \/ e2.nbits > leftover
             THEN [symbols |-> <<e1.symbol>>, nbits |-> e1.nbits]
             ELSE [symbols |-> <<e1.symbol, e2.symbol>>, nbits |-> e1.nbits + e2.nbits]
    IN [i \in DOMAIN t.table |-> entry(i - 1)]

\* ensure_x2.  A table that has its X2 keeps it.
EnsureX2(t) ==
    LET wide == UpsampleDtable(t)
    IN IF t.x2 # <<>> /\ Len(t.x2) = Len(t.table) THEN t
       ELSE [wide EXCEPT !.x2 = X2FromX1(wide)]

-----------------------------------------------------------------------------
(* ctable_from_nbits: weights for all symbols but the last, and the codes    *)
(* read off the table they make.                                            *)

CodeOf(t, s) ==
    LET first == Min({i \in DOMAIN t.table : t.table[i].symbol = s})
        nbits == t.table[first].nbits
    IN [nbits |-> nbits, code |-> (first - 1) \div 2^(t.max_bits - nbits)]

CtableFromNbits(nbits) ==
    LET max_symbol == Max(Coded(nbits))
        huff_log == Max({nbits[s] : s \in DOMAIN nbits})
        weights == [i \in 1..max_symbol |->
                      IF nbits[i - 1] = 0 THEN 0 ELSE huff_log + 1 - nbits[i - 1]]
    IN IF Coded(nbits) = {} \/ max_symbol = 0 THEN Corrupt
       ELSE Then(TableFromWeights(weights), LAMBDA t :
              [weights |-> weights,
               entry |-> [s \in {t.table[i].symbol : i \in DOMAIN t.table} |-> CodeOf(t, s)]])

BuildCtable(freq) == Then(HuffmanNbits(freq), CtableFromNbits)

\* encode_rev_append: from the last symbol to the first.
EncodeStream(ct, src) ==
    Close(FoldRight(LAMBDA s, bits : bits \o Field(ct.entry[s].code, ct.entry[s].nbits), src, <<>>))

-----------------------------------------------------------------------------
(* The tree: a byte, then the weights as they are, two in a byte, or through *)
(* an entropy table when that is shorter and reads back.                    *)

\* write_tree_raw.
DirectTree(ws) ==
    LET nibble(i) == IF i > Len(ws) THEN Field(0, 4) ELSE Field(ws[i], 4)
    IN IF Len(ws) \notin 1..MaxDirect THEN Corrupt
       ELSE Field(127 + Len(ws), 8)
              \o FlattenSeq([k \in 1..((Len(ws) + 1) \div 2) |-> nibble(2 * k) \o nibble(2 * k - 1)])

\* decompress_weights_into.
DecompressWeights(src) ==
    Then(ParseNCount(src, 255, WeightLog), LAMBDA n :
      LET payload == SubSeq(src, 8 * n.bytes + 1, Len(src))
      IN IF payload = <<>> THEN Corrupt
         ELSE DecodeWeights(DecodeTable(n.norm, n.log), n.log, payload, 255))

\* write_tree_fse, and the check of write_tree that it reads back.
FseTree(ws) ==
    Then(WriteWeights(ws), LAMBDA w :
      LET bits == w.header \o w.payload
      IN IF ByteLen(bits) >= 128 \/ DecompressWeights(bits) # ws THEN Corrupt
         ELSE Field(ByteLen(bits), 8) \o bits)

Shorter(raw, fse) ==
    IF fse = Corrupt THEN raw
    ELSE IF raw = Corrupt THEN fse
    ELSE IF Len(fse) < Len(raw) THEN fse ELSE raw

WriteTree(ws) == Shorter(DirectTree(ws), FseTree(ws))

\* read_weights: the weights, and the bytes the tree took.
ReadWeights(src) ==
    LET header == Number(SubSeq(src, 1, 8))
        count == header - 127
        bytes == IF header >= 128 THEN 1 + ((count + 1) \div 2) ELSE 1 + header
        weight(i) == LET at == 8 + 8 * ((i - 1) \div 2) + (IF i % 2 = 1 THEN 4 ELSE 0)
                     IN Number(SubSeq(src, at + 1, at + 4))
    IN IF src = <<>> \/ header = 0 \/ 8 * bytes > Len(src) THEN Corrupt
       ELSE Then(IF header >= 128 THEN [i \in 1..count |-> weight(i)]
                 ELSE DecompressWeights(SubSeq(src, 9, 8 * bytes)),
                 LAMBDA weights : [weights |-> weights, bytes |-> bytes])

ReadTable(src, want_x2) ==
    Then(ReadWeights(src), LAMBDA read :
      Then(TableFromWeights(read.weights), LAMBDA t :
        [table |-> IF want_x2 THEN EnsureX2(t) ELSE t, bytes |-> read.bytes]))

-----------------------------------------------------------------------------
(* Decoding.  Both loops end with the check that the stream is spent.       *)

RECURSIVE DecodeIntoX1(_, _, _, _)
DecodeIntoX1(t, bits, out, n) ==
    LET e == t.table[Look(bits, t.max_bits) + 1]
    IN IF bits = Corrupt THEN Corrupt
       ELSE IF Len(out) = n THEN IF FinishedExactly(bits) THEN out ELSE Corrupt
       ELSE DecodeIntoX1(t, Skip(bits, e.nbits), Append(out, e.symbol), n)

\* A pair may not run past the end: the last byte comes from X1.
RECURSIVE DecodeIntoX2(_, _, _, _)
DecodeIntoX2(t, bits, out, n) ==
    LET e == t.x2[Look(bits, t.max_bits) + 1]
    IN IF bits = Corrupt THEN Corrupt
       ELSE IF Len(out) + 2 > n THEN DecodeIntoX1(t, bits, out, n)
       ELSE DecodeIntoX2(t, Skip(bits, e.nbits), out \o e.symbols, n)

-----------------------------------------------------------------------------
(* What the tables must do for each other.                                  *)

\* Code lengths fill the code space: a table built from them has no hole.
LengthsComplete(freq) ==
    LET nbits == HuffmanNbits(freq)
    IN Cardinality(Coded(freq)) >= 2 =>
         /\ Coded(nbits) = Coded(freq) /\ Kraft(nbits) = 2^MaxBits
         /\ \A s \in Coded(nbits) : nbits[s] <= MaxBits

TableInverts(t, bits, src) ==
    /\ DecodeIntoX1(t, bits, <<>>, Len(src)) = src
    /\ DecodeIntoX2(EnsureX2(t), bits, <<>>, Len(src)) = src
    /\ DecodeIntoX1(EnsureX2(t), bits, <<>>, Len(src)) = src

\* The tree, when one can be written, tells the decoder a table with the code
\* lengths the encoder chose, and that table decodes a stream alone or widened
\* and in pairs.
HuffmanInverts(freq, src) ==
    LET nbits == HuffmanNbits(freq) IN
    \A ct \in {CtableFromNbits(nbits)} :
      /\ \A s \in Coded(freq) : ct.entry[s].nbits = nbits[s]
      /\ \A tree \in {WriteTree(ct.weights)} \ {Corrupt} :
           TableInverts(ReadTable(tree, FALSE).table, Opened(EncodeStream(ct, src)), src)
=============================================================================
