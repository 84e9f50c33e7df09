-------------------------- MODULE SequencesSection --------------------------
(***************************************************************************)
(* The sequences section of a compressed block, down to its bits.  The     *)
(* encoder (write_sequences_inner in encode/block.rs) codes each sequence  *)
(* as three codes and their extra bits, picks a table for each kind of     *)
(* code, and writes the codes under three states; the decoder              *)
(* (decode_seq_header, decode_sequences_inner in compressed.rs) reads them *)
(* back.  A sequence comes with its offset value: RepCodes is about those. *)
(***************************************************************************)
EXTENDS FseTables

CONSTANT FewSeqs  \* 8: below this many sequences no table is built of their own

Kinds == {"ll", "of", "ml"}

LOCAL Each(Of(_)) == [ll |-> Of("ll"), of |-> Of("of"), ml |-> Of("ml")]

-----------------------------------------------------------------------------
(* The tables of the format (compressed.rs, fse.rs).                        *)

LLBase == <<0, 1, 2, 3, 4, 5, 6, 7, 8, 9, 10, 11, 12, 13, 14, 15, 16, 18, 20, 22, 24, 28, 32, 40,
            48, 64, 128, 256, 512, 1024, 2048, 4096, 8192, 16384, 32768, 65536>>
LLBits == <<0, 0, 0, 0, 0, 0, 0, 0, 0, 0, 0, 0, 0, 0, 0, 0, 1, 1, 1, 1, 2, 2, 3, 3,
            4, 6, 7, 8, 9, 10, 11, 12, 13, 14, 15, 16>>
MLBase == <<3, 4, 5, 6, 7, 8, 9, 10, 11, 12, 13, 14, 15, 16, 17, 18, 19, 20, 21, 22, 23, 24, 25,
            26, 27, 28, 29, 30, 31, 32, 33, 34, 35, 37, 39, 41, 43, 47, 51, 59, 67, 83, 99, 131,
            259, 515, 1027, 2051, 4099, 8195, 16387, 32771, 65539>>
MLBits == <<0, 0, 0, 0, 0, 0, 0, 0, 0, 0, 0, 0, 0, 0, 0, 0, 0, 0, 0, 0, 0, 0, 0, 0, 0, 0, 0, 0,
            0, 0, 0, 0, 1, 1, 1, 1, 2, 2, 3, 3, 4, 4, 5, 7, 8, 9, 10, 11, 12, 13, 14, 15, 16>>

LOCAL FromZero(seq) == [s \in 0..(Len(seq) - 1) |-> seq[s + 1]]
LOCAL Times(n, p) == [i \in 1..n |-> p]

DefaultNorm ==
    [ll |-> FromZero(<<4, 3>> \o Times(11, 2) \o Times(3, 1) \o Times(9, 2) \o <<3, 2>>
                       \o Times(5, 1) \o Times(4, -1)),
     of |-> FromZero(Times(6, 1) \o Times(3, 2) \o Times(15, 1) \o Times(5, -1)),
     ml |-> FromZero(<<1, 4, 3>> \o Times(6, 2) \o Times(37, 1) \o Times(7, -1))]
DefaultLog == [ll |-> 6, of |-> 5, ml |-> 6]

MaxCode == [ll |-> 35, of |-> 31, ml |-> 52]
TableLog == [ll |-> 9, of |-> 8, ml |-> 9]

\* What each side holds of a table, made from its norm or for a single code.
DecoderTable(norm, log) == [log |-> log, slots |-> DecodeTable(norm, log)]

EncoderRle(s) == [log |-> 0, states |-> <<0>>,
                  delta |-> [x \in {s} |-> [max_bits |-> 0, min_state |-> 1, find |-> -1]]]
DecoderRle(s) == [log |-> 0, slots |-> [x \in {0} |-> [symbol |-> s, num_bits |-> 0, baseline |-> 0]]]

PredefinedEncoder == Each(LAMBDA k : EncodeTable(DefaultNorm[k], DefaultLog[k]))
PredefinedDecoder == Each(LAMBDA k : DecoderTable(DefaultNorm[k], DefaultLog[k]))

-----------------------------------------------------------------------------
(* build_coded_pass: codes and extra bits.  Those of one sequence are        *)
(* written as one field, the literal length's lowest.                       *)

\* code_from_base, for a length from base[1] on.
LengthCode(base, bits, len) ==
    LET c == Max({i \in DOMAIN base : base[i] <= len})
    IN [code |-> c - 1, extra |-> Field(len - base[c], bits[c])]

\* of_code_nb.
OffsetCode(ov) == [code |-> HighBit(ov), extra |-> Field(ov, HighBit(ov))]

CodedSeq(s) ==
    LET ll == LengthCode(LLBase, LLBits, s.litlen)
        ml == LengthCode(MLBase, MLBits, s.matchlen)
        of == OffsetCode(s.ov)
    IN [ll |-> ll.code, of |-> of.code, ml |-> ml.code, ex |-> ll.extra \o ml.extra \o of.extra]

Counts(coded, k) ==
    FoldLeft(LAMBDA n, c : [n EXCEPT ![c[k]] = @ + 1], [c \in 0..MaxCode[k] |-> 0], coded)

-----------------------------------------------------------------------------
(* select_seq_table.                                                        *)

Illegal == 2^30  \* u64::MAX / 4: a table that lacks a code

LOCAL Used(count) == {c \in DOMAIN count : count[c] > 0}

\* bit_cost.
BitCost(table, count) ==
    IF ~(Used(count) \subseteq DOMAIN table.delta) THEN Illegal
    ELSE IF table.log = 0 THEN 0
    ELSE MapThenSumSet(LAMBDA c : count[c] * Max({1, table.delta[c].max_bits}), Used(count))

\* The cheapest of the predefined table, the one of before and one of its own.
\* `force` asks for one of its own where the predefined table lacks a code.
\* Where force meets FewSeqs or more sequences, or no table of before, the code
\* has a table for every code; what is written for a code that the table picked
\* lacks is not modelled (BlockCodec knows of that case).
Kept(count, prev, basic) ==
    IF prev # NoTable /\ BitCost(prev, count) <= BitCost(basic, count)
    THEN [mode |-> 3, table |-> prev, header |-> <<>>]
    ELSE [mode |-> 0, table |-> basic, header |-> <<>>]

OwnTable(made) ==
    [mode |-> 2, table |-> EncodeTable(made.norm, made.log), header |-> made.header]

Cheapest(count, best, own, force) ==
    LET total == MapThenSumSet(LAMBDA c : count[c], Used(count))
        cheaper == BitCost(own.table, count) + Len(own.header) < BitCost(best.table, count)
    IN IF force /\ best.mode # 3 THEN own
       ELSE IF own # Corrupt /\ total >= FewSeqs /\ (force \/ cheaper) THEN own
       ELSE best

SelectSeqTable(count, k, prev, use_low, force, last_sym) ==
    LET low_prob == IF use_low THEN -1 ELSE 1
        made == NCountAndNorm(Without(count, last_sym), TableLog[k], low_prob)
    IN IF Cardinality(Used(count)) = 1
       THEN [mode |-> 1, table |-> EncoderRle(last_sym), header |-> Field(last_sym, 8)]
       ELSE Cheapest(count, Kept(count, prev, PredefinedEncoder[k]), Then(made, OwnTable), force)

-----------------------------------------------------------------------------
(* encode_seq_bits.  From the last sequence to the first; of the last only   *)
(* the first states and the extra bits.                                     *)

EncodeSeqBits(coded, t) ==
    LET last == coded[Len(coded)]
        out(w, c, k) == Field(w.state[k], BitsOut(t[k], w.state[k], c[k]))
        step(c, w) == [state |-> Each(LAMBDA k : NextState(t[k], w.state[k], c[k])),
                       bits |-> w.bits \o out(w, c, "of") \o out(w, c, "ml") \o out(w, c, "ll")
                                       \o c.ex]
        end == FoldRight(step, SubSeq(coded, 1, Len(coded) - 1),
                         [state |-> Each(LAMBDA k : InitState(t[k], last[k])), bits |-> last.ex])
        flush(k) == Field(end.state[k], t[k].log)
    IN Close(end.bits \o flush("ml") \o flush("of") \o flush("ll"))

WriteNSeq(n) ==
    IF n < 128 THEN Field(n, 8)
    ELSE IF n < 32512 THEN Field((n \div 256) + 128, 8) \o Field(n, 8)
    ELSE Field(255, 8) \o Field(n - 32512, 16)

\* The table kept for the next block: also the predefined one, for which nothing
\* is sent.
KeptTable_mut(picked, prev) == IF picked.mode = 0 THEN prev ELSE picked.table

KeptTable(picked, prev) == IF picked.mode = 3 THEN prev ELSE picked.table

\* write_sequences_inner, up to the tables and from there.
PickTables(coded, prev, use_low) ==
    Each(LAMBDA k :
      LET count == Counts(coded, k)
          needs_own == k = "of" /\ Max(Used(count)) >= Cardinality(DOMAIN DefaultNorm.of)
      IN SelectSeqTable(count, k, prev[k], use_low, needs_own, coded[Len(coded)][k]))

WriteWith(picked, coded, prev) ==
    IF \E k \in Kinds : picked[k] = Corrupt THEN Corrupt
    ELSE [bits |-> WriteNSeq(Len(coded))
                     \o Field(0, 2) \o Field(picked["ml"].mode, 2)
                     \o Field(picked["of"].mode, 2) \o Field(picked["ll"].mode, 2)
                     \o picked["ll"].header \o picked["of"].header \o picked["ml"].header
                     \o EncodeSeqBits(coded, Each(LAMBDA k : picked[k].table)),
          tables |-> Each(LAMBDA k : KeptTable(picked[k], prev[k]))]

WriteCoded(coded, prev, use_low) == WriteWith(PickTables(coded, prev, use_low), coded, prev)

WriteSequences(seqs, prev, use_low) ==
    IF seqs = <<>> THEN [bits |-> WriteNSeq(0), tables |-> prev]
    ELSE WriteCoded([i \in DOMAIN seqs |-> CodedSeq(seqs[i])], prev, use_low)

-----------------------------------------------------------------------------
(* The decoder.                                                             *)

LOCAL From(src, bytes) == SubSeq(src, 8 * bytes + 1, Len(src))
LOCAL ByteAt(src, i) == Number(SubSeq(src, 8 * i + 1, 8 * i + 8))

ParseNSeq(src) ==
    LET b == ByteAt(src, 0)
    IN IF b < 128 THEN [n |-> b, bytes |-> 1]
       ELSE IF b < 255 THEN [n |-> (b - 128) * 256 + ByteAt(src, 1), bytes |-> 2]
       ELSE [n |-> ByteAt(src, 1) + 256 * ByteAt(src, 2) + 32512, bytes |-> 3]

\* seq_table.
SeqTable(src, mode, k, prev) ==
    CASE mode = 0 -> [table |-> PredefinedDecoder[k], bytes |-> 0]
      [] mode = 1 -> IF src = <<>> THEN Corrupt
                     ELSE IF ByteAt(src, 0) > MaxCode[k] THEN Corrupt
                     ELSE [table |-> DecoderRle(ByteAt(src, 0)), bytes |-> 1]
      [] mode = 2 -> Then(ParseNCount(src, MaxCode[k], TableLog[k]), LAMBDA read :
                       [table |-> DecoderTable(read.norm, read.log), bytes |-> read.bytes])
      [] mode = 3 -> IF prev = NoTable THEN Corrupt ELSE [table |-> prev, bytes |-> 0]

\* The loop of decode_sequences_inner: offset bits, match length bits, literal
\* length bits; then, but for the last, the states of ll, ml and of.
RECURSIVE DecodeSeqs(_, _, _, _, _)
DecodeSeqs(t, state, bits, n, out) ==
    LET e == Each(LAMBDA k : t[k].slots[state[k]])
        of_bits == e["of"].symbol
        ml_bits == MLBits[e["ml"].symbol + 1]
        ll_bits == LLBits[e["ll"].symbol + 1]
        b1 == Skip(bits, of_bits)
        b2 == Skip(b1, ml_bits)
        b3 == Skip(b2, ll_bits)
        seq == [litlen |-> LLBase[e["ll"].symbol + 1] + Look(b2, ll_bits),
                matchlen |-> MLBase[e["ml"].symbol + 1] + Look(b1, ml_bits),
                ov |-> 2^of_bits + Look(bits, of_bits)]
        b4 == Skip(b3, e["ll"].num_bits)
        b5 == Skip(b4, e["ml"].num_bits)
        next == [ll |-> e["ll"].baseline + Look(b3, e["ll"].num_bits),
                 ml |-> e["ml"].baseline + Look(b4, e["ml"].num_bits),
                 of |-> e["of"].baseline + Look(b5, e["of"].num_bits)]
    IN IF bits = Corrupt THEN Corrupt
       ELSE IF n = 0 THEN IF FinishedExactly(bits) THEN out ELSE Corrupt
       ELSE IF b3 = Corrupt THEN Corrupt
       ELSE IF n = 1 THEN DecodeSeqs(t, state, b3, 0, Append(out, seq))
       ELSE IF Skip(b5, e["of"].num_bits) = Corrupt THEN Corrupt
       ELSE DecodeSeqs(t, next, Skip(b5, e["of"].num_bits), n - 1, Append(out, seq))

\* decode_seq_header: the tables, and where the bits begin.
SeqTables(src, at, modes, prev) ==
    Then(SeqTable(From(src, at), modes \div 64, "ll", prev["ll"]), LAMBDA ll :
    Then(SeqTable(From(src, at + ll.bytes), (modes \div 16) % 4, "of", prev["of"]), LAMBDA of :
    Then(SeqTable(From(src, at + ll.bytes + of.bytes), (modes \div 4) % 4, "ml", prev["ml"]),
         LAMBDA ml :
      [tables |-> [ll |-> ll.table, of |-> of.table, ml |-> ml.table],
       at |-> at + ll.bytes + of.bytes + ml.bytes])))

DecodeFrom(bits, t, n) ==
    LET b1 == Skip(bits, t["ll"].log)
        b2 == Skip(b1, t["of"].log)
        first == [ll |-> Look(bits, t["ll"].log), of |-> Look(b1, t["of"].log),
                  ml |-> Look(b2, t["ml"].log)]
    IN Then(Skip(b2, t["ml"].log), LAMBDA rest : DecodeSeqs(t, first, rest, n, <<>>))

DecodeSequences(src, prev) ==
    LET nseq == ParseNSeq(src)
        modes == ByteAt(src, nseq.bytes)
    IN IF nseq.n = 0 THEN [seqs |-> <<>>, tables |-> prev]
       ELSE IF modes % 4 # 0 THEN Corrupt
       ELSE Then(SeqTables(src, nseq.bytes + 1, modes, prev), LAMBDA h :
            Then(Opened(From(src, h.at)), LAMBDA bits :
            Then(DecodeFrom(bits, h.tables, nseq.n), LAMBDA seqs :
              [seqs |-> seqs, tables |-> h.tables])))

-----------------------------------------------------------------------------
(* What a run of sections must do.                                          *)

NoTables == Each(LAMBDA k : NoTable)

\* Each section the encoder does not give up is decoded to its sequences, from
\* the tables the sections before it left on the other side.
RECURSIVE SequencesReadBack(_, _, _, _)
SequencesReadBack(blocks, use_low, prev, held) ==
    blocks # <<>> =>
      \A section \in {WriteSequences(Head(blocks), prev, use_low)} :
      \A decoded \in {Then(section, LAMBDA s : DecodeSequences(s.bits, held))} :
         /\ decoded # Corrupt
         /\ decoded.seqs = Head(blocks)
         /\ SequencesReadBack(Tail(blocks), use_low, section.tables, decoded.tables)

NSeqReadsBack(n) ==
    LET written == WriteNSeq(n) IN ParseNSeq(written) = [n |-> n, bytes |-> ByteLen(written)]
=============================================================================
