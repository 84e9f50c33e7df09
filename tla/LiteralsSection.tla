--------------------------- MODULE LiteralsSection ---------------------------
(***************************************************************************)
(* The literals section of a compressed block.  The encoder                *)
(* (encode_literals_section_into in huffman.rs) takes the shortest of raw, *)
(* run-length, Huffman with the table of an earlier block and Huffman with *)
(* a table of its own; the decoder (decode_literals in compressed.rs) reads*)
(* it back.  Each side keeps a table for the blocks to come.               *)
(***************************************************************************)
EXTENDS HuffmanTables

CONSTANTS
    LitTiny,      \* 8: below this many literals no Huffman code is tried
    LitWorth,     \* 64: from here on a look at the literals comes first
    LitFour,      \* 256: from here on there are four streams
    RawShort, RawMiddle, RawLong,     \* 5, 12, 20: bits of a raw size
    HuffShort, HuffMiddle, HuffLong,  \* 10, 14, 18: bits of each Huffman size
    X2MinDst,     \* 256: below this a section is never decoded in pairs
    X2BuildMin    \* 4096: below this the table of pairs is not built for it

LitTypes == [raw |-> 0, rle |-> 1, huff |-> 2, treeless |-> 3]

-----------------------------------------------------------------------------
(* Headers.  Two bits of type, two of format (one for the shortest raw), and *)
(* one or two sizes.                                                        *)

RawHeader(type, n) ==
    IF n < 2^RawShort THEN Padded(Field(type, 2) \o <<0>> \o Field(n, RawShort))
    ELSE IF n < 2^RawMiddle THEN Padded(Field(type, 2) \o Field(1, 2) \o Field(n, RawMiddle))
    ELSE Padded(Field(type, 2) \o Field(3, 2) \o Field(n, RawLong))

\* lit_huff_header_bytes.
HuffHeader(type, streams, regen, csize) ==
    LET fits(width) == regen < 2^width /\ csize < 2^width
        bits(format, width) ==
            Padded(Field(type, 2) \o Field(format, 2) \o Field(regen, width) \o Field(csize, width))
    IN IF streams = 1 THEN IF fits(HuffShort) THEN bits(0, HuffShort) ELSE Corrupt
       ELSE IF fits(HuffShort) THEN bits(1, HuffShort)
       ELSE IF fits(HuffMiddle) THEN bits(2, HuffMiddle)
       ELSE IF fits(HuffLong) THEN bits(3, HuffLong)
       ELSE Corrupt

\* parse_lit_header.  csize is the raw size when there is only one.
ParseLitHeader(src) ==
    LET type == Number(SubSeq(src, 1, 2))
        format == Number(SubSeq(src, 3, 4))
        at(from, width) == Number(SubSeq(src, from, from + width - 1))
        raw(from, width) == [type |-> type, regen |-> at(from, width), csize |-> at(from, width),
                             streams |-> 1, bytes |-> (from + width + 6) \div 8]
        huff(streams, width) == [type |-> type, regen |-> at(5, width), csize |-> at(5 + width, width),
                                 streams |-> streams, bytes |-> (2 * width + 11) \div 8]
    IN IF type \in {LitTypes.raw, LitTypes.rle}
       THEN IF format = 1 THEN raw(5, RawMiddle)
            ELSE IF format = 3 THEN raw(5, RawLong)
            ELSE raw(4, RawShort)
       ELSE IF format = 0 THEN huff(1, HuffShort)
       ELSE IF format = 1 THEN huff(4, HuffShort)
       ELSE IF format = 2 THEN huff(4, HuffMiddle)
       ELSE huff(4, HuffLong)

-----------------------------------------------------------------------------
(* Streams: one, or four of equal length but for the last, behind the        *)
(* lengths of the first three.                                              *)

Chunk(n) == (n + 3) \div 4

Piece(src, i) ==
    LET c == Chunk(Len(src))
    IN SubSeq(src, (i - 1) * c + 1, IF i = 4 THEN Len(src) ELSE Min({i * c, Len(src)}))

\* encode_4_streams_into, and the arm of try_huff_section_append like it.
EncodeBody(ct, streams, src) ==
    LET coded == [i \in 1..4 |-> EncodeStream(ct, Piece(src, i))]
        jump == FlattenSeq([i \in 1..3 |-> Field(ByteLen(coded[i]), 16)])
    IN IF streams = 1 THEN EncodeStream(ct, src)
       ELSE IF \E i \in 1..4 : Piece(src, i) = <<>> \/ ByteLen(coded[i]) > 65535 THEN Corrupt
       ELSE jump \o FlattenSeq(coded)

\* A section of n_streams; NoTree says it goes by an earlier block's table.
NoTree == <<>>

TryHuffSection(type, streams, tree, ct, src) ==
    Then(EncodeBody(ct, streams, src), LAMBDA body :
      Then(HuffHeader(type, streams, Len(src), ByteLen(tree \o body)), LAMBDA header :
        header \o tree \o body))

\* The preferred number of streams, or one when four do not work out.
HuffSection(type, tree, ct, src) ==
    LET one == TryHuffSection(type, 1, tree, ct, src)
    IN IF Len(src) < LitFour THEN one ELSE Else(TryHuffSection(type, 4, tree, ct, src), one)

-----------------------------------------------------------------------------
(* encode_literals_section_into.                                            *)

Frequencies(src) == [s \in 0..Max(Range(src)) |-> Cardinality({i \in DOMAIN src : src[i] = s})]

\* literals_worth_huffman, for sections no longer than its sample.
WorthHuffman(src) ==
    LET freq == Frequencies(src)
        squares == MapThenSumSet(LAMBDA s : freq[s] * freq[s], DOMAIN freq)
    IN \/ Len(src) < LitWorth
       \/ 2 * Cardinality(Coded(freq)) < Len(src) /\ squares * 128 >= Len(src) * Len(src)

CoversFreq(ct, freq) == Coded(freq) \subseteq DOMAIN ct.entry

RawSection(type, src) == RawHeader(type, Len(src)) \o FlattenSeq([i \in DOMAIN src |-> Field(src[i], 8)])

\* body_bytes_exact: the bytes a body would take, before it is coded.
BodyBytes(ct, streams, src) ==
    LET bytes(piece) ==
            (FoldLeft(LAMBDA n, s : n + ct.entry[s].nbits, 1, piece) + 7) \div 8
    IN IF streams = 1 THEN bytes(src)
       ELSE 6 + FoldLeft(LAMBDA n, i : n + bytes(Piece(src, i)), 0, <<1, 2, 3, 4>>)

\* The table of before cannot win when it takes more than the new tree and the
\* growth of a header make up for.
Futile(prev, ct, tree, src) ==
    LET streams == IF Len(src) < LitFour THEN 1 ELSE 4
    IN BodyBytes(prev, streams, src) >= BodyBytes(ct, streams, src) + ByteLen(tree) + 8

\* A section in Huffman code against the best so far: the table is kept by the
\* one that wins.
Contend_mut(best, bits, ct) ==
    IF bits # Corrupt /\ Len(bits) < Len(best.bits) THEN [bits |-> bits, huff |-> ct]
    ELSE [best EXCEPT !.huff = ct]

Contend(best, bits, ct) ==
    IF bits # Corrupt /\ Len(bits) < Len(best.bits) THEN [bits |-> bits, huff |-> ct]
    ELSE best

\* The table of before, then one of its own if there is a tree for it.
HuffmanOr(plain, src, prev, ct, tree) ==
    LET again == /\ prev # NoTable /\ CoversFreq(prev, Frequencies(src))
                 /\ tree # Corrupt => ~Futile(prev, ct, tree, src)
        best == IF again THEN Contend(plain, HuffSection(LitTypes.treeless, NoTree, prev, src), prev)
                ELSE plain
    IN IF tree = Corrupt THEN best
       ELSE Contend(best, HuffSection(LitTypes.huff, tree, ct, src), ct)

HuffmanWith(plain, src, prev, ct) ==
    HuffmanOr(plain, src, prev, ct, Then(ct, LAMBDA c : WriteTree(c.weights)))

\* A section, and the table the encoder keeps.
EncodeLiterals(src, prev) ==
    LET plain == [bits |-> RawSection(LitTypes.raw, src), huff |-> prev]
    IN IF src = <<>> THEN [bits |-> Field(0, 8), huff |-> prev]
       ELSE IF Len(src) >= 2 /\ Cardinality(Range(src)) = 1
            THEN [bits |-> RawHeader(LitTypes.rle, Len(src)) \o Field(src[1], 8), huff |-> prev]
       ELSE IF Len(src) < LitTiny \/ ~WorthHuffman(src) THEN plain
       ELSE HuffmanWith(plain, src, prev, BuildCtable(Frequencies(src)))

-----------------------------------------------------------------------------
(* decode_literals.  `pays` is what select_x2 makes of its table of times: of *)
(* the section when the pairs might be built, of the streams when they might *)
(* be used.  The table kept for later may have its pairs or not.            *)

WantX2(regen, pays) == regen >= X2BuildMin /\ regen >= X2MinDst /\ pays.build

\* decode_stream.
DecodeStream(t, closed, n, regen, pays) ==
    LET bits == Opened(closed)
        pairs == Len(t.x2) = Len(t.table) /\ regen >= X2MinDst /\ pays.use
    IN IF bits = Corrupt THEN Corrupt
       ELSE IF pairs THEN DecodeIntoX2(t, bits, <<>>, n) ELSE DecodeIntoX1(t, bits, <<>>, n)

\* decode_huff_streams.
DecodeHuffStreams(t, body, regen, streams, pays) ==
    LET size(i) == Number(SubSeq(body, 16 * (i - 1) + 1, 16 * i))
        end(i) == 48 + 8 * MapThenSumSet(size, 1..i)
        from(i) == end(i - 1)
        to(i) == IF i = 4 THEN Len(body) ELSE end(i)
        length(i) == Len(Piece([k \in 1..regen |-> 0], i))
        pieces == [i \in 1..4 |->
                     DecodeStream(t, SubSeq(body, from(i) + 1, to(i)), length(i), regen, pays)]
    IN IF streams = 1 THEN DecodeStream(t, body, regen, regen, pays)
       ELSE IF Len(body) < 48 THEN Corrupt
       ELSE IF \/ \E i \in 1..4 : from(i) >= to(i) \/ length(i) = 0
               \/ \E i \in 1..4 : pieces[i] = Corrupt THEN Corrupt
       ELSE FlattenSeq(pieces)

\* A section in Huffman code.
DecodeCoded(h, t, body, pays) ==
    Then(DecodeHuffStreams(t, body, h.regen, h.streams, pays), LAMBDA lits :
      [lits |-> lits, huff |-> t, bytes |-> h.bytes + h.csize])

DecodeSection(h, body, huff, pays) ==
    LET coded == SubSeq(body, 1, 8 * h.csize)
        byte(i) == Number(SubSeq(body, 8 * i - 7, 8 * i))
        pairs == WantX2(h.regen, pays)
    IN CASE h.type = LitTypes.raw ->
              [lits |-> [i \in 1..h.regen |-> byte(i)], huff |-> huff, bytes |-> h.bytes + h.regen]
         [] h.type = LitTypes.rle ->
              [lits |-> [i \in 1..h.regen |-> byte(1)], huff |-> huff, bytes |-> h.bytes + 1]
         [] h.type = LitTypes.huff ->
              IF Len(body) < 8 * h.csize THEN Corrupt
              ELSE Then(ReadTable(coded, pairs), LAMBDA read :
                     DecodeCoded(h, read.table, SubSeq(coded, 8 * read.bytes + 1, Len(coded)), pays))
         [] OTHER ->
              IF huff = NoTable \/ Len(body) < 8 * h.csize THEN Corrupt
              ELSE DecodeCoded(h, IF pairs THEN EnsureX2(huff) ELSE huff, coded, pays)

\* The literals, the table left for later, and how far the section goes.
DecodeLiterals(src, huff, block_max, pays) ==
    Then(ParseLitHeader(src), LAMBDA h :
      IF h.regen > block_max THEN Corrupt
      ELSE DecodeSection(h, SubSeq(src, 8 * h.bytes + 1, Len(src)), huff, pays))

-----------------------------------------------------------------------------
(* What a run of sections must do.                                          *)

\* Each section decodes to its literals, whatever follows it and whichever
\* decoder is picked, from the table the sections before it left.
RECURSIVE SectionsReadBack(_, _, _, _)
SectionsReadBack(sources, pays, prev, huff) ==
    sources # <<>> =>
      \A section \in {EncodeLiterals(Head(sources), prev)} :
      \A decoded \in {DecodeLiterals(section.bits \o Field(255, 8), huff,
                                     Len(Head(sources)), Head(pays))} :
         /\ decoded # Corrupt
         /\ decoded.lits = Head(sources) /\ decoded.bytes = ByteLen(section.bits)
         /\ SectionsReadBack(Tail(sources), Tail(pays), section.huff, decoded.huff)
=============================================================================
