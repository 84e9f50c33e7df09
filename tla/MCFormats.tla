----------------------------- MODULE MCFormats -----------------------------
(***************************************************************************)
(* Inputs for the formats: headers at the thresholds of their field        *)
(* widths, sources of a few frames cut at every length, seekable blobs of  *)
(* every small size, levels with sizes at the thresholds of the tables,    *)
(* bytes cut into parts around stripes, what MCEntropy has for the parts   *)
(* of a block, and samples to train on.  A behaviour takes up one input    *)
(* after another.                                                          *)
(***************************************************************************)
EXTENDS Formats, MCEntropy

-----------------------------------------------------------------------------
(* Headers.  The sizes and ids lie about where one more byte is needed. *)

Around(n) == {n - 1, n, n + 1}
Sizes == UNION {Around(n) : n \in {1, Radix, Radix + Radix^2, Radix^4}}
Ids == {None} \cup UNION {Around(n) : n \in {1, Radix, Radix^2}}

SomeHeaders ==
    [h : [pledged : {None} \cup Sizes, dict_id : Ids, window_log : 1..7,
          checksum : BOOLEAN, ext_hist : BOOLEAN],
     target_cblock_size : {0, 1, 4}]

SomeLevels ==
    [level : -7..22,
     hint : {<<>>, <<0>>} \cup {<<n>> : n \in UNION {Around(2^k) : k \in {6, 10, 14, 17, 18, 23, 28}}}]

-----------------------------------------------------------------------------
(* Sources.  The window is 4 but where a frame says otherwise. *)

Blk(ty, size, regen, last) == [last |-> last, ty |-> ty, size |-> size, regen |-> regen]

Zstd(size, id, checksum, blocks) ==
    [kind |-> "zstd", header_len |-> 2, reserved |-> FALSE, window |-> 4,
     dict_id |-> id, content_size |-> size, checksum |-> checksum, blocks |-> blocks]

Skippable == [kind |-> "skippable", size |-> 3]
Junk == [kind |-> "garbage", size |-> 5]

Mixed == <<Blk("raw", 2, 0, FALSE), Blk("compressed", 3, 4, FALSE),
           Blk("rle", 3, 0, TRUE)>>

Good == {Skippable, Zstd(9, None, "good", Mixed), Zstd(None, None, "none", Mixed)}

\* Frames a decoder refuses, some of them, beside those it takes.
AnyFrame ==
    Good \cup {Junk}
    \cup {Zstd(size, None, checksum, Mixed) :
            size \in {None, 9, 10}, checksum \in {"good", "bad"}}
    \cup {Zstd(None, 7, "good", Mixed),
          [Zstd(None, None, "good", Mixed) EXCEPT !.reserved = TRUE],
          [Zstd(None, None, "good", Mixed) EXCEPT !.window = 99],
          [Zstd(None, None, "none", <<Blk("rle", BlockSizeMax + 1, 0, TRUE)>>)
             EXCEPT !.window = 64]}
    \cup {Zstd(None, None, "none", blocks) : blocks \in
            {<<Blk("rle", 4, 0, TRUE)>>, <<Blk("rle", 5, 0, TRUE)>>,
             <<Blk("raw", 5, 0, TRUE)>>, <<Blk("compressed", 2, 5, TRUE)>>,
             <<Blk("compressed", 5, 2, TRUE)>>,
             <<Blk("raw", 1, 0, FALSE), Blk("reserved", 1, 0, TRUE)>>,
             <<Blk("raw", 1, 0, FALSE)>>}}

SomeSources ==
    {<<f>> : f \in AnyFrame}
    \cup {<<f, g>> : f \in Good, g \in AnyFrame}
    \cup {<<f, g>> : f \in {f \in AnyFrame : ~Unended(f)}, g \in Good}
    \cup {<<f, g, k>> : f, g, k \in Good}

SomeOptions ==
    {[window_max |-> 64, ignore_checksum |-> FALSE, dict |-> dict, out_cap |-> out_cap] :
       dict \in {None, 7, 8}, out_cap \in {0, 3, 9, 18}}

-----------------------------------------------------------------------------
(* Seekable blobs, and bytes to hash, each of them known by its place. *)

SomeBlobs ==
    LET hows == {<<"rle">>, <<"raw", "rle">>, <<"rle", "compressed", "raw">>}
    IN  [len : 0..9, max_frame_size : 0..4, checksum : BOOLEAN, how : hows]
        \cup [len : {39, 70}, max_frame_size : {35}, checksum : BOOLEAN, how : hows]

SomeContent == [i \in 1..97 |-> i]

-----------------------------------------------------------------------------

(* The parts of a block. *)

TakeHistogram ==
    \E h \in Histograms, use_low \in BOOLEAN : \E last_sym \in Coded(h) :
        input' = [kind |-> "histogram", h |-> h, use_low |-> use_low, last_sym |-> last_sym]

TakeFrequencies == \E f \in Frequent : input' = [kind |-> "frequencies", f |-> f]

TakeLiterals ==
    \E a, b \in Literals, pays \in [build : BOOLEAN, use : BOOLEAN] :
        input' = [kind |-> "literals", sections |-> <<a, b>>,
                  pays |-> <<[build |-> FALSE, use |-> FALSE], pays>>,
                  enc |-> NoTable, dec |-> NoTable]

TakeSequences ==
    \E a \in SequenceLists \cup {Far}, b, c \in SequenceLists, use_low \in BOOLEAN :
        input' = [kind |-> "sequences", use_low |-> use_low, blocks |-> <<a, b, c>>,
                  enc |-> NoTables, dec |-> NoTables]

TakeCount == \E n \in SequenceCounts : input' = [kind |-> "count", n |-> n]

-----------------------------------------------------------------------------

(* Dictionaries.  A dictionary that was trained is loaded by both sides, and *)
(* the first blocks of a frame are coded with it.                            *)

TakeSamples ==
    \E found \in Founds, how \in Trainings :
    \E bytes \in {Train(Samples, how.o, found, how.hash, how.forced)} :
        input' = [kind |-> "samples", found |-> found, how |-> how, bytes |-> bytes]

LoadDictionary ==
    /\ input.kind = "samples" /\ input.bytes # Corrupt
    /\ \E dict \in {FromBytes(input.bytes)} :
         \/ input' = [kind |-> "literals", sections |-> FirstLiterals, pays |-> FirstPays,
                      enc |-> dict.huff_c, dec |-> dict.huff_d]
         \/ input' = [kind |-> "sequences", use_low |-> FALSE, blocks |-> FirstBlocks,
                      enc |-> dict.seq_c, dec |-> dict.seq_d]

TakeRoom ==
    \E algo \in {"fastcover", "cover"}, k \in {7, 11}, n_train \in {1, 4}, room \in {40, 230} :
        input' = [kind |-> "room", algo |-> algo, k |-> k, n_train |-> n_train, room |-> room]

-----------------------------------------------------------------------------

FormatsNext ==
        \/ Next
        \/ input = Idle /\ TakeRoom
        \/ input = Idle /\ (TakeHistogram \/ TakeFrequencies \/ TakeLiterals)
        \/ input = Idle /\ (TakeSequences \/ TakeCount \/ TakeSamples)
        \/ LoadDictionary

FormatsSpec == Init /\ [][FormatsNext]_input

\* A table the decoder builds from what the encoder wrote of it undoes every
\* step of the encoder's, from whatever state, and has room for every symbol
\* that was counted; so do the predefined ones.  Huffman code lengths leave no
\* hole, also where they had to be cut short, and what is coded with them is
\* read with the table the tree gives, alone or in pairs.
EntropyTablesAgree ==
    /\ input.kind = "histogram" => TablesRight(input.h, input.use_low, input.last_sym)
    /\ input.kind = "idle" =>
         \A k \in Kinds : TablesInvert(DefaultNorm[k], DefaultLog[k])
    /\ input.kind = "frequencies" =>
         LengthsComplete(input.f) /\ HuffmanInverts(input.f, Sample(input.f))

\* A dictionary that training returns fits its bound, parses to the end of the
\* content picked with repeat offsets inside of it, and codes every literal that
\* was counted; training fails only where there is nothing to train on, no tree
\* for the literals or no room behind the header.  Picking fills its room with
\* segments of falling worth.
DictionariesServe ==
    /\ input.kind = "samples" =>
         TrainedServes(Samples, input.how.o, input.found, input.how.forced, input.bytes)
    /\ input.kind = "room" =>
         SegmentsWorth(input.algo, input.k, input.n_train, input.room)

\* Literals sections of successive blocks decode to their literals, in whichever
\* form they were written and with whichever decoder, from the table a block
\* before them left or a dictionary gave.
LiteralsReadBack ==
    input.kind = "literals" =>
        SectionsReadBack(input.sections, input.pays, input.enc, input.dec)

\* Sequences sections of successive blocks decode to their sequences, with the
\* tables both sides kept or loaded; and the count of sequences reads back.
SequencesDecode ==
    /\ input.kind = "sequences" =>
         SequencesReadBack(input.blocks, input.use_low, input.enc, input.dec)
    /\ input.kind = "count" => NSeqReadsBack(input.n)
=============================================================================
