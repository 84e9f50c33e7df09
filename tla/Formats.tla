------------------------------ MODULE Formats ------------------------------
(***************************************************************************)
(* The formats that are read as well as written, and by more than one      *)
(* reader: headers, concatenated frames, seekable blobs, and bytes hashed  *)
(* in parts; and the parameters of a level, of which the window is written *)
(* in a header.  A behaviour takes up one input after another.             *)
(***************************************************************************)
EXTENDS Seekable, ContentHash, Parameters

CONSTANTS HeaderArgs,  \* arguments of write_frame_header and frame_block_max
          LevelArgs,   \* arguments of compression_params
          Sources,   \* frames that lie end to end
          DecodeOptions,   \* what a decoder is called with
          Blobs,     \* arguments of compress_seekable
          Content,   \* the bytes that are hashed
          PartLens   \* how many of them come at a time

\* A size has eight bytes, the id of a dictionary four.
HeaderArg ==
    [h : [pledged : Nat \cup {None}, dict_id : Nat \cup {None}, window_log : Nat,
          checksum : BOOLEAN, ext_hist : BOOLEAN],
     target_cblock_size : Nat]
Fits(h) == /\ h.pledged # None => h.pledged < Pow(Radix, 8)
           /\ h.dict_id # None => h.dict_id < Pow(Radix, 4)

Block == [last : BOOLEAN, ty : {"raw", "rle", "compressed", "reserved"}, size : Nat, regen : Nat]
\* No block but the last one says it is the last.
BlocksOfFrame ==
    {blocks \in Seq(Block) \ {<<>>} : \A i \in 1..(Len(blocks) - 1) : ~blocks[i].last}
ZstdFrame ==
    [kind : {"zstd"}, header_len : Nat, reserved : BOOLEAN, window : Nat,
     dict_id : Nat \cup {None}, content_size : Nat \cup {None},
     checksum : {"none", "good", "bad"}, blocks : BlocksOfFrame]
Frame == ZstdFrame \cup [kind : {"skippable"}, size : Nat]
                   \cup [kind : {"garbage"}, size : Nat \ {0}]

\* Only the last frame of a source may go on when the source ends.
Unended(f) == f.kind = "zstd" /\ ~f.blocks[Len(f.blocks)].last
Source == {frames \in Seq(Frame) \ {<<>>} : \A i \in 1..(Len(frames) - 1) : ~Unended(frames[i])}

\* What a walk over frames fails with.
Errors ==
    {"UnexpectedEof", "BadMagic", "TrailingBytes", "ReservedBitSet", "ReservedBlockType",
     "WindowTooLarge", "DictionaryNeeded", "DictionaryMismatch", "ContentSizeTooLarge",
     "ContentSizeMismatch", "BlockTooLarge", "Corruption", "ChecksumMismatch"}

ASSUME FormatsAssumption ==
    /\ HeaderArgs \subseteq HeaderArg /\ \A args \in HeaderArgs : Fits(args.h)
    /\ \A args \in LevelArgs :
         args.level \in Levels /\ args.hint \in Seq(Nat) /\ Len(args.hint) <= 1
    /\ Sources \subseteq Source
    /\ DecodeOptions \subseteq [window_max : Nat, ignore_checksum : BOOLEAN, dict : Nat \cup {None},
                          out_cap : 0..Unlimited]
    /\ Blobs \subseteq [len : 0..Unlimited, max_frame_size : Nat, checksum : BOOLEAN,
                        how : Seq({"raw", "rle", "compressed"}) \ {<<>>}]
    /\ Content \in Seq(Nat) /\ PartLens \subseteq Nat
    /\ None \notin Nat /\ None \notin Errors

VARIABLE input

Idle == [kind |-> "idle"]

TakeHeader == \E args \in HeaderArgs : input' = [kind |-> "header", of |-> args]

TakeLevel == \E args \in LevelArgs : input' = [kind |-> "level", of |-> args]

TakeSource ==
    \E frames \in Sources, opts \in DecodeOptions : \E len \in 0..WholeLen(frames) :
        input' = [kind |-> "source", src |-> [frames |-> frames, len |-> len], opts |-> opts]

TakeBlob == \E blob \in Blobs : input' = [kind |-> "blob", of |-> blob]

\* A hasher is made, and updated with one part after another.
TakeContent == input' = [kind |-> "content", hasher |-> New, at |-> 0]

TakePart ==
    \E n \in PartLens :
        /\ input.at + n <= Len(Content)
        /\ input' = [input EXCEPT !.hasher = Update(@, SubSeq(Content, input.at + 1, input.at + n)),
                                  !.at = @ + n]

Init == input = Idle

Next == \/ input = Idle /\ (TakeHeader \/ TakeLevel \/ TakeSource \/ TakeBlob \/ TakeContent)
        \/ input.kind = "content" /\ TakePart
        \/ input # Idle /\ input' = Idle

Spec == Init /\ [][Next]_input

-----------------------------------------------------------------------------

\* What a decoder reads of a header is what was written, and every block of the
\* frame may be as large as frame_block_max makes it.  The parameters of a level,
\* of which the window is written there, are in range for every size.
HeadersHonoured ==
    /\ input.kind = "header" =>
         HeaderReadsBack(input.of.h) /\ BlocksFit(input.of.h, input.of.target_cblock_size)
    /\ input.kind = "level" =>
         LevelInRange(input.of.level, input.of.hint, CompressionParams(3, <<>>))

\* Decoding, listing, measuring and counting agree on where frames and blocks
\* lie, and none of them takes a frame cut short for a whole one.  The output
\* limit and the ignored checksum change what they are for and nothing else.
WalksAgree ==
    input.kind = "source" =>
        /\ WalkersAgree(input.src, input.opts)
        /\ TruncationSeen(input.src, input.opts)
        /\ LimitExact(input.src, input.opts)
        /\ IgnoringForgivesOnlyMismatch(input.src, input.opts)

\* A checksum does not depend on how its bytes came in: at every cut the hasher
\* has what hashing them at once gives.
ChecksumsAlike ==
    input.kind = "content" => HashesAsOne(input.hasher, SubSeq(Content, 1, input.at))

\* Random access into a seekable blob agrees with decoding it.
SeeksFind ==
    input.kind = "blob" =>
        SeekFindsByte(input.of.len, input.of.max_frame_size, input.of.checksum, input.of.how)
=============================================================================
