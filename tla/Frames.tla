------------------------------- MODULE Frames -------------------------------
(***************************************************************************)
(* The walks over concatenated frames in decode.rs: decoding them, with or *)
(* without a limit on the output, finding where a frame ends, listing      *)
(* them, and asking for the content size.  Each is its own loop over the   *)
(* same bytes.                                                             *)
(*                                                                         *)
(* A source is [frames, len]: the frames that lie end to end in it, and    *)
(* how many bytes of them there are (fewer when it is truncated).  Blocks  *)
(* regenerate a number of bytes; which ones is the block decoder's affair. *)
(***************************************************************************)
EXTENDS Headers, Integers, FiniteSets

CONSTANT Unlimited  \* usize::MAX

ASSUME LimitConstant == Unlimited \in Nat

-----------------------------------------------------------------------------
(* How long things are. *)

Magic == 4
BlockHeader == 3
Checksum == 4

\* BlockHeader::payload_len
PayloadLen(b) == IF b.ty = "rle" THEN 1 ELSE b.size

HeaderLen(f) ==
    CASE f.kind = "zstd" -> Magic + f.header_len
      [] f.kind = "skippable" -> Magic + 4
      [] OTHER -> f.size

BlocksLen(blocks) ==
    SumOf([i \in DOMAIN blocks |-> BlockHeader + PayloadLen(blocks[i])])

FrameLen(f) ==
    CASE f.kind = "zstd" ->
           HeaderLen(f) + BlocksLen(f.blocks)
             + (IF f.checksum = "none" THEN 0 ELSE Checksum)
      [] f.kind = "skippable" -> HeaderLen(f) + f.size
      [] OTHER -> f.size

WholeLen(frames) == SumOf([i \in DOMAIN frames |-> FrameLen(frames[i])])

Whole(frames) == [frames |-> frames, len |-> WholeLen(frames)]

-----------------------------------------------------------------------------
(* A reader is how far a walk has come in src, the error that ended it and
   what the walk has found so far. *)

Fail(r, e) == [r EXCEPT !.err = e]

Remaining(src, r) == src.len - r.pos

\* Reader::take and its fixed-width siblings.
Take(src, r, n) ==
    IF Remaining(src, r) < n THEN Fail(r, "UnexpectedEof")
    ELSE [r EXCEPT !.pos = @ + n]

\* FrameHeader::block_size_max
BlockMax(f) == Min({f.window, BlockSizeMax})

\* parse_kind, once the magic has been read: a reserved bit is seen as soon as
\* the descriptor is.
ParseKind(src, r, f) ==
    LET m == Take(src, r, Magic) IN
    CASE m.err # None -> m
      [] m.err = None /\ f.kind = "garbage" -> Fail(m, "BadMagic")
      [] m.err = None /\ f.kind = "zstd" /\ f.reserved ->
           IF Remaining(src, m) = 0 THEN Fail(m, "UnexpectedEof")
                                    ELSE Fail(m, "ReservedBitSet")
      [] OTHER -> Take(src, r, HeaderLen(f))

ReadBlockHeader(src, r, b) ==
    LET n == Take(src, r, BlockHeader) IN
    IF n.err = None /\ b.ty = "reserved" THEN Fail(n, "ReservedBlockType") ELSE n

-----------------------------------------------------------------------------
(* decode_zstd_frame.  opts is [window_max, ignore_checksum, dict, out_cap];
   dict is None or the loaded dictionary's id. *)

\* a.saturating_sub(b)
Less(a, b) == IF a > b THEN a - b ELSE 0

HeaderRefused(f, r, opts) ==
    CASE f.window > opts.window_max -> "WindowTooLarge"
      [] f.window <= opts.window_max /\ f.dict_id # None /\ opts.dict = None ->
           "DictionaryNeeded"
      [] f.window <= opts.window_max /\ f.dict_id # None /\ opts.dict # None
           /\ opts.dict # f.dict_id -> "DictionaryMismatch"
      [] OTHER ->
           IF f.content_size # None /\ f.content_size > Less(opts.out_cap, r.out)
             THEN "ContentSizeTooLarge" ELSE None

\* A raw or RLE block of n bytes, or a compressed one.
DecodeBlock(src, f, opts, r, b) ==
    LET h == ReadBlockHeader(src, r, b)
        t == Take(src, h, PayloadLen(b))
    IN  CASE h.err # None -> h
          [] h.err = None /\ b.size > BlockMax(f) -> Fail(h, "BlockTooLarge")
          [] h.err = None /\ b.size <= BlockMax(f) /\ b.ty # "compressed" ->
               IF b.size > Less(opts.out_cap, h.out) THEN Fail(h, "ContentSizeTooLarge")
               ELSE IF t.err # None THEN t
               ELSE [t EXCEPT !.out = @ + b.size]
          [] OTHER ->
               IF t.err # None THEN t
               ELSE IF b.regen > BlockMax(f) THEN Fail(t, "Corruption")
               ELSE IF t.out + b.regen > opts.out_cap
                 THEN Fail([t EXCEPT !.out = @ + b.regen], "ContentSizeTooLarge")
               ELSE [t EXCEPT !.out = @ + b.regen]

\* The loop: it goes on until the last block, or for ever into the end of src.
Blocks(src, f, Step(_, _), r) ==
    LET n == Len(f.blocks)
        after[i \in 0..n] ==
          IF i = 0 THEN r
          ELSE IF after[i - 1].err # None THEN after[i - 1]
          ELSE Step(after[i - 1], f.blocks[i])
    IN  IF after[n].err = None /\ ~f.blocks[n].last
          THEN Fail(after[n], "UnexpectedEof") ELSE after[n]

DecodeChecksum(src, f, opts, r) ==
    LET t == Take(src, r, Checksum) IN
    IF r.err # None \/ f.checksum = "none" THEN r
    ELSE IF t.err = None /\ ~opts.ignore_checksum /\ f.checksum = "bad"
      THEN Fail(t, "ChecksumMismatch") ELSE t

CheckContentSize(f, begin, end) ==
    IF end.err = None /\ f.content_size # None /\ end.out - begin.out # f.content_size
    THEN Fail(end, "ContentSizeMismatch") ELSE end

DecodeZstdFrame(src, f, opts, r) ==
    LET refused == HeaderRefused(f, r, opts)
        blocks == Blocks(src, f, LAMBDA a, b : DecodeBlock(src, f, opts, a, b), r)
    IN  IF refused # None THEN Fail(r, refused)
        ELSE CheckContentSize(f, r, DecodeChecksum(src, f, opts, blocks))

-----------------------------------------------------------------------------
(* decompress_into_history: one turn of its loop, and all of them. *)

\* What peek_u32_le tells before a frame is parsed.
Peeked(src, r, f, saw_zstd) ==
    CASE Remaining(src, r) >= Magic /\ f.kind # "garbage" -> None
      [] Remaining(src, r) >= Magic /\ f.kind = "garbage" ->
           IF saw_zstd THEN "TrailingBytes" ELSE "BadMagic"
      [] OTHER -> IF saw_zstd THEN "TrailingBytes" ELSE "UnexpectedEof"

DecompressFrame(src, opts, r, f) ==
    LET peeked == Peeked(src, r, f, r.saw_zstd)
        k == ParseKind(src, r, f)
    IN  CASE peeked # None -> Fail(r, peeked)
          [] peeked = None /\ k.err # None -> k
          [] peeked = None /\ k.err = None /\ f.kind = "skippable" ->
               Take(src, k, f.size)
          [] OTHER -> [DecodeZstdFrame(src, f, opts, k) EXCEPT !.saw_zstd = TRUE]

\* Whether a walk has more to read.
More(src, r) == r.err = None /\ Remaining(src, r) > 0

\* Skippable frames alone are no input.
NeedsZstd(end) ==
    IF end.err = None /\ ~end.saw_zstd THEN Fail(end, "UnexpectedEof") ELSE end

Decompress(src, opts) ==
    LET n == Len(src.frames)
        after[i \in 0..n] ==
          IF i = 0 THEN [pos |-> 0, err |-> None, out |-> 0, saw_zstd |-> FALSE]
          ELSE IF ~More(src, after[i - 1]) THEN after[i - 1]
          ELSE DecompressFrame(src, opts, after[i - 1], src.frames[i])
    IN  NeedsZstd(after[n])

-----------------------------------------------------------------------------
(* skip_blocks and the walks that do not decode. *)

SkipBlock(src, f, r, b) ==
    LET h == ReadBlockHeader(src, r, b) IN
    CASE h.err # None -> h
      [] h.err = None /\ b.ty # "rle" /\ b.size > BlockMax(f) -> Fail(h, "BlockTooLarge")
      [] OTHER -> Take(src, h, PayloadLen(b))

\* Mutant: the checksum behind the blocks is left to the next frame.
SkipBlocks_mut(src, f, r) ==
    Blocks(src, f, LAMBDA a, b : SkipBlock(src, f, a, b), r)

SkipBlocks(src, f, r) ==
    LET blocks == Blocks(src, f, LAMBDA a, b : SkipBlock(src, f, a, b), r) IN
    IF blocks.err = None /\ f.checksum # "none" THEN Take(src, blocks, Checksum)
    ELSE blocks

\* find_frame_compressed_size, from where r stands: it ends where the frame does.
FindFrame(src, r, f) ==
    LET k == ParseKind(src, r, f) IN
    CASE k.err # None -> k
      [] k.err = None /\ f.kind = "skippable" -> Take(src, k, f.size)
      [] OTHER -> SkipBlocks(src, f, k)

\* inspect_frames: the sizes listed, in r.list.
Listed(from, e) ==
    IF e.err # None THEN e ELSE [e EXCEPT !.list = Append(@, e.pos - from)]

InspectFrame(src, r, f) == Listed(r.pos, FindFrame(src, r, f))

InspectFrames(src) ==
    LET begin == [pos |-> 0, err |-> None, list |-> <<>>]
        n == Len(src.frames)
        after[i \in 0..n] ==
          IF i = 0 THEN begin
          ELSE IF ~More(src, after[i - 1]) THEN after[i - 1]
          ELSE InspectFrame(src, after[i - 1], src.frames[i])
    IN  IF src.len = 0 THEN Fail(begin, "UnexpectedEof") ELSE after[n]

\* content_size: that of the first Zstd frame, in r.size.
SizeFrame(src, r, f) ==
    LET k == ParseKind(src, r, f) IN
    CASE k.err # None -> k
      [] k.err = None /\ f.kind = "skippable" -> Take(src, k, f.size)
      [] OTHER -> [k EXCEPT !.found = TRUE, !.size = f.content_size]

ContentSize(src) ==
    LET n == Len(src.frames)
        after[i \in 0..n] ==
          IF i = 0 THEN [pos |-> 0, err |-> None, found |-> FALSE, size |-> None]
          ELSE IF after[i - 1].err # None \/ after[i - 1].found THEN after[i - 1]
          ELSE SizeFrame(src, after[i - 1], src.frames[i])
    IN  IF after[n].err = None /\ ~after[n].found THEN Fail(after[n], "UnexpectedEof")
        ELSE after[n]

\* frame_block_census of the first frame: the bytes its raw and RLE blocks stand
\* for and the payload of the compressed ones, in r.raw, r.rle and r.compressed.
Counted(r, b) ==
    CASE b.ty = "raw" -> [r EXCEPT !.raw = @ + b.size]
      [] b.ty = "rle" -> [r EXCEPT !.rle = @ + b.size]
      [] OTHER -> [r EXCEPT !.compressed = @ + b.size]

CensusBlock(src, r, b) ==
    LET h == ReadBlockHeader(src, r, b)
    IN  IF h.err # None THEN h ELSE Take(src, Counted(h, b), PayloadLen(b))

FrameBlockCensus(src) ==
    LET f == src.frames[1]
        k == ParseKind(src, [pos |-> 0, err |-> None, raw |-> 0, rle |-> 0, compressed |-> 0], f)
    IN  CASE k.err # None -> k
          [] k.err = None /\ f.kind = "skippable" -> Fail(k, "BadMagic")
          [] OTHER -> Blocks(src, f, LAMBDA a, b : CensusBlock(src, a, b), k)
-----------------------------------------------------------------------------

\* Decoding with nothing in the way.
Freely(opts) == [opts EXCEPT !.out_cap = Unlimited]

\* Where the frames of src end.
Boundaries(frames) == {WholeLen(SubSeq(frames, 1, i)) : i \in 1..Len(frames)}

FirstZstd(frames) == Min({i \in DOMAIN frames : frames[i].kind = "zstd"})

\* What the compressed ones of them regenerate.
Regenerated(blocks) ==
    SumOf([i \in DOMAIN blocks |-> IF blocks[i].ty = "compressed" THEN blocks[i].regen ELSE 0])

(***************************************************************************)
(* Five loops read the same bytes and never disagree on what decodes: the  *)
(* frames listed lie end to end over the whole source, the content size    *)
(* asked for is what the first frame regenerates, and the census of its    *)
(* blocks accounts for all of it.                                          *)
(***************************************************************************)
WalkersAgree(src, opts) ==
    Decompress(src, Freely(opts)).err = None =>
        LET f == src.frames[FirstZstd(src.frames)]
        IN  \A list \in {InspectFrames(src)}, census \in {FrameBlockCensus(Whole(<<f>>))},
               first \in {Decompress(Whole(<<f>>), Freely(opts)).out} :
              /\ list.err = None
              /\ SumOf(list.list) = src.len
              /\ Len(list.list) = Cardinality({e \in Boundaries(src.frames) : e <= src.len})
              /\ ContentSize(src).size \in {None, first}
              /\ census.raw + census.rle + Regenerated(f.blocks) = first

(***************************************************************************)
(* A source cut short decodes only if the cut is where a frame ends, and   *)
(* a frame cut short is never listed.                                      *)
(***************************************************************************)
TruncationSeen(src, opts) ==
    src.len \notin Boundaries(src.frames) =>
        /\ Decompress(src, opts).err # None
        /\ InspectFrames(src).err # None

(***************************************************************************)
(* A limit on the output refuses what is larger and changes nothing else:  *)
(* not the result, not which error another fault gives, and not more than  *)
(* one block is written past it.                                           *)
(***************************************************************************)
LimitExact(src, opts) ==
    \A free \in {Decompress(src, Freely(opts))}, limited \in {Decompress(src, opts)} :
        /\ (limited.err = None) <=> (free.err = None /\ free.out <= opts.out_cap)
        /\ limited.err = None => limited.out = free.out
        /\ limited.err \in {free.err, "ContentSizeTooLarge"}
        /\ limited.out <= opts.out_cap + BlockSizeMax

(***************************************************************************)
(* Ignoring checksums still consumes them: the frames behind are found,    *)
(* and only a mismatch is forgiven.                                        *)
(***************************************************************************)
IgnoringForgivesOnlyMismatch(src, opts) ==
    \A strict \in {Decompress(src, [opts EXCEPT !.ignore_checksum = FALSE])} :
        strict.err # "ChecksumMismatch" =>
            Decompress(src, [opts EXCEPT !.ignore_checksum = TRUE]) = strict
=============================================================================
