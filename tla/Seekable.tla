------------------------------ MODULE Seekable ------------------------------
(***************************************************************************)
(* The seekable format of seekable.rs: independent frames and a skippable  *)
(* frame with a table of their sizes, which is found from the end of the   *)
(* file.  The table's bytes are tokens: a number and how many bytes wide   *)
(* it is.  A reader sees a token only where one begins.                    *)
(***************************************************************************)
EXTENDS Frames

CONSTANT Garbage  \* what is read where no token begins

-----------------------------------------------------------------------------
(* compress_seekable_adv.  `how` gives, by turns, the type of a frame's
   blocks, so that frames differ in size. *)

\* len bytes, max at a time: the loop runs once even over nothing.
Chunks(len, max_frame_size) ==
    LET max == Max({max_frame_size, 1})
        n == Max({(len + max - 1) \div max, 1})
    IN  [i \in 1..n |-> [from |-> max * (i - 1), to |-> Min({max * i, len})]]

SizeOf(chunk) == chunk.to - chunk.from

\* A block that n bytes are made into.
BlockOf(n, ty, last) ==
    IF ty = "compressed" THEN [last |-> last, ty |-> ty, size |-> n \div 2, regen |-> n]
    ELSE [last |-> last, ty |-> ty, size |-> n, regen |-> 0]

ChunkFrame(chunk, ty, checksum) ==
    LET parts == Chunks(SizeOf(chunk), BlockSizeMax)
    IN  [kind |-> "zstd", header_len |-> 2, reserved |-> FALSE, window |-> SizeOf(chunk),
         dict_id |-> None, content_size |-> SizeOf(chunk),
         checksum |-> IF checksum THEN "good" ELSE "none",
         blocks |-> [j \in DOMAIN parts |-> BlockOf(SizeOf(parts[j]), ty, j = Len(parts))]]

\* The checksum of a chunk is known by the chunk.
Entry(chunk, frame, checksum) ==
    [compressed_size |-> FrameLen(frame),
     decompressed_size |-> SizeOf(chunk),
     checksum |-> IF checksum THEN chunk ELSE None]

SkippableMagics == {"SEEKABLE_SKIPPABLE_MAGIC", "MAGIC_SKIPPABLE"}

Token(v, n) == [v |-> v, len |-> n]

EntrySize(checksums) == IF checksums THEN 12 ELSE 8

\* The fields of an entry, four bytes each.
Fields(checksums) == IF checksums THEN 3 ELSE 2
EntryField(e, k) == <<e.compressed_size, e.decompressed_size, e.checksum>>[k]

EntryTokens(entries, checksums) ==
    LET k == Fields(checksums)
    IN  [j \in 1..(k * Len(entries)) |->
           Token(EntryField(entries[((j - 1) \div k) + 1], ((j - 1) % k) + 1), 4)]

\* append_seek_table
TableTokens(entries, checksums) ==
    <<Token("SEEKABLE_SKIPPABLE_MAGIC", 4),
      Token(Len(entries) * EntrySize(checksums) + 9, 4)>>
    \o EntryTokens(entries, checksums)
    \o <<Token(Len(entries), 4), Token([checksums |-> checksums, reserved |-> FALSE], 1),
         Token("SEEKABLE_MAGIC", 4)>>

\* A blob: the frames, each a token of its own, and the table's tokens.
CompressSeekable(len, max_frame_size, checksum, how) ==
    LET chunks == Chunks(len, max_frame_size)
        frames == [i \in DOMAIN chunks |->
                     ChunkFrame(chunks[i], how[(i % Len(how)) + 1], checksum)]
        entries == [i \in DOMAIN chunks |-> Entry(chunks[i], frames[i], checksum)]
    IN  [chunks |-> chunks, entries |-> entries,
         tokens |-> [i \in DOMAIN frames |-> Token(frames[i], FrameLen(frames[i]))]
                      \o TableTokens(entries, checksum)]

-----------------------------------------------------------------------------
(* Reading a blob by byte offsets. *)

Offset(tokens, i) == SumOf([j \in 1..(i - 1) |-> tokens[j].len])

BlobLen(tokens) == Offset(tokens, Len(tokens) + 1)

\* What stands at byte `off`, if a token begins there.
At(tokens, off) ==
    LET begun == {i \in DOMAIN tokens : Offset(tokens, i) = off}
    IN  IF begun = {} THEN Garbage ELSE tokens[Min(begun)].v

ParseSeekTable(tokens) ==
    LET n == BlobLen(tokens)
        num == At(tokens, n - 9)
        descriptor == At(tokens, n - 5)
        entry_size == EntrySize(descriptor.checksums)
        payload == num * entry_size + 9
        start == n - (8 + payload)
        field(i, at) == At(tokens, start + 8 + (i - 1) * entry_size + at)
    IN  CASE n < 17 -> [err |-> "Corruption"]
          [] n >= 17 /\ At(tokens, n - 4) # "SEEKABLE_MAGIC" -> [err |-> "BadMagic"]
          [] n >= 17 /\ At(tokens, n - 4) = "SEEKABLE_MAGIC" /\ descriptor.reserved ->
               [err |-> "ReservedBitSet"]
          [] OTHER ->
               IF n < 8 + payload THEN [err |-> "Corruption"]
               ELSE IF At(tokens, start) \notin SkippableMagics THEN [err |-> "BadMagic"]
               ELSE IF At(tokens, start + 4) # payload THEN [err |-> "Corruption"]
               ELSE [err |-> None,
                     entries |-> [i \in 1..num |->
                       [compressed_size |-> field(i, 0), decompressed_size |-> field(i, 4),
                        checksum |-> IF descriptor.checksums THEN field(i, 8) ELSE None]]]

\* SeekTable::uncompressed_offset, SeekTable::compressed_offset
UncompressedOffset(entries, i) ==
    SumOf([j \in 1..(i - 1) |-> entries[j].decompressed_size])

CompressedOffset(entries, i) ==
    SumOf([j \in 1..(i - 1) |-> entries[j].compressed_size])

\* Mutant: the byte behind a frame counts as its own.
FrameAt_mut(tokens, entries, offset) ==
    LET covering == {i \in DOMAIN entries :
                       offset <= UncompressedOffset(entries, i) + entries[i].decompressed_size}
        i == Min(covering)
        coff == CompressedOffset(entries, i)
        end == coff + entries[i].compressed_size
    IN  CASE covering = {} -> [err |-> "UnexpectedEof"]
          [] covering # {} /\ end > BlobLen(tokens) -> [err |-> "UnexpectedEof"]
          [] OTHER -> [err |-> None, from |-> coff, to |-> end]

\* decompress_frame_at: which bytes of the file it hands to the decoder.
FrameAt(tokens, entries, offset) ==
    LET covering == {i \in DOMAIN entries :
                       offset < UncompressedOffset(entries, i) + entries[i].decompressed_size}
        i == Min(covering)
        coff == CompressedOffset(entries, i)
        end == coff + entries[i].compressed_size
    IN  CASE covering = {} -> [err |-> "UnexpectedEof"]
          [] covering # {} /\ end > BlobLen(tokens) -> [err |-> "UnexpectedEof"]
          [] OTHER -> [err |-> None, from |-> coff, to |-> end]

\* The bytes from one offset of a blob to another are its frame i.
Holds(tokens, from, to, i) ==
    {j \in DOMAIN tokens : Offset(tokens, j) >= from /\ Offset(tokens, j) + tokens[j].len <= to} = {i}
    /\ Offset(tokens, i) = from /\ Offset(tokens, i) + tokens[i].len = to

\* The bytes of `range` are the frame of the chunk that holds byte `offset`.
FrameHoldsByte(blob, entries, range, offset, window_max) ==
    \E i \in DOMAIN blob.chunks :
        LET chunk == blob.chunks[i]
            default == [window_max |-> window_max, ignore_checksum |-> FALSE, dict |-> None,
                        out_cap |-> Unlimited]
        IN  /\ range.err = None /\ Holds(blob.tokens, range.from, range.to, i)
            /\ chunk.from <= offset /\ offset < chunk.to
            /\ UncompressedOffset(entries, i) = chunk.from
            /\ \A d \in {Decompress(Whole(<<blob.tokens[i].v>>), default)} :
                 d.err = None /\ d.out = SizeOf(chunk)

-----------------------------------------------------------------------------

(***************************************************************************)
(* Random access agrees with sequential decoding: the table read from the  *)
(* end is the one written, its frames lie end to end, and the frame it     *)
(* names for any offset is one whole frame, whose chunk holds that byte at *)
(* the offset the table gives.  Past the end there is nothing.             *)
(***************************************************************************)
SeekFindsByte(len, max_frame_size, checksum, how) ==
    \A blob \in {CompressSeekable(len, max_frame_size, checksum, how)} :
    \A parsed \in {ParseSeekTable(blob.tokens)} :
        /\ parsed.err = None
        /\ parsed.entries = blob.entries
        /\ UncompressedOffset(parsed.entries, Len(parsed.entries) + 1) = len
        /\ \A offset \in 0..(len - 1) :
             FrameHoldsByte(blob, parsed.entries, FrameAt(blob.tokens, parsed.entries, offset),
                            offset, len)
        /\ FrameAt(blob.tokens, parsed.entries, len).err = "UnexpectedEof"
=============================================================================
