------------------------------ MODULE Headers ------------------------------
(***************************************************************************)
(* The frame header and the block header, written and read.  A byte has    *)
(* Radix values and the window's base log is WindowLogMin: 256 and 10 in   *)
(* the code.  The descriptor and the window byte are records of their bit  *)
(* fields; every other field is a little-endian number.                    *)
(***************************************************************************)
EXTENDS Numbers

CONSTANTS
    Radix,         \* values of a byte
    WindowLogMin,  \* 10
    WindowLogMax,  \* 31: what write_frame_header caps the window log at
    BlockSizeMax,  \* BLOCKSIZE_MAX
    TargetBlockMin, \* 256: the least a target block size is honoured for
    None

ASSUME HeaderConstants ==
    /\ Radix \in Nat \ {0, 1}
    /\ WindowLogMin \in Nat
    /\ WindowLogMax \in Nat
    /\ BlockSizeMax \in Nat \ {0}
    /\ TargetBlockMin \in Nat
    /\ WindowLogMax <= WindowLogMin + 31          \* the exponent has five bits
    /\ 8 * BlockSizeMax + 8 <= Pow(Radix, 3)      \* a block header has three bytes

-----------------------------------------------------------------------------
(* Little-endian numbers of n bytes. *)

Bytes(v, n) == [i \in 1..n |-> (v \div Pow(Radix, i - 1)) % Radix]

Value(b) == SumOf([i \in DOMAIN b |-> b[i] * Pow(Radix, i - 1)])

-----------------------------------------------------------------------------
(* write_frame_header.  `pledged` and `dict_id` are None or a number. *)

WindowOf(window_log) == Pow(2, Min({window_log, WindowLogMax}))

SingleSegment(h) ==
    /\ h.pledged # None
    /\ h.pledged <= WindowOf(h.window_log)
    /\ ~h.ext_hist

\* Frame_Content_Size_Flag and the bytes it announces.
ContentSizeField(h) ==
    LET size == h.pledged IN
    CASE size = None -> [flag |-> 0, bytes |-> <<>>]
      [] size # None /\ size < Radix /\ SingleSegment(h) ->
           [flag |-> 0, bytes |-> Bytes(size, 1)]
      [] size # None /\ size < Radix /\ ~SingleSegment(h) ->
           [flag |-> 2, bytes |-> Bytes(size, 4)]
      [] size # None /\ size >= Radix /\ size < Radix + Pow(Radix, 2) ->
           [flag |-> 1, bytes |-> Bytes(size - Radix, 2)]
      [] size # None /\ size >= Radix + Pow(Radix, 2) /\ size < Pow(Radix, 4) ->
           [flag |-> 2, bytes |-> Bytes(size, 4)]
      [] OTHER -> [flag |-> 3, bytes |-> Bytes(size, 8)]

\* Mutant: a number of Radix is written in one byte.
DictIdField_mut(id) ==
    CASE id \in {None, 0} -> [flag |-> 0, bytes |-> <<>>]
      [] id \notin {None, 0} /\ id <= Radix -> [flag |-> 1, bytes |-> Bytes(id, 1)]
      [] id \notin {None, 0} /\ id > Radix /\ id < Pow(Radix, 2) ->
           [flag |-> 2, bytes |-> Bytes(id, 2)]
      [] OTHER -> [flag |-> 3, bytes |-> Bytes(id, 4)]

DictIdField(id) ==
    CASE id \in {None, 0} -> [flag |-> 0, bytes |-> <<>>]
      [] id \notin {None, 0} /\ id < Radix -> [flag |-> 1, bytes |-> Bytes(id, 1)]
      [] id \notin {None, 0} /\ id >= Radix /\ id < Pow(Radix, 2) ->
           [flag |-> 2, bytes |-> Bytes(id, 2)]
      [] OTHER -> [flag |-> 3, bytes |-> Bytes(id, 4)]

WindowField(h) ==
    IF SingleSegment(h) THEN <<>>
    ELSE <<[exponent |-> IF h.window_log < WindowLogMin THEN 0
                         ELSE Min({h.window_log - WindowLogMin, 31}),
            mantissa |-> 0]>>

WriteFrameHeader(h) ==
    <<[fcs_flag |-> ContentSizeField(h).flag, single |-> SingleSegment(h),
       reserved |-> FALSE, checksum |-> h.checksum,
       dict_flag |-> DictIdField(h.dict_id).flag]>>
    \o WindowField(h) \o DictIdField(h.dict_id).bytes \o ContentSizeField(h).bytes

-----------------------------------------------------------------------------
(* parse_zstd_header.  A header that ends too soon is UnexpectedEof. *)

DictIdLen(flag) == <<0, 1, 2, 4>>[flag + 1]

ContentSizeLen(desc) ==
    IF desc.fcs_flag = 0 THEN (IF desc.single THEN 1 ELSE 0)
    ELSE <<2, 4, 8>>[desc.fcs_flag]

ParsedLen(desc) ==
    1 + (IF desc.single THEN 0 ELSE 1) + DictIdLen(desc.dict_flag)
      + ContentSizeLen(desc)

WindowSize(w) ==
    LET log == WindowLogMin + w.exponent IN
    Pow(2, log) + w.mantissa * Pow(2, IF log < 3 THEN 0 ELSE log - 3)

ParseZstdHeader(src) ==
    LET desc == src[1]
        at == IF desc.single THEN 1 ELSE 2
        dict == DictIdLen(desc.dict_flag)
        id == Value(SubSeq(src, at + 1, at + dict))
        fcs == ContentSizeLen(desc)
        size == Value(SubSeq(src, at + dict + 1, at + dict + fcs))
                  + (IF desc.fcs_flag = 1 THEN Radix ELSE 0)
    IN  CASE desc.reserved -> [err |-> "ReservedBitSet"]
          [] ~desc.reserved /\ Len(src) < ParsedLen(desc) -> [err |-> "UnexpectedEof"]
          [] OTHER ->
               [err |-> None, len |-> ParsedLen(desc),
                dict_id |-> IF id = 0 THEN None ELSE id,
                content_size |-> IF fcs = 0 THEN None ELSE size,
                checksum |-> desc.checksum, single |-> desc.single,
                window_size |-> IF desc.single THEN size ELSE WindowSize(src[2])]

\* FrameHeader::block_size_max
BlockSizeMaxOf(h) == Min({h.window_size, BlockSizeMax})

-----------------------------------------------------------------------------
(* The block header: three bytes. *)

BlockTypes == <<"raw", "rle", "compressed">>

WriteBlockHeader(last, ty, size) ==
    LET t == CHOOSE i \in 1..3 : BlockTypes[i] = ty IN
    Bytes((IF last THEN 1 ELSE 0) + 2 * (t - 1) + 8 * size, 3)

ParseBlockHeader(src) ==
    LET n == Value(SubSeq(src, 1, 3))
        t == (n \div 2) % 4
    IN  CASE Len(src) < 3 -> [err |-> "UnexpectedEof"]
          [] Len(src) >= 3 /\ t = 3 -> [err |-> "ReservedBlockType"]
          [] OTHER -> [err |-> None, last |-> n % 2 = 1,
                       ty |-> BlockTypes[t + 1], size |-> n \div 8]

-----------------------------------------------------------------------------
(* frame_block_max: the largest block of a one-shot frame. *)

FrameBlockMax(window_log, target_cblock_size) ==
    LET max == Max({Min({WindowOf(window_log), BlockSizeMax}), 1}) IN
    IF target_cblock_size = 0 THEN max
    ELSE Min({max, Max({target_cblock_size * 4, TargetBlockMin})})
-----------------------------------------------------------------------------

(***************************************************************************)
(* What is written reads back as what was meant, whatever the widths the   *)
(* numbers need: the pledged size, the dictionary, a window at least the   *)
(* encoder's (the content's own size in a single segment), and a length    *)
(* that ends where the blocks begin.  A header cut short reads as cut      *)
(* short, never as another header: a streaming decoder may ask again.      *)
(***************************************************************************)
HeaderReadsBack(h) ==
    LET w == WriteFrameHeader(h)
        p == ParseZstdHeader(w)
    IN  /\ p.err = None
        /\ p.len = Len(w)
        /\ p.content_size = h.pledged
        /\ p.dict_id = IF h.dict_id = 0 THEN None ELSE h.dict_id
        /\ p.checksum = h.checksum
        /\ IF p.single THEN p.window_size = h.pledged /\ ~h.ext_hist
                       ELSE p.window_size >= WindowOf(h.window_log)
        /\ \A k \in 1..(Len(w) - 1) :
              ParseZstdHeader(SubSeq(w, 1, k)).err = "UnexpectedEof"

(***************************************************************************)
(* No block of a frame is larger than the header lets a decoder accept,    *)
(* and its size fits the three bytes of a block header.                    *)
(***************************************************************************)
BlocksFit(h, target_cblock_size) ==
    LET p == ParseZstdHeader(WriteFrameHeader(h))
        max == FrameBlockMax(h.window_log, target_cblock_size)
        largest == IF h.pledged = None THEN max ELSE Min({max, h.pledged})
    IN  \A ty \in {"raw", "rle", "compressed"}, last \in BOOLEAN :
          LET b == ParseBlockHeader(WriteBlockHeader(last, ty, largest)) IN
          /\ largest <= BlockSizeMaxOf(p)
          /\ b.err = None
          /\ b.last = last /\ b.ty = ty /\ b.size = largest
=============================================================================
