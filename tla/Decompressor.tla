---------------------------- MODULE Decompressor ----------------------------
(***************************************************************************)
(* The streaming decompressor of stream.rs: the input buffer and its       *)
(* cursor, one unit of the stream parsed at a time, the output buffer that *)
(* is also the window, and the compaction of both.                         *)
(*                                                                         *)
(* The stream is a sequence of units, each len bytes long: skippable       *)
(* frames, headers, blocks, checksums, junk that no decoder accepts, and a *)
(* stub, a unit the input ends in the middle of.  A byte of output is      *)
(* known by its position in the whole output; history variables say which  *)
(* of them the buffer holds (drained), where the open frame's begin        *)
(* (frame_base) and how many the caller has (delivered).                   *)
(*                                                                         *)
(* A call of stream() is a step that appends the input, one step per turn  *)
(* of its loop that makes progress, and a step for what follows the loop.  *)
(***************************************************************************)
EXTENDS Integers, Sequences, FiniteSets

CONSTANTS
  None,             \* Rust's Option::None
  Streams,          \* the streams given to the decompressor
  Dictionary,       \* the dictionaries: records [id, len, trained]
  PrefixLens,       \* the lengths of the prefixes given to set_prefix
  FeedLens,         \* the lengths of the inputs of one call
  OutCaps,          \* the capacities of the output buffers
  WindowMax,        \* opts.window_max
  IgnoreChecksum,   \* opts.force_ignore_checksum
  BlockSizeMax,     \* BLOCKSIZE_MAX
  SlideExtraMax,    \* SLIDE_EXTRA_MAX
  OutFloor,         \* the 64 KiB below which compact never drains
  InFloor           \* the 64 KiB below which compact_input never drains

\* A match: at bytes into the block it copies len bytes from off bytes back.
Match == [at : Nat, off : Nat, len : Nat]

Unit ==
  [kind : {"header"}, len : Nat \ {0}, window : Nat, size : Nat \cup {None},
   id : Nat \cup {None}, checksum : BOOLEAN, ext : Nat]
  \cup [kind : {"block"}, len : Nat \ {0}, from : Nat, to : Nat,
        last : BOOLEAN, match : Match \cup {None}, coded : BOOLEAN,
        repeats : BOOLEAN]
  \cup [kind : {"checksum"}, len : Nat \ {0}, of : Nat]
  \cup [kind : {"skip", "junk", "stub"}, len : Nat \ {0}]

HeaderAt(s, i) ==          \* where the frame of unit i begins
  CHOOSE j \in 1 .. i :
    s[j].kind = "header" /\ \A k \in j + 1 .. i : s[k].kind # "header"

FrameEndsAt(s, i) ==       \* unit i is the last of its frame
  \/ s[i].kind \in {"skip", "checksum"}
  \/ s[i].kind = "block" /\ s[i].last /\ ~s[HeaderAt(s, i)].checksum

\* Units stand where the decoder reads them as what they are.  A header's ext
\* is the length of the dictionary or prefix the frame was made with.
InPlace(s) ==
  \A i \in DOMAIN s :
    /\ s[i].kind \in {"header", "skip"} => i = 1 \/ FrameEndsAt(s, i - 1)
    /\ s[i].kind = "block" =>
         /\ i > 1 /\ s[i].from <= s[i].to
         /\ \/ s[i-1].kind = "header" /\ s[i].from = 0
            \/ s[i-1].kind = "block" /\ ~s[i-1].last /\ s[i].from = s[i-1].to
         /\ s[i].match # None => s[i].match.at + s[i].match.len <= s[i].to - s[i].from
    /\ s[i].kind = "checksum" =>
         /\ i > 1 /\ s[i-1].kind = "block" /\ s[i-1].last
         /\ s[HeaderAt(s, i - 1)].checksum
    /\ s[i].kind = "junk" =>
         \/ i = 1 \/ FrameEndsAt(s, i - 1) \/ s[i-1].kind = "header"
         \/ s[i-1].kind = "block" /\ ~s[i-1].last
    /\ s[i].kind \in {"junk", "stub"} => i = Len(s)

Min2(a, b) == IF a <= b THEN a ELSE b
Max2(a, b) == IF a >= b THEN a ELSE b

Bytes(s) ==
  LET sum[i \in 0 .. Len(s)] == IF i = 0 THEN 0 ELSE sum[i-1] + s[i].len
  IN  sum[Len(s)]

ASSUME ConstantsOK ==
  /\ None \notin Int /\ None \notin Dictionary
  /\ None \notin Match /\ None \notin Unit
  /\ Streams \subseteq Seq(Unit) /\ \A s \in Streams : InPlace(s) /\ Bytes(s) \in Nat
  /\ Dictionary \subseteq [id : Nat, len : Nat, trained : BOOLEAN]
  /\ PrefixLens \subseteq Nat /\ FeedLens \subseteq Nat /\ OutCaps \subseteq Nat
  /\ WindowMax \in Nat /\ IgnoreChecksum \in BOOLEAN
  /\ BlockSizeMax \in Nat \ {0} /\ SlideExtraMax \in Nat
  /\ OutFloor \in Nat /\ InFloor \in Nat

VARIABLES
  in_len, in_off,                                  \* input
  decoded_len, decoded_off,                        \* decoded
  header, block_state, xxh, frame_out, in_checksum, saw_zstd,
  dict, prefix,                                    \* prefix: its length
  frame_start, frame_skipped,
  pc, room, eof, report,                           \* the call in progress
  stream, at, unfed,                               \* the input to come
  drained, frame_base, delivered, loaded, garbled, broken  \* history variables

inbuf  == <<in_len, in_off>>
outbuf == <<decoded_len, decoded_off, drained, delivered>>
frame  == <<header, block_state, xxh, frame_out, in_checksum, frame_start,
            frame_skipped, frame_base, loaded, garbled>>
config == <<dict, prefix>>
call   == <<pc, room, eof, report>>
vars   == <<inbuf, outbuf, frame, config, call, saw_zstd, stream, at, unfed,
            broken>>

-----------------------------------------------------------------------------
Avail == in_len - in_off                    \* in_avail
Have  == decoded_len - decoded_off

BlockMaxOf(h) == Min2(h.window, BlockSizeMax)

\* The digest of the first n bytes of a frame, or of something else.
Garbled == -1

Init ==
  /\ in_len = 0 /\ in_off = 0 /\ decoded_len = 0 /\ decoded_off = 0
  /\ header = None /\ block_state = "new" /\ xxh = 0 /\ frame_out = 0
  /\ in_checksum = FALSE /\ saw_zstd = FALSE
  /\ dict = None /\ prefix = 0 /\ frame_start = 0 /\ frame_skipped = 0
  /\ pc = "idle" /\ room = 0 /\ eof = FALSE /\ report = "none"
  /\ stream \in Streams /\ at = 1 /\ unfed = Bytes(stream)
  /\ drained = 0 /\ frame_base = 0 /\ delivered = 0 /\ loaded = <<>>
  /\ garbled = FALSE /\ broken = FALSE

-----------------------------------------------------------------------------
\* set_dictionary and set_prefix, called as documented, before decompressing:
\* between frames.
SetDictionary(d) ==
  /\ pc = "idle" /\ header = None /\ ~broken
  /\ dict' = d /\ prefix' = d.len
  /\ UNCHANGED <<inbuf, outbuf, frame, call, saw_zstd, stream, at, unfed, broken>>

SetPrefix(n) ==
  /\ pc = "idle" /\ header = None /\ ~broken
  /\ dict' = None /\ prefix' = n
  /\ UNCHANGED <<inbuf, outbuf, frame, call, saw_zstd, stream, at, unfed, broken>>

\* stream() begins: the input joins the buffer.  end is only set when the
\* caller has no more; no call follows an error that lost the decoder's place.
Call(n, cap, end) ==
  /\ pc = "idle" /\ ~broken
  /\ n <= unfed /\ (end => n = unfed)
  /\ in_len' = in_len + n /\ unfed' = unfed - n
  /\ pc' = "run" /\ room' = cap /\ eof' = end /\ report' = "none"
  /\ UNCHANGED <<in_off, outbuf, frame, config, saw_zstd, stream, at, broken>>

-----------------------------------------------------------------------------
\* The loop stops when what is decoded fills the caller's buffer ...
Enough_mut == Have > 0 /\ room = 0
Enough     == Have > 0 /\ Have >= room

\* ... or when the next unit is not all there.
Arrived_mut == at <= Len(stream) /\ stream[at].kind # "stub" /\ Avail > stream[at].len
Arrived     == at <= Len(stream) /\ stream[at].kind # "stub" /\ Avail >= stream[at].len

Parsing(kind) ==
  /\ pc = "run" /\ ~Enough /\ Arrived /\ stream[at].kind = kind

\* The unit is parsed and the cursor moves past it.
Consume == in_off' = in_off + stream[at].len /\ at' = at + 1

\* An error before the cursor moves: the same call may be made again.
Refused_mut(e) ==
  /\ pc' = "idle" /\ room' = 0 /\ report' = e
  /\ in_off' = in_off + stream[at].len
  /\ UNCHANGED <<in_len, outbuf, frame, config, eof, saw_zstd, stream, at,
                 unfed, broken>>
Refused(e) ==
  /\ pc' = "idle" /\ room' = 0 /\ report' = e
  /\ UNCHANGED <<inbuf, outbuf, frame, config, eof, saw_zstd, stream, at,
                 unfed, broken>>

\* An error once the cursor has moved: the frame is lost.
Broken(e) ==
  /\ pc' = "idle" /\ room' = 0 /\ report' = e /\ broken' = TRUE
  /\ in_off' = in_off + stream[at].len
  /\ UNCHANGED <<in_len, outbuf, frame, config, eof, saw_zstd, stream, at, unfed>>

\* try_header.
SkipFrame ==
  /\ Parsing("skip")
  /\ Consume
  /\ UNCHANGED <<in_len, outbuf, frame, config, call, saw_zstd, stream, unfed,
                 broken>>

Junk ==
  /\ Parsing("junk")
  /\ \/ header = None /\ Refused(IF saw_zstd THEN "TrailingBytes" ELSE "BadMagic")
     \/ header # None /\ Refused("ReservedBlockType")

\* What the decoder lacks to open a frame.
HeaderFault(h) ==
  CASE h.window > WindowMax              -> "WindowTooLarge"
    [] h.id # None /\ dict = None        -> "DictionaryNeeded"
    [] h.id # None /\ dict # None /\ dict.id # h.id -> "DictionaryMismatch"
    [] OTHER                             -> "none"

HeaderRefused ==
  /\ Parsing("header") /\ HeaderFault(stream[at]) # "none"
  /\ Refused(HeaderFault(stream[at]))

\* BlockState::from_dict.
StateFromDict == IF dict # None /\ dict.trained THEN "dict" ELSE "new"

OpenFrame ==
  /\ Parsing("header") /\ HeaderFault(stream[at]) = "none"
  /\ Consume
  /\ header' = stream[at] /\ block_state' = StateFromDict
  /\ xxh' = 0 /\ frame_out' = 0 /\ saw_zstd' = TRUE
  /\ frame_start' = decoded_len /\ frame_skipped' = 0
  /\ frame_base' = drained + decoded_len
  /\ loaded' = Append(loaded, [len |-> prefix, state |-> StateFromDict])
  /\ UNCHANGED <<in_len, outbuf, in_checksum, config, call, stream, unfed,
                 garbled, broken>>

-----------------------------------------------------------------------------
\* copy_match for the match of block u, decoded at the end of the buffer: how
\* much of the frame lies before it, and where in dictionary \o frame its
\* source begins.
Produced(u)  == decoded_len + u.match.at - frame_start + frame_skipped
SourcePos(u) == prefix + Produced(u) - u.match.off
InFrame(u)   == SourcePos(u) >= prefix
Spill(u)     == u.match.len - (prefix - SourcePos(u))

MatchFound(u) ==
  /\ u.match.off # 0 /\ u.match.off <= prefix + Produced(u)
  /\ \/ /\ InFrame(u)
        /\ u.match.off <= header.window
        /\ SourcePos(u) - prefix >= frame_skipped
     \/ ~InFrame(u) /\ (Spill(u) > 0 => frame_skipped = 0)

\* The buffer index the bytes of the frame are copied from.
SourceIndex(u) ==
  frame_start + (IF InFrame(u) THEN SourcePos(u) - prefix - frame_skipped ELSE 0)

\* The match copies the bytes it copied from in the content.
WrongHistory(u) == u.match # None /\ ~InFrame(u) /\ prefix # header.ext
MatchRight(u) ==
  IF InFrame(u)
  THEN /\ u.match.off <= u.from + u.match.at
       /\ drained + SourceIndex(u) = frame_base + u.from + u.match.at - u.match.off
  ELSE /\ SourcePos(u) = header.ext + u.from + u.match.at - u.match.off
       /\ Spill(u) > 0 => drained + SourceIndex(u) = frame_base

\* try_block's checks, and what decode_compressed_block rejects.
BlockFault(u) ==
  CASE u.to - u.from > BlockMaxOf(header)              -> "BlockTooLarge"
    [] u.repeats /\ block_state = "new"                -> "Corruption"
    [] u.match # None /\ ~MatchFound(u)                -> "Corruption"
    [] u.last /\ ~header.checksum /\ header.size # None
       /\ header.size # frame_out + (u.to - u.from)    -> "ContentSizeMismatch"
    [] OTHER                                           -> "none"

BlockRefused ==
  /\ Parsing("block") /\ BlockFault(stream[at]) # "none"
  /\ Broken(BlockFault(stream[at]))

\* finish_frame.
FinishFrame == header' = None /\ in_checksum' = FALSE /\ block_state' = "new"

DecodeBlock ==
  /\ Parsing("block") /\ BlockFault(stream[at]) = "none"
  /\ Consume
  /\ LET u == stream[at]
         right == u.match = None \/ WrongHistory(u) \/ MatchRight(u)
     IN
     /\ decoded_len' = decoded_len + (u.to - u.from)
     /\ frame_out' = frame_out + (u.to - u.from)
     /\ garbled' = (garbled \/ ~right)
     /\ xxh' = IF right /\ ~WrongHistory(u) /\ xxh = u.from THEN u.to ELSE Garbled
     /\ IF u.last /\ ~header.checksum
        THEN FinishFrame
        ELSE /\ in_checksum' = u.last
             /\ block_state' = IF u.coded THEN "used" ELSE block_state
             /\ UNCHANGED header
  /\ UNCHANGED <<in_len, decoded_off, drained, delivered, frame_start,
                 frame_skipped, frame_base, loaded, config, call, saw_zstd,
                 stream, unfed, broken>>

\* The checksum, then the content size.
ChecksumFault(u) ==
  CASE xxh # u.of                                          -> "ChecksumMismatch"
    [] header.size # None /\ header.size # frame_out       -> "ContentSizeMismatch"
    [] OTHER                                               -> "none"

ChecksumRefused ==
  /\ Parsing("checksum") /\ ChecksumFault(stream[at]) # "none"
  /\ Broken(ChecksumFault(stream[at]))

VerifyChecksum ==
  /\ Parsing("checksum") /\ ChecksumFault(stream[at]) = "none"
  /\ Consume
  /\ FinishFrame
  /\ UNCHANGED <<in_len, outbuf, xxh, frame_out, frame_start, frame_skipped,
                 frame_base, loaded, garbled, config, call, saw_zstd, stream,
                 unfed, broken>>

-----------------------------------------------------------------------------
\* compact_input: the dead prefix goes when nothing else is left, or when it is
\* long and twice the rest.
CompactInput ==
  IF in_off = in_len \/ (in_off >= InFloor /\ 3 * in_off >= 2 * in_len)
  THEN in_len' = in_len - in_off /\ in_off' = 0
  ELSE UNCHANGED inbuf

\* compact, off bytes of decoded having been handed over: what may go, how much
\* of it there must be, and where that leaves the open frame.
KeepWindow == IF header # None THEN header.window ELSE BlockSizeMax

Droppable_mut(off) == off
Droppable(off) == Min2(off, Max2(decoded_len - KeepWindow, 0))

DropFrom == Max2(KeepWindow + Min2(KeepWindow, SlideExtraMax), OutFloor)

MoveFrame_mut(drop) ==
  /\ frame_start' = 0
  /\ frame_skipped' = frame_skipped + Max2(drop - frame_start, 0)
MoveFrame(drop) ==
  IF drop <= frame_start
  THEN frame_start' = frame_start - drop /\ UNCHANGED frame_skipped
  ELSE /\ frame_skipped' = frame_skipped + (drop - frame_start)
       /\ frame_start' = 0

Compact(off) ==
  IF Droppable(off) >= DropFrom
  THEN /\ decoded_len' = decoded_len - Droppable(off)
       /\ decoded_off' = off - Droppable(off)
       /\ drained' = drained + Droppable(off)
       /\ MoveFrame(Droppable(off))
  ELSE decoded_off' = off
       /\ UNCHANGED <<decoded_len, drained, frame_start, frame_skipped>>

Finished_mut(off) == eof /\ Avail = 0 /\ header = None
Finished(off) == eof /\ Avail = 0 /\ header = None /\ off = decoded_len

\* The end of the call: compact the input, hand over what fits, compact the
\* output, and report.
Return ==
  /\ pc = "run" /\ (Enough \/ ~Arrived)
  /\ LET n   == Min2(Have, room)
         off == decoded_off + n
     IN
     /\ CompactInput
     /\ Compact(off)
     /\ delivered' = delivered + n
     /\ report' = IF eof /\ header = None
                     /\ \/ Avail # 0 /\ Have = 0
                        \/ Finished(off) /\ ~saw_zstd
                  THEN "UnexpectedEof"
                  ELSE IF Finished(off) THEN "done" ELSE "more"
  /\ pc' = "idle" /\ room' = 0
  /\ UNCHANGED <<header, block_state, xxh, frame_out, in_checksum, frame_base,
                 loaded, garbled, config, eof, saw_zstd, stream, at, unfed,
                 broken>>

Running ==
  SkipFrame \/ Junk \/ HeaderRefused \/ OpenFrame \/ BlockRefused \/ DecodeBlock
  \/ ChecksumRefused \/ VerifyChecksum \/ Return

Next ==
  \/ \E n \in FeedLens, cap \in OutCaps, end \in BOOLEAN : Call(n, cap, end)
  \/ Running
  \/ \E d \in Dictionary : SetDictionary(d)
  \/ \E n \in PrefixLens : SetPrefix(n)

Spec == Init /\ [][Next]_vars

-----------------------------------------------------------------------------
Reports ==
  {"none", "more", "done", "UnexpectedEof", "BadMagic", "TrailingBytes",
   "ReservedBlockType", "WindowTooLarge", "DictionaryNeeded",
   "DictionaryMismatch", "BlockTooLarge", "Corruption", "ChecksumMismatch",
   "ContentSizeMismatch"}

\* Every variable has its type.
TypeOK ==
  /\ in_len \in Nat /\ in_off \in Nat
  /\ decoded_len \in Nat /\ decoded_off \in Nat
  /\ header \in Unit \cup {None}
  /\ header # None => header.kind = "header"
  /\ block_state \in {"new", "dict", "used"} /\ xxh \in Int /\ frame_out \in Nat
  /\ in_checksum \in BOOLEAN /\ saw_zstd \in BOOLEAN
  /\ dict \in Dictionary \cup {None} /\ prefix \in Nat
  /\ frame_start \in Nat /\ frame_skipped \in Nat
  /\ pc \in {"idle", "run"} /\ room \in Nat /\ eof \in BOOLEAN
  /\ report \in Reports
  /\ stream \in Streams /\ at \in Nat \ {0} /\ unfed \in Int
  /\ drained \in Nat /\ frame_base \in Nat /\ delivered \in Nat
  /\ loaded \in Seq([len : Nat, state : {"new", "dict"}]) /\ garbled \in BOOLEAN /\ broken \in BOOLEAN

\* A match of block u that begins before the frame, in the history.
Reaches(u) == u.match # None /\ u.match.off > u.from + u.match.at

\* What a decoder that has the whole stream and keeps all of its output, as
\* decode_zstd_frame does, accepts of unit i; hist is what was loaded when its
\* frame was opened.  A checksum fails over matches into some other history.
Accepts(s, i, hist) ==
  LET u == s[i]
      h == s[HeaderAt(s, i)]
      Blocks == HeaderAt(s, i) + 1 .. i - 1
      SizeIs(n) == h.size \in {None, n}
  IN
  CASE u.kind = "header"   -> u.window <= WindowMax
    [] u.kind = "block"    ->
         /\ u.to - u.from <= BlockMaxOf(h)
         /\ u.match # None =>
              /\ u.match.off \in 1 .. hist.len + u.from + u.match.at
              /\ u.match.off <= h.window \/ Reaches(u)
         /\ u.repeats => hist.state = "dict" \/ \E j \in Blocks : s[j].coded
         /\ u.last /\ ~h.checksum => SizeIs(u.to)
    [] u.kind = "checksum" ->
         /\ u.of = s[i-1].to /\ SizeIs(u.of)
         /\ hist.len = h.ext \/ \A j \in Blocks : ~Reaches(s[j])
    [] OTHER               -> u.kind = "skip"

AcceptsAt(i) ==
  Accepts(stream, i,
          loaded[Cardinality({j \in 1 .. i : stream[j].kind = "header"})])

\* A match into the history from beyond the window, which the format forbids:
\* decode_zstd_frame accepts it, and so does stream() while it has the frame's
\* first bytes.
BeyondWindow(u) ==
  /\ u.kind = "block" /\ Reaches(u)
  /\ u.from + u.match.at > stream[HeaderAt(stream, at)].window

\* However input and output are cut, the decoder accepts what a decoder that
\* sees everything accepts, and rejects the first unit that one rejects: the
\* window is there whenever a match needs it.
AcceptsLikeOneShot ==
  /\ \A i \in 1 .. at - 1 : AcceptsAt(i)
  /\ broken => ~AcceptsAt(at) \/ BeyondWindow(stream[at])

\* The bytes handed over are the content, in order, each once: every match
\* copied the bytes it names wherever compaction had moved them.
OutputIsContent == ~garbled /\ delivered = drained + decoded_off

Content(s) ==
  LET sum[i \in 0 .. Len(s)] ==
        IF i = 0 THEN 0
        ELSE sum[i-1] + IF s[i].kind = "block" /\ s[i].last THEN s[i].to ELSE 0
  IN  sum[Len(s)]

\* What a call says of the end is true: done, that the stream ends where a
\* frame does, has a frame, and all its content is in the caller's hands;
\* UnexpectedEof, that it ends inside a unit or has no frame.
TrueEnd ==
  /\ report = "done" =>
       /\ at = Len(stream) + 1 /\ FrameEndsAt(stream, Len(stream))
       /\ \E i \in DOMAIN stream : stream[i].kind = "header"
       /\ delivered = Content(stream)
  /\ report = "UnexpectedEof" =>
       \/ stream[Len(stream)].kind = "stub"
       \/ \A i \in DOMAIN stream : stream[i].kind = "skip"

\* A unit is parsed once, and none of its bytes twice, whatever the buffer did;
\* a header refused for want of a dictionary is still there for the next call.
PlaceKept ==
  ~broken => Avail + unfed = Bytes(SubSeq(stream, at, Len(stream)))

\* Memory: whatever the caller feeds in one call, decoded holds no more than
\* what compaction leaves, the caller's buffer and a block.
MaxWindow == Max2(WindowMax, BlockSizeMax)
MostLeft  == MaxWindow + Max2(MaxWindow + Min2(MaxWindow, SlideExtraMax), OutFloor)
BoundedOutput ==
  \A cap \in OutCaps : (\A c \in OutCaps : c <= cap) =>
    decoded_len < MostLeft + Max2(cap, 1) + BlockSizeMax

-----------------------------------------------------------------------------
\* A call runs to its end; a caller feeds what it has, and then keeps asking
\* with room for output.
Feed  == \E n \in FeedLens \ {0}, cap \in OutCaps, end \in BOOLEAN : Call(n, cap, end)
Drain == \E cap \in OutCaps \ {0} : Call(0, cap, TRUE)

FairSpec == Spec /\ WF_vars(Running) /\ SF_vars(Feed) /\ SF_vars(Drain)

\* Every stream is decided: the caller hears done or an error.
Decided == <>(report \notin {"none", "more"})
=============================================================================
