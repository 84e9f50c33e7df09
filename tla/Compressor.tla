----------------------------- MODULE Compressor -----------------------------
(***************************************************************************)
(* The streaming compressor of stream.rs: frames, the pledge, the sticky   *)
(* error, dictionaries and prefixes, absorption of input into the history  *)
(* buffer, block emission, the window slide, and the output cursor.        *)
(*                                                                         *)
(* A byte of input is known by its position in the frame.  The history     *)
(* buffer is a contiguous slice of (external history \o frame input), so   *)
(* it is its length, the cursor hist_done, and two history variables that  *)
(* say which bytes it holds: ext, the length of the dictionary or prefix   *)
(* the frame began with, and dropped, the bytes slides have drained.       *)
(* Output is counted in items (a header, a block, a checksum), each one    *)
(* unit long.                                                              *)
(*                                                                         *)
(* A call of stream() runs to completion: pc is "idle" between calls and   *)
(* "run" while the loops of one call execute, one iteration per step.      *)
(***************************************************************************)
EXTENDS Integers, Sequences

CONSTANTS
  None,           \* Rust's Option::None
  Window,         \* 1 << window_log, in bytes
  BlockSizeMax,   \* BLOCKSIZE_MAX
  Lookahead,      \* ABSORB_LOOKAHEAD
  SlideMuls,      \* the history multipliers set_slide_mul is called with
  SlideExtraMax,  \* SLIDE_EXTRA_MAX
  OutReclaim,     \* the 64 KiB below which take_output never drains
  Dictionary,     \* the dictionaries: records [id, len, trained]
  PrefixLens,     \* the lengths of the prefixes given to set_prefix
  Pledges,        \* the sizes given to set_pledged_src_size
  InputLens,      \* the lengths of the inputs of one call
  OutCaps,        \* the capacities of the output buffers
  MaxFed,         \* bound: bytes fed to one frame
  CoderMayFail    \* whether encode_block may return an error

ASSUME ConstantsOK ==
  /\ None \notin Int /\ None \notin {"ContentSizeMismatch", "Corruption"}
  /\ None \notin Dictionary
  /\ Window \in Nat \ {0}
  /\ BlockSizeMax \in Nat \ {0}
  /\ Lookahead \in Nat
  /\ SlideMuls \subseteq 2 .. 8
  /\ SlideExtraMax \in Nat
  /\ OutReclaim \in Nat
  /\ Dictionary \subseteq [id : Nat, len : Nat, trained : BOOLEAN]
  /\ PrefixLens \subseteq Nat
  /\ Pledges \subseteq Nat
  /\ InputLens \subseteq Nat
  /\ OutCaps \subseteq Nat
  /\ MaxFed \in Nat
  /\ CoderMayFail \in BOOLEAN

VARIABLES
  checksum, slide_mul, dict, write_dict_id,       \* settings
  pledged, err, started, ended, produced_in, last_block_written, xxh,
  coder, tables, hist_len, hist_done, dict_id,    \* what block coding reads
  out_acc, out_off,
  pc, rest, flush, outcap,                        \* the call in progress
  ext, dropped, fed, taken, lost, report          \* history variables

settings == <<checksum, slide_mul, dict, write_dict_id>>
phase    == <<started, ended, produced_in, last_block_written, xxh>>
history  == <<coder, tables, hist_len, hist_done, dict_id, ext, dropped>>
output   == <<out_acc, out_off, taken>>
call     == <<pc, rest, flush, outcap>>
vars     == <<settings, pledged, err, phase, history, output, call, fed, lost,
              report>>

-----------------------------------------------------------------------------
Min2(a, b) == IF a <= b THEN a ELSE b

Flush == {"Continue", "Flush", "End"}

\* History length at which the window slides.
SlideThreshold_mut(mul) == 2 * Window + (mul - 2) * Window
SlideThreshold(mul) == 2 * Window + Min2((mul - 2) * Window, SlideExtraMax)

BlockMax == Min2(Window, BlockSizeMax)

Pending    == hist_len - hist_done          \* bytes no block has coded yet
OutPending == Len(out_acc) - out_off

\* Every call is refused while an error sticks.
Usable == pc = "idle" /\ err = None

\* Whether an output buffer of this size takes all that is left.
AllTaken_mut(cap) == TRUE
AllTaken(cap)     == OutPending <= cap

\* The pending input a full block waits for: itself and its lookahead.
AbsorbLimit_mut == BlockMax
AbsorbLimit     == BlockMax + Lookahead

BlockReady_mut == Pending > AbsorbLimit
BlockReady     == Pending >= AbsorbLimit

\* The position in the frame of hist[i]; negative in the external history.
FramePos(i) == dropped + i - ext

\* The running content hash is known by the prefix of the frame it digests;
\* Garbled stands for the digest of anything else.
Garbled == -1
Digest(h, from, to) == IF h = from THEN to ELSE Garbled

\* write_frame_header: Single_Segment makes the window the content size.
Header(size, id, has_hist) ==
  [kind |-> "header", size |-> size, id |-> id, checksum |-> checksum,
   window |-> IF size # None /\ ~has_hist /\ size <= Window
              THEN size ELSE Window]

\* A block: the frame bytes it codes, the history before it, the bytes the
\* finders may look at past its end, and whether far repeats are allowed.
Block(from, to, last, avail, ahead, far) ==
  [kind |-> "block", from |-> from, to |-> to, last |-> last,
   avail |-> avail, ahead |-> ahead, far |-> far]

Checksum(h) == [kind |-> "checksum", of |-> h]

Item ==
  [kind : {"header"}, size : Nat \cup {None}, id : Nat \cup {None},
   checksum : BOOLEAN, window : Nat]
  \cup [kind : {"block"}, from : Int, to : Int, last : BOOLEAN,
        avail : Nat, ahead : Nat, far : BOOLEAN]
  \cup [kind : {"checksum"}, of : Int]

\* Everything written for the current frame: what the caller has taken and
\* what is still in out_acc.
Frame == taken \o SubSeq(out_acc, out_off + 1, Len(out_acc))

-----------------------------------------------------------------------------
Init ==
  /\ checksum \in BOOLEAN
  /\ slide_mul \in SlideMuls
  /\ dict = None /\ write_dict_id = TRUE
  /\ pledged = None /\ err = None
  /\ started = FALSE /\ ended = FALSE /\ produced_in = 0
  /\ last_block_written = FALSE /\ xxh = 0
  /\ coder = "fresh" /\ tables = "fresh" /\ hist_len = 0 /\ hist_done = 0
  /\ dict_id = None /\ ext = 0 /\ dropped = 0
  /\ out_acc = <<>> /\ out_off = 0 /\ taken = <<>>
  /\ pc = "idle" /\ rest = 0 /\ flush = "Continue" /\ outcap = 0
  /\ fed = 0 /\ lost = 0 /\ report = "none"

-----------------------------------------------------------------------------
ClearHistory_mut ==
  /\ tables' = "fresh"
  /\ hist_len' = 0 /\ hist_done' = 0 /\ dict_id' = None
  /\ ext' = 0 /\ dropped' = 0 /\ coder' = coder
\* clear_history: new tables, entropy and reps, no history.
ClearHistory ==
  /\ coder' = "fresh" /\ tables' = "fresh"
  /\ hist_len' = 0 /\ hist_done' = 0 /\ dict_id' = None
  /\ ext' = 0 /\ dropped' = 0

\* load_dictionary, after clear_history when cleared holds.
LoadDictionary(d, cleared) ==
  /\ hist_len' = (IF cleared THEN 0 ELSE hist_len) + d.len
  /\ hist_done' = (IF cleared THEN 0 ELSE hist_len) + d.len
  /\ ext' = (IF cleared THEN 0 ELSE ext) + d.len
  /\ dropped' = IF cleared THEN 0 ELSE dropped
  /\ dict_id' = IF d.id # 0 THEN d.id ELSE None
  /\ tables' = "primed"
  /\ coder' = IF d.trained THEN "dict" ELSE IF cleared THEN "fresh" ELSE coder

\* The rest of reset(): no frame is open and nothing is left to take.
ClearFrame ==
  /\ err' = None
  /\ started' = FALSE /\ ended' = FALSE /\ produced_in' = 0
  /\ last_block_written' = FALSE /\ xxh' = 0
  /\ out_acc' = <<>> /\ out_off' = 0 /\ taken' = <<>>
  /\ fed' = 0

\* The history a frame starts with after reset(): the dictionary, reloaded.
ReloadHistory == IF dict = None THEN ClearHistory ELSE LoadDictionary(dict, TRUE)

\* The frame is finished and all of it taken: next_frame_if_finished resets.
NextFrameDue == ended /\ OutPending = 0 /\ err = None

\* The compressor moves on to the next frame by itself, the caller having
\* taken all but untaken items of this one.
MoveOn(untaken) == lost' = lost + untaken

\* reset: the caller abandons the frame.
Reset ==
  /\ pc = "idle"
  /\ ClearFrame /\ ReloadHistory
  /\ pledged' = None /\ report' = "none"
  /\ UNCHANGED <<settings, call, lost>>

\* set_pledged_src_size: ignored inside a frame.
SetPledgedSrcSize(n) ==
  /\ pc = "idle"
  /\ \/ /\ NextFrameDue
        /\ ClearFrame /\ ReloadHistory /\ MoveOn(OutPending)
        /\ pledged' = n /\ report' = "none"
     \/ /\ ~NextFrameDue /\ ~started
        /\ pledged' = n
        /\ UNCHANGED <<err, phase, history, output, fed, lost, report>>
  /\ UNCHANGED <<settings, call>>

\* set_dictionary and set_prefix start the next frame if it is due, and are
\* refused inside a frame.
StartOver ==
  \/ NextFrameDue /\ ClearFrame /\ MoveOn(OutPending)
     /\ pledged' = None /\ report' = "none"
  \/ ~NextFrameDue /\ ~started
     /\ UNCHANGED <<pledged, err, phase, output, fed, lost, report>>

HistoryInTheWay == NextFrameDue \/ dict # None \/ hist_len > 0

SetDictionary(d) ==
  /\ pc = "idle"
  /\ StartOver
  /\ LoadDictionary(d, HistoryInTheWay)
  /\ dict' = d
  /\ write_dict_id' = (d.id # 0)
  /\ UNCHANGED <<checksum, slide_mul, call>>

SetPrefix(n) ==
  /\ pc = "idle"
  /\ StartOver
  /\ LET old == IF HistoryInTheWay THEN 0 ELSE hist_len IN
     /\ hist_len' = old + n /\ hist_done' = old + n
     /\ ext' = (IF HistoryInTheWay THEN 0 ELSE ext) + n
     /\ dropped' = IF HistoryInTheWay THEN 0 ELSE dropped
     /\ dict_id' = IF HistoryInTheWay THEN None ELSE dict_id
     /\ coder' = IF HistoryInTheWay THEN "fresh" ELSE coder
     /\ tables' = "primed"
  /\ dict' = None /\ write_dict_id' = FALSE
  /\ UNCHANGED <<checksum, slide_mul, call>>

SetWriteDictId(b) ==
  /\ pc = "idle"
  /\ \/ /\ NextFrameDue
        /\ ClearFrame /\ ReloadHistory /\ MoveOn(OutPending)
        /\ pledged' = None /\ report' = "none"
     \/ /\ ~NextFrameDue /\ ~started
        /\ UNCHANGED <<pledged, err, phase, history, output, fed, lost, report>>
  /\ write_dict_id' = b
  /\ UNCHANGED <<checksum, slide_mul, dict, call>>

SetSlideMul(k) ==
  /\ pc = "idle"
  /\ slide_mul' = k
  /\ UNCHANGED <<checksum, dict, write_dict_id, pledged, err, phase, history,
                 output, call, fed, lost, report>>

-----------------------------------------------------------------------------
TakeOutput_mut(cap) ==
  IF OutPending <= cap
  THEN /\ taken' = taken \o SubSeq(out_acc, out_off + 1, Len(out_acc))
       /\ out_acc' = <<>> /\ out_off' = 0
  ELSE UNCHANGED output
\* take_output: hand over up to cap items and advance the cursor; reclaim the
\* dead prefix when all is read, or when it is long and outweighs the rest.
TakeOutput(cap) ==
  LET n   == Min2(OutPending, cap)
      off == out_off + n
      left == Len(out_acc) - off
  IN
  /\ taken' = taken \o SubSeq(out_acc, out_off + 1, off)
  /\ IF left = 0
     THEN out_acc' = <<>> /\ out_off' = 0
     ELSE IF off >= OutReclaim /\ off >= left
          THEN out_acc' = SubSeq(out_acc, off + 1, Len(out_acc)) /\ out_off' = 0
          ELSE out_acc' = out_acc /\ out_off' = off

\* The hash covers the block, not the pending input behind it.
HashedTo_mut(end) == FramePos(hist_len)
HashedTo(end)     == FramePos(end)

\* The slide: drop coded history down to one window and prime the tables anew.
Slide_mut(end) ==
  LET drop == hist_len - Window IN
  /\ hist_len' = hist_len - drop /\ hist_done' = Window
  /\ dropped' = dropped + drop /\ tables' = "primed"
Slide_mut2(end) ==
  LET drop == hist_len - Window IN
  /\ hist_len' = hist_len - drop /\ hist_done' = end - drop
  /\ dropped' = dropped + drop /\ tables' = "primed"
Slide(end) ==
  LET drop == end - Window IN
  /\ hist_len' = hist_len - drop /\ hist_done' = end - drop
  /\ dropped' = dropped + drop /\ tables' = "primed"

\* emit_block, when the coder succeeds: hash the block, advance the cursor,
\* append the block, slide the window if the coded history is long enough.
EmitBlock(take, last) ==
  LET start == hist_done
      end   == hist_done + take
  IN
  /\ xxh' = IF take > 0 THEN Digest(xxh, FramePos(start), HashedTo(end)) ELSE xxh
  /\ out_acc' = Append(out_acc,
       Block(FramePos(start), FramePos(end), last, start,
             Min2(Lookahead, hist_len - end), produced_in + take <= Window))
  /\ coder' = IF take > 0 THEN "touched" ELSE coder
  /\ IF end >= SlideThreshold(slide_mul)
     THEN Slide(end)
     ELSE /\ hist_done' = end
          /\ tables' = IF take > 0 THEN "touched" ELSE tables
          /\ UNCHANGED <<hist_len, dropped>>
  /\ produced_in' = produced_in + take
  /\ last_block_written' = (last_block_written \/ last)
  /\ UNCHANGED <<dict_id, ext>>

\* emit_block, when the coder returns an error: hash and cursor have moved,
\* nothing after the coder runs, and the error sticks.
CoderFails(take) ==
  /\ CoderMayFail
  /\ err' = "Corruption" /\ report' = "error"
  /\ pc' = "idle" /\ rest' = 0 /\ outcap' = 0
  /\ hist_done' = hist_done + take
  /\ xxh' = IF take > 0
            THEN Digest(xxh, FramePos(hist_done), HashedTo(hist_done + take))
            ELSE xxh
  /\ coder' = "touched" /\ tables' = "touched"
  /\ UNCHANGED <<settings, pledged, started, ended, produced_in,
                 last_block_written, hist_len, dict_id, ext, dropped, output,
                 flush, fed, lost>>

-----------------------------------------------------------------------------
\* stream(), on a finished frame with output left over or no input: only
\* hands over output.
StreamEnded(n, cap, f) ==
  /\ Usable /\ ended
  /\ ~AllTaken(cap) \/ n = 0
  /\ TakeOutput(cap)
  /\ report' = IF AllTaken(cap) THEN "done" ELSE "more"
  /\ UNCHANGED <<settings, pledged, err, phase, history, call, fed, lost>>

\* stream(), on a finished frame whose output all fits and with input: the
\* next frame starts in this very call.
StreamNextFrame(n, cap, f) ==
  /\ Usable /\ ended
  /\ AllTaken(cap) /\ n > 0
  /\ n <= MaxFed
  /\ MoveOn(OutPending - Min2(OutPending, cap))
  /\ ReloadHistory
  /\ err' = None /\ started' = TRUE /\ ended' = FALSE /\ produced_in' = 0
  /\ last_block_written' = FALSE /\ xxh' = 0
  /\ out_off' = 0 /\ taken' = <<>> /\ fed' = 0
  /\ out_acc' = << Header(None, IF write_dict_id THEN dict_id' ELSE None,
                          hist_len' > 0) >>
  /\ pledged' = None
  /\ pc' = "run" /\ rest' = n /\ flush' = f /\ outcap' = cap - OutPending
  /\ report' = "none"
  /\ UNCHANGED settings

BreaksPledge_mut(n, f) ==
  pledged # None /\ produced_in + Pending + n > pledged
\* The pledge check: more than was pledged, or an End that falls short.
BreaksPledge(n, f) ==
  /\ pledged # None
  /\ LET after == produced_in + Pending + n IN
     after > pledged \/ (f = "End" /\ after # pledged)

StreamBadPledge(n, cap, f) ==
  /\ Usable /\ ~ended
  /\ BreaksPledge(n, f)
  /\ err' = "ContentSizeMismatch" /\ report' = "error"
  /\ UNCHANGED <<settings, pledged, phase, history, output, call, fed, lost>>

\* stream(), inside a frame or at its start.
StreamBegin(n, cap, f) ==
  /\ Usable /\ ~ended
  /\ ~BreaksPledge(n, f)
  /\ fed + n <= MaxFed
  /\ out_acc' = IF started THEN out_acc
                ELSE Append(out_acc,
                       Header(pledged, IF write_dict_id THEN dict_id ELSE None,
                              hist_len > 0))
  /\ started' = TRUE
  /\ pc' = "run" /\ rest' = n /\ flush' = f /\ outcap' = cap
  /\ report' = "none"
  /\ UNCHANGED <<settings, pledged, err, ended, produced_in,
                 last_block_written, xxh, history, out_off, taken, fed, lost>>

\* One iteration of the absorb loop: append input up to a block and its
\* lookahead, or code a block once they are all there.
AbsorbAppend ==
  /\ pc = "run" /\ rest > 0
  /\ ~BlockReady
  /\ LET n == Min2(AbsorbLimit - Pending, rest) IN
     /\ hist_len' = hist_len + n
     /\ rest' = rest - n
     /\ fed' = fed + n
  /\ UNCHANGED <<settings, pledged, err, phase, coder, tables, hist_done,
                 dict_id, ext, dropped, output, pc, flush, outcap, lost, report>>

AbsorbBlock ==
  /\ pc = "run" /\ rest > 0
  /\ BlockReady
  /\ \/ /\ EmitBlock(BlockMax, FALSE)
        /\ UNCHANGED <<settings, pledged, err, started, ended, out_off, taken,
                       call, fed, lost, report>>
     \/ CoderFails(BlockMax)

\* One iteration of the loop that follows: full blocks, and all that is
\* pending when the caller flushes or ends.
MoreToCode_mut  == Pending >= BlockMax
MoreToCode_mut2 == Pending >= BlockMax \/ (flush = "End" /\ Pending > 0)
MoreToCode == Pending >= BlockMax \/ (flush # "Continue" /\ Pending > 0)

CodePending ==
  /\ pc = "run" /\ rest = 0 /\ MoreToCode
  /\ LET take == Min2(Pending, BlockMax) IN
     \/ /\ EmitBlock(take, flush = "End" /\ take = Pending)
        /\ UNCHANGED <<settings, pledged, err, started, ended, out_off, taken,
                       call, fed, lost, report>>
     \/ CoderFails(take)

\* emit_empty_last_if_needed.
EmptyLastBlock ==
  /\ pc = "run" /\ rest = 0 /\ ~MoreToCode
  /\ flush = "End" /\ ~ended /\ Pending = 0 /\ ~last_block_written
  /\ EmitBlock(0, TRUE)
  /\ UNCHANGED <<settings, pledged, err, started, ended, out_off, taken, call,
                 fed, lost, report>>

\* The checksum, and the end of the frame.
EndFrame ==
  /\ pc = "run" /\ rest = 0 /\ ~MoreToCode
  /\ flush = "End" /\ ~ended /\ (Pending # 0 \/ last_block_written)
  /\ out_acc' = IF checksum THEN Append(out_acc, Checksum(xxh)) ELSE out_acc
  /\ ended' = TRUE
  /\ UNCHANGED <<settings, pledged, err, started, produced_in,
                 last_block_written, xxh, history, out_off, taken, call, fed,
                 lost, report>>

\* The call returns.
Return ==
  /\ pc = "run" /\ rest = 0 /\ ~MoreToCode
  /\ flush # "End" \/ ended
  /\ TakeOutput(outcap)
  /\ report' = IF ended /\ AllTaken(outcap) THEN "done" ELSE "more"
  /\ pc' = "idle" /\ outcap' = 0
  /\ UNCHANGED <<settings, pledged, err, phase, history, rest, flush, fed, lost>>

Stream(n, cap, f) ==
  \/ StreamEnded(n, cap, f)
  \/ StreamNextFrame(n, cap, f)
  \/ StreamBadPledge(n, cap, f)
  \/ StreamBegin(n, cap, f)

Running ==
  AbsorbAppend \/ AbsorbBlock \/ CodePending \/ EmptyLastBlock \/ EndFrame
  \/ Return

Next ==
  \/ \E n \in InputLens, cap \in OutCaps, f \in Flush : Stream(n, cap, f)
  \/ Running
  \/ Reset
  \/ \E n \in Pledges : SetPledgedSrcSize(n)
  \/ \E d \in Dictionary : SetDictionary(d)
  \/ \E n \in PrefixLens : SetPrefix(n)
  \/ \E b \in BOOLEAN : SetWriteDictId(b)
  \/ \E k \in SlideMuls : SetSlideMul(k)

Spec == Init /\ [][Next]_vars

-----------------------------------------------------------------------------
\* Every variable has its type.
TypeOK ==
  /\ checksum \in BOOLEAN /\ slide_mul \in SlideMuls
  /\ dict \in Dictionary \cup {None} /\ write_dict_id \in BOOLEAN
  /\ pledged \in Nat \cup {None}
  /\ err \in {None, "ContentSizeMismatch", "Corruption"}
  /\ started \in BOOLEAN /\ ended \in BOOLEAN /\ produced_in \in Nat
  /\ last_block_written \in BOOLEAN /\ xxh \in Int
  /\ coder \in {"fresh", "dict", "touched"}
  /\ tables \in {"fresh", "primed", "touched"}
  /\ hist_len \in Nat /\ hist_done \in Nat
  /\ dict_id \in Nat \cup {None} /\ ext \in Nat /\ dropped \in Nat
  /\ out_acc \in Seq(Item) /\ out_off \in Nat /\ taken \in Seq(Item)
  /\ pc \in {"idle", "run"} /\ rest \in Nat /\ flush \in Flush
  /\ outcap \in Nat /\ fed \in Nat
  /\ lost \in Nat
  /\ report \in {"none", "more", "done", "error"}

\* A legal beginning of a frame: a header, blocks that code the input from its
\* first byte on, each where the one before it stopped, nothing but the
\* checksum of exactly those bytes after the block marked last.
WellFormed(f) ==
  \A i \in DOMAIN f :
    /\ (i = 1) <=> (f[i].kind = "header")
    /\ f[i].kind = "block" =>
         /\ f[i].from <= f[i].to
         /\ i = 2 => f[i].from = 0
         /\ i > 2 => /\ f[i-1].kind = "block" /\ ~f[i-1].last
                     /\ f[i].from = f[i-1].to
    /\ f[i].kind = "checksum" =>
         /\ i = Len(f) /\ i > 2
         /\ f[i-1].kind = "block" /\ f[i-1].last /\ f[i].of = f[i-1].to

\* A whole frame of n bytes of content.
CompleteFrame(f, n) ==
  /\ WellFormed(f) /\ Len(f) > 1
  /\ f[1].size \in {None, n}
  /\ LET b == IF f[1].checksum THEN Len(f) - 1 ELSE Len(f) IN
     /\ f[1].checksum => f[Len(f)].kind = "checksum"
     /\ f[b].kind = "block" /\ f[b].last /\ f[b].to = n

\* What is written for a frame is at all times a legal beginning of a frame:
\* across flushes, slides, output cursors and failed calls.
FrameWellFormed == WellFormed(Frame)

\* stream() reports done only when the caller holds a whole frame that codes
\* every byte it fed (the type's docs, and issue #24 on a retried End).
DoneMeansComplete == report = "done" => CompleteFrame(taken, fed)

\* A frame the compressor leaves behind by itself, when a call after the frame
\* ended starts the next one, was whole and was handed over to the last item
\* (issue #30).
FinishedFramesHandedOver == lost = 0 /\ (ended => CompleteFrame(Frame, fed))

\* No last block is written for a content size other than the pledged one,
\* which is the one in the header: the check comes before, not after it.
PledgeKept ==
  \A i \in DOMAIN Frame :
    Frame[i].kind = "block" /\ Frame[i].last => Frame[1].size \in {None, Frame[i].to}

\* The history holds every byte fed and not coded: coded and uncoded input
\* meet at hist_done, whatever the slides dropped (emit_block's comment:
\* dropping pending input would silently lose caller bytes).
NoInputLost ==
  err = None => /\ FramePos(hist_done) = produced_in
                /\ FramePos(hist_len) = fed
                /\ produced_in <= fed

\* Every block is coded with a full window of history before it, or with all
\* there has been: slides never cost a match.
FullWindow ==
  \A i \in DOMAIN Frame :
    Frame[i].kind = "block" => Frame[i].avail >= Min2(Window, ext + Frame[i].from)

\* Memory: the history never grows past two windows and SLIDE_EXTRA_MAX (or
\* the external history, if longer) by more than a block and its lookahead,
\* whatever one call is given (issue #31).
BoundedHistory ==
  \/ hist_len <= ext + BlockMax + Lookahead
  \/ hist_len < 2 * Window + SlideExtraMax + BlockMax + Lookahead

\* Before its first call, a frame starts from what the settings alone decide:
\* nothing of an earlier frame, dictionary or prefix reaches its bytes.
FreshStart ==
  ~started =>
    /\ ~ended /\ produced_in = 0 /\ ~last_block_written /\ xxh = 0
    /\ out_acc = <<>> /\ out_off = 0 /\ dropped = 0
    /\ hist_len = hist_done /\ hist_len = ext
    /\ dict # None => /\ hist_len = dict.len
                      /\ dict_id = IF dict.id # 0 THEN dict.id ELSE None
                      /\ coder = IF dict.trained THEN "dict" ELSE "fresh"
                      /\ tables = "primed"
    /\ dict = None => /\ dict_id = None /\ coder = "fresh"
                      /\ hist_len > 0 => tables = "primed"
                      /\ tables # "touched"

\* Between calls no full block is held back, and after a flush or an end
\* nothing is (Flush's docs).
NothingHeldBack ==
  pc = "idle" /\ started /\ err = None =>
    /\ Pending < BlockMax
    /\ flush # "Continue" => Pending = 0

-----------------------------------------------------------------------------
\* A call runs to its end; a caller that keeps asking for the output of a
\* frame that ended has room for some of it every time.
DrainCall == \E cap \in OutCaps \ {0}, f \in Flush : StreamEnded(0, cap, f)

FairSpec == Spec /\ WF_vars(Running) /\ SF_vars(DrainCall)

\* Every call returns: its loops end.
CallReturns == pc = "run" ~> pc = "idle"

\* A frame that ended is reported done, unless the caller starts over.
EndedFrameDone == ended ~> (report = "done" \/ ~ended)
=============================================================================
