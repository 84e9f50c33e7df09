---------------------------- MODULE WholeAppend ----------------------------
(***************************************************************************)
(* What the streaming compressor promises of its blocks: the ones the      *)
(* compressor of before issue #31 made, which appended the whole input of  *)
(* a call to its history and coded it afterwards.  The comment above the   *)
(* absorb loop of stream.rs states the promise: "The blocks, their         *)
(* boundaries and the slides are the ones the whole-call append produced." *)
(***************************************************************************)
EXTENDS Integers, Sequences

CONSTANTS None, Window, BlockSizeMax, Lookahead, SlideExtraMax

VARIABLES
  items,                               \* what the frame consists of so far
  hist_len, hist_done, ext, dropped,   \* the history buffer
  slide_mul, flush,
  busy,                                \* a call is running
  ended, failed

vars == <<items, hist_len, hist_done, ext, dropped, slide_mul, flush, busy,
          ended, failed>>

Min2(a, b) == IF a <= b THEN a ELSE b
BlockMax == Min2(Window, BlockSizeMax)
SlideThreshold == 2 * Window + Min2((slide_mul - 2) * Window, SlideExtraMax)
Pending == hist_len - hist_done
FramePos(i) == dropped + i - ext

Init ==
  /\ items = <<>> /\ hist_len = 0 /\ hist_done = 0 /\ ext = 0 /\ dropped = 0
  /\ slide_mul \in 2 .. 8 /\ flush = "Continue" /\ busy = FALSE
  /\ ended = FALSE /\ failed = FALSE

\* A new frame over some external history.
Restart ==
  /\ ~busy
  /\ items' = <<>> /\ ended' = FALSE /\ failed' \in {FALSE, failed}
  /\ hist_len' \in Nat /\ hist_done' = hist_len' /\ ext' = hist_len'
  /\ dropped' = 0
  /\ UNCHANGED <<slide_mul, flush, busy>>

SetSlideMul ==
  /\ ~busy /\ slide_mul' \in 2 .. 8
  /\ UNCHANGED <<items, hist_len, hist_done, ext, dropped, flush, busy, ended,
                 failed>>

\* A call: all of its input joins the history at once.
Call ==
  /\ ~busy /\ ~ended /\ ~failed
  /\ hist_len' - hist_len \in Nat
  /\ IF items = <<>>
     THEN Len(items') = 1 /\ items'[1].kind = "header"
     ELSE items' = items
  /\ flush' \in {"Continue", "Flush", "End"} /\ busy' = TRUE
  /\ UNCHANGED <<hist_done, ext, dropped, slide_mul, ended, failed>>

\* The same on a finished frame: the next one starts, over history of its own.
CallNextFrame ==
  /\ ~busy /\ ended /\ ~failed
  /\ hist_done' \in Nat /\ ext' = hist_done' /\ dropped' = 0
  /\ hist_len' - hist_done' \in Nat
  /\ Len(items') = 1 /\ items'[1].kind = "header"
  /\ flush' \in {"Continue", "Flush", "End"} /\ busy' = TRUE /\ ended' = FALSE
  /\ UNCHANGED <<slide_mul, failed>>

Code(take, last) ==
  LET end  == hist_done + take
      drop == IF end >= SlideThreshold THEN end - Window ELSE 0
  IN
  /\ items' = Append(items,
       [kind |-> "block", from |-> FramePos(hist_done), to |-> FramePos(end),
        last |-> last, avail |-> hist_done,
        ahead |-> Min2(Lookahead, hist_len - end),
        far |-> FramePos(end) <= Window])
  /\ hist_len' = hist_len - drop /\ hist_done' = end - drop
  /\ dropped' = dropped + drop
  /\ UNCHANGED <<ext, slide_mul, flush, busy, ended, failed>>

CodeBlock ==
  /\ busy
  /\ Pending >= BlockMax \/ (flush # "Continue" /\ Pending > 0)
  /\ Code(Min2(Pending, BlockMax), flush = "End" /\ Pending <= BlockMax)

LastCoded ==
  /\ Len(items) > 1 /\ items[Len(items)].kind = "block" /\ items[Len(items)].last

CodeEmptyLast ==
  busy /\ flush = "End" /\ Pending = 0 /\ ~ended /\ ~LastCoded /\ Code(0, TRUE)

\* The checksum, where there is one, is that of the whole content.
Finish ==
  /\ busy /\ flush = "End" /\ Pending = 0 /\ ~ended /\ LastCoded
  /\ items' = IF items[1].checksum
              THEN Append(items, [kind |-> "checksum", of |-> FramePos(hist_done)])
              ELSE items
  /\ ended' = TRUE
  /\ UNCHANGED <<hist_len, hist_done, ext, dropped, slide_mul, flush, busy, failed>>

Return ==
  /\ busy /\ busy' = FALSE
  /\ Pending < BlockMax /\ (flush # "Continue" => Pending = 0)
  /\ flush = "End" => ended
  /\ UNCHANGED <<items, hist_len, hist_done, ext, dropped, slide_mul, flush,
                 ended, failed>>

\* A failed call codes nothing more.
Fail ==
  /\ failed' = TRUE /\ busy' = FALSE /\ ~ended
  /\ hist_len' \in Nat /\ hist_done' \in Nat
  /\ UNCHANGED <<items, ext, dropped, slide_mul, flush, ended>>

Next ==
  \/ Restart \/ SetSlideMul \/ Call \/ CallNextFrame
  \/ CodeBlock \/ CodeEmptyLast \/ Finish \/ Return \/ Fail

Spec == Init /\ [][Next]_vars
=============================================================================
