---------------------------- MODULE MCCompressor ----------------------------
(* The streaming compressor on small instances. *)
EXTENDS Compressor

\* A trained dictionary, a raw one shorter than the window, and a trained one
\* longer than the slide threshold.
MCShortDicts == { [id |-> 7, len |-> 2, trained |-> TRUE],
                  [id |-> 0, len |-> 1, trained |-> FALSE] }
MCLongDicts  == { [id |-> 7, len |-> 9, trained |-> TRUE],
                  [id |-> 0, len |-> 5, trained |-> TRUE] }
NoDicts == {}

\* The compressor makes the blocks of one that appends each call's input whole.
WA == INSTANCE WholeAppend WITH
        items <- Frame, hist_len <- hist_len + rest, busy <- (pc = "run"),
        failed <- (err # None)
MakesWholeAppendBlocks == WA!Spec
=============================================================================
