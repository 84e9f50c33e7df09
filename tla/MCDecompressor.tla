--------------------------- MODULE MCDecompressor ---------------------------
(***************************************************************************)
(* Streams for the streaming decompressor, and the doc claims its runs     *)
(* refute.                                                                 *)
(***************************************************************************)
EXTENDS Decompressor

H(window, size, checksum, id, ext) ==
  [kind |-> "header", len |-> 2, window |-> window, size |-> size, id |-> id,
   checksum |-> checksum, ext |-> ext]
Plain(from, to, last) ==
  [kind |-> "block", len |-> 1 + (to - from), from |-> from, to |-> to,
   last |-> last, match |-> None, coded |-> FALSE, repeats |-> FALSE]
Coded(from, to, last, repeats, m, off, n) ==
  [kind |-> "block", len |-> 2, from |-> from, to |-> to, last |-> last,
   match |-> [at |-> m, off |-> off, len |-> n], coded |-> TRUE,
   repeats |-> repeats]
Sum(n) == [kind |-> "checksum", len |-> 1, of |-> n]
Other(kind, n) == [kind |-> kind, len |-> n]

\* Frames over a window of 2 that outlive it several times over, each match at
\* the window's edge.
Long == <<H(2, None, TRUE, None, 0), Plain(0, 2, FALSE),
          Coded(2, 4, FALSE, FALSE, 0, 2, 2), Coded(4, 6, FALSE, TRUE, 1, 2, 1),
          Coded(6, 8, FALSE, TRUE, 0, 2, 2), Plain(8, 10, FALSE),
          Coded(10, 12, TRUE, TRUE, 0, 1, 2), Sum(12)>>
Sized == <<H(3, 3, FALSE, None, 0), Plain(0, 1, FALSE), Coded(1, 3, TRUE, FALSE, 0, 1, 2)>>
Empty == <<H(2, 0, TRUE, None, 0), Plain(0, 0, TRUE), Sum(0)>>
Skip  == <<Other("skip", 2)>>
\* Frames made with a history of 2: a match wholly in it, and one that runs
\* from it into the frame.
WithDict == <<H(2, None, TRUE, 7, 2), Coded(0, 2, FALSE, TRUE, 0, 2, 2),
              Coded(2, 4, FALSE, FALSE, 0, 2, 2), Coded(4, 6, TRUE, FALSE, 1, 2, 1), Sum(6)>>
WithPrefix == <<H(3, None, TRUE, None, 2), Coded(0, 2, FALSE, FALSE, 1, 2, 1),
                Coded(2, 4, TRUE, FALSE, 0, 3, 2), Sum(4)>>

Whole == {Long \o Sized, Sized \o Skip \o Long, Skip \o Empty \o Sized,
          WithDict \o Sized, Sized \o WithDict, Long \o WithPrefix}

\* Streams no decoder should accept: a match before the window, before the
\* frame, of nothing; tables that are not there; wrong sizes and checksums; a
\* block too large; a history beyond the window; bytes that are no frame.
Faulty == {
  <<H(2, None, FALSE, None, 0), Plain(0, 2, FALSE), Plain(2, 4, FALSE),
    Coded(4, 6, TRUE, FALSE, 0, 3, 2)>>,
  Sized \o <<H(2, None, FALSE, None, 0), Plain(0, 1, FALSE),
             Coded(1, 3, TRUE, FALSE, 0, 2, 2)>>,
  <<H(2, None, FALSE, None, 0), Plain(0, 1, FALSE), Coded(1, 2, TRUE, FALSE, 0, 0, 1)>>,
  <<H(2, None, FALSE, None, 0), Plain(0, 1, FALSE), Coded(1, 2, TRUE, TRUE, 0, 1, 1)>>,
  <<H(2, 3, FALSE, None, 0), Plain(0, 2, TRUE)>>,
  <<H(2, 3, TRUE, None, 0), Plain(0, 2, TRUE), Sum(2)>>,
  Sized \o <<H(2, None, TRUE, None, 0), Plain(0, 2, TRUE), Sum(1)>>,
  <<H(2, None, FALSE, None, 0), Plain(0, 3, TRUE)>>,
  <<H(2, None, FALSE, None, 2), Plain(0, 2, FALSE), Plain(2, 4, FALSE),
    Plain(4, 6, FALSE), Coded(6, 8, TRUE, FALSE, 0, 8, 2)>>,
  <<H(2, None, FALSE, None, 2), Plain(0, 2, FALSE), Plain(2, 4, FALSE),
    Plain(4, 6, FALSE), Coded(6, 8, TRUE, FALSE, 0, 7, 2)>>,
  <<H(9, None, FALSE, None, 0), Plain(0, 1, TRUE)>>,
  Sized \o <<Other("junk", 1)>>, <<Other("junk", 1)>>,
  <<H(2, None, FALSE, None, 0), Plain(0, 2, FALSE), Other("junk", 1)>>,
  Skip, Sized \o <<Other("stub", 1)>>}

\* Streams cut short inside a frame.
Cut == {
  <<H(2, None, TRUE, None, 0), Plain(0, 2, FALSE), Other("stub", 1)>>,
  <<H(2, None, TRUE, None, 0), Plain(0, 2, TRUE)>>,
  <<H(2, 2, FALSE, None, 0)>>}

AllStreams    == Whole \cup Faulty \cup Cut
CutStreams    == Cut

Dicts   == {[id |-> 7, len |-> 2, trained |-> TRUE], [id |-> 8, len |-> 1, trained |-> FALSE]}
NoDicts == {}

\* Every stream that is not cut short is decided: a caller that feeds it and then
\* keeps asking hears done or an error, so no unit waits for a byte too many.
WholeDecided == stream \notin CutStreams => Decided

\* error.rs says of UnexpectedEof: "Input ended in the middle of a frame or
\* block."  A caller that has said end, and keeps asking, should hear it.
EndInsideFrameReported == <>(report = "UnexpectedEof")

\* DecompressOptions says force_ignore_checksum will "Skip XXH64
\* content-checksum VERIFICATION".
ChecksumSkipped == IgnoreChecksum => report # "ChecksumMismatch"
=============================================================================
