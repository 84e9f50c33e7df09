------------------------- MODULE Decompressor_proofs -------------------------
(***************************************************************************)
(* Proofs about the streaming decompressor, for every stream whose units   *)
(* stand in their places, every dictionary and prefix, and every way of    *)
(* cutting input and output into calls.                                    *)
(*                                                                         *)
(* The argument.  Compaction may have dropped frame_skipped bytes of the   *)
(* open frame, but only when a window of it is left (Buffers); so whatever *)
(* a match may name within the window is in the buffer, and everything     *)
(* copy_match refuses it would refuse with the whole output at hand.  That *)
(* frame_out counts the frame's bytes ties buffer positions to the         *)
(* content (Place), and the history variables tie the coder's state to the *)
(* units parsed so far (Verdict).  How many bytes are to come is the sum   *)
(* of the units left, which is nothing only when no unit is left: so what  *)
(* a call says of the end is true (Told).                                  *)
(***************************************************************************)
EXTENDS Decompressor, FiniteSetTheorems, SequenceTheorems, WellFoundedInduction,
        NaturalsInduction, TLAPS

\* Where the buffers stand in the output, and what compaction leaves.
Buffers ==
  /\ in_off <= in_len /\ decoded_off <= decoded_len /\ frame_start <= decoded_len
  /\ delivered = drained + decoded_off
  /\ frame_base = drained + frame_start - frame_skipped
  /\ header # None =>
       /\ frame_out = decoded_len - frame_start + frame_skipped
       /\ frame_skipped > 0 => frame_start = 0 /\ decoded_len >= header.window
       /\ header.window <= WindowMax
  /\ ~garbled

\* How much they hold.
Bounds ==
  /\ room \in OutCaps \cup {0}
  /\ decoded_off < MostLeft
  /\ \A cap \in OutCaps : (\A c \in OutCaps : c <= cap) =>
       Have < Max2(cap, 1) + BlockSizeMax

\* Unit j is the header of the frame unit i is in.
IsHeaderAt(s, i, j) ==
  /\ j \in 1 .. i
  /\ s[j].kind = "header" /\ \A k \in j + 1 .. i : s[k].kind # "header"

Opened == HeaderAt(stream, at - 1)

\* Where the cursor stands in the stream.
Place ==
  /\ at <= Len(stream) + 1
  /\ at = 1 => header = None /\ ~in_checksum
  /\ at > 1 =>
       LET u == stream[at-1] IN
       /\ u.kind \in {"header", "block", "checksum", "skip"}
       /\ u.kind \in {"checksum", "skip"} => header = None /\ ~in_checksum
       /\ u.kind \in {"header", "block"} =>
            /\ IsHeaderAt(stream, at - 1, Opened)
            /\ header # None => header = stream[Opened]
       /\ u.kind = "header" => header # None /\ ~in_checksum /\ frame_out = 0
       /\ u.kind = "block" =>
            /\ frame_out = u.to
            /\ in_checksum = (u.last /\ header # None)
            /\ header = None <=> u.last /\ ~stream[Opened].checksum

-----------------------------------------------------------------------------
LEMMA MaxMin ==
  ASSUME NEW a \in Int, NEW b \in Int
  PROVE  /\ Max2(a, b) \in Int /\ Max2(a, b) >= a /\ Max2(a, b) >= b
         /\ Max2(a, b) \in {a, b}
         /\ Min2(a, b) \in Int /\ Min2(a, b) <= a /\ Min2(a, b) <= b
         /\ Min2(a, b) \in {a, b}
  BY DEF Max2, Min2

\* A stream's units, one at a time.
LEMMA UnitAt ==
  ASSUME stream \in Streams, NEW i \in 1 .. Len(stream)
  PROVE  stream[i] \in Unit /\ stream[i] # None
<1>1. stream \in Seq(Unit)
  BY ConstantsOK
<1>2. stream[i] \in Unit
  BY <1>1
<1> QED BY <1>2, ConstantsOK

LEMMA UnitFields ==
  ASSUME NEW u \in Unit
  PROVE  /\ u.len \in Nat \ {0}
         /\ u.kind \in {"header", "block", "checksum", "skip", "junk", "stub"}
         /\ u.kind = "header" =>
              /\ u.window \in Nat /\ u.size \in Nat \cup {None}
              /\ u.checksum \in BOOLEAN /\ u.ext \in Nat
              /\ u.id \in Nat \cup {None}
         /\ u.kind = "block" =>
              /\ u.from \in Nat /\ u.to \in Nat /\ u.last \in BOOLEAN
              /\ u.match \in Match \cup {None} /\ u.coded \in BOOLEAN
              /\ u.repeats \in BOOLEAN
         /\ u.kind = "checksum" => u.of \in Nat
  BY DEF Unit

LEMMA HeaderAtIs ==
  ASSUME NEW s, NEW i \in Nat, NEW j, IsHeaderAt(s, i, j)
  PROVE  HeaderAt(s, i) = j
<1>1. \A k : IsHeaderAt(s, i, k) => k = j
  <2> SUFFICES ASSUME NEW k, IsHeaderAt(s, i, k), k # j PROVE FALSE
    OBVIOUS
  <2>1. k \in 1 .. i /\ j \in 1 .. i /\ s[k].kind = "header" /\ s[j].kind = "header"
    BY DEF IsHeaderAt
  <2>2. CASE k < j
    <3>1. j \in k + 1 .. i
      BY <2>1, <2>2
    <3> QED BY <2>1, <3>1 DEF IsHeaderAt
  <2>3. CASE j < k
    <3>1. k \in j + 1 .. i
      BY <2>1, <2>3
    <3> QED BY <2>1, <3>1 DEF IsHeaderAt
  <2> QED BY <2>1, <2>2, <2>3
<1>2. IsHeaderAt(s, i, HeaderAt(s, i))
  BY DEF HeaderAt, IsHeaderAt
<1> QED BY <1>1, <1>2

LEMMA HeaderAtHere ==
  ASSUME NEW s, NEW i \in Nat \ {0}, s[i].kind = "header"
  PROVE  IsHeaderAt(s, i, i) /\ HeaderAt(s, i) = i
<1>1. IsHeaderAt(s, i, i)
  BY DEF IsHeaderAt
<1> QED BY <1>1, HeaderAtIs

LEMMA HeaderAtNext ==
  ASSUME NEW s, NEW i \in Nat, NEW j, IsHeaderAt(s, i, j),
         s[i + 1].kind # "header"
  PROVE  IsHeaderAt(s, i + 1, j) /\ HeaderAt(s, i + 1) = j
<1>1. IsHeaderAt(s, i + 1, j)
  <2>1. j \in 1 .. i + 1 /\ s[j].kind = "header"
    BY DEF IsHeaderAt
  <2>2. \A k \in j + 1 .. i + 1 : k = i + 1 \/ k \in j + 1 .. i
    BY <2>1
  <2>3. \A k \in j + 1 .. i + 1 : s[k].kind # "header"
    BY <2>2 DEF IsHeaderAt
  <2> QED BY <2>1, <2>3 DEF IsHeaderAt
<1> QED BY <1>1, HeaderAtIs

LEMMA InPlaceAt ==
  ASSUME stream \in Streams, NEW i \in 1 .. Len(stream)
  PROVE  /\ stream[i].kind \in {"header", "skip"} =>
              i = 1 \/ FrameEndsAt(stream, i - 1)
         /\ stream[i].kind = "block" =>
              /\ i > 1 /\ stream[i].from <= stream[i].to
              /\ \/ stream[i-1].kind = "header" /\ stream[i].from = 0
                 \/ stream[i-1].kind = "block" /\ ~stream[i-1].last
                    /\ stream[i].from = stream[i-1].to
              /\ stream[i].match # None =>
                   stream[i].match.at + stream[i].match.len <= stream[i].to - stream[i].from
         /\ stream[i].kind = "checksum" =>
              /\ i > 1 /\ stream[i-1].kind = "block" /\ stream[i-1].last
              /\ stream[HeaderAt(stream, i - 1)].checksum
<1>1. InPlace(stream)
  BY ConstantsOK
<1>2. i \in DOMAIN stream
  BY ConstantsOK
<1> QED BY <1>1, <1>2 DEF InPlace

\* What the decoder is doing when the next unit is of a kind.
LEMMA AtFrameStart ==
  ASSUME TypeOK, Place, at <= Len(stream), stream[at].kind \in {"header", "skip"}
  PROVE  header = None /\ ~in_checksum
<1>1. stream \in Streams /\ at \in 1 .. Len(stream)
  BY ConstantsOK DEF TypeOK
<1>2. at = 1 \/ FrameEndsAt(stream, at - 1)
  BY <1>1, InPlaceAt
<1>3. CASE at = 1
  BY <1>3 DEF Place
<1>4. CASE at > 1 /\ FrameEndsAt(stream, at - 1)
  <2>1. stream[at-1].kind \in {"header", "block", "checksum", "skip"}
    BY <1>4 DEF Place
  <2>2. CASE stream[at-1].kind \in {"skip", "checksum"}
    BY <1>4, <2>2 DEF Place
  <2>3. CASE stream[at-1].kind = "block" /\ stream[at-1].last
             /\ ~stream[HeaderAt(stream, at - 1)].checksum
    BY <1>4, <2>3 DEF Place, Opened
  <2> QED BY <1>4, <2>2, <2>3 DEF FrameEndsAt
<1>5. at > 1 \/ at = 1
  BY <1>1
<1> QED BY <1>2, <1>3, <1>4, <1>5

LEMMA AtBlock ==
  ASSUME TypeOK, Place, at <= Len(stream), stream[at].kind = "block"
  PROVE  /\ header # None /\ ~in_checksum /\ at > 1
         /\ header = stream[Opened] /\ IsHeaderAt(stream, at - 1, Opened)
         /\ IsHeaderAt(stream, at, Opened) /\ HeaderAt(stream, at) = Opened
         /\ stream[at].from = frame_out /\ stream[at].from <= stream[at].to
<1>1. stream \in Streams /\ at \in 1 .. Len(stream)
  BY ConstantsOK DEF TypeOK
<1>2. /\ at > 1 /\ stream[at].from <= stream[at].to
      /\ \/ stream[at-1].kind = "header" /\ stream[at].from = 0
         \/ stream[at-1].kind = "block" /\ ~stream[at-1].last
            /\ stream[at].from = stream[at-1].to
  BY <1>1, InPlaceAt
<1>3. header # None /\ ~in_checksum /\ stream[at].from = frame_out
  BY <1>2 DEF Place
<1>4. header = stream[Opened] /\ IsHeaderAt(stream, at - 1, Opened)
  BY <1>2, <1>3 DEF Place
<1>5. at - 1 \in Nat /\ (at - 1) + 1 = at
  BY <1>1
<1>6. IsHeaderAt(stream, at, Opened) /\ HeaderAt(stream, at) = Opened
  BY <1>4, <1>5, HeaderAtNext
<1> QED BY <1>2, <1>3, <1>4, <1>6

LEMMA AtChecksum ==
  ASSUME TypeOK, Place, at <= Len(stream), stream[at].kind = "checksum"
  PROVE  /\ header # None /\ in_checksum /\ at > 1
         /\ header = stream[Opened] /\ IsHeaderAt(stream, at - 1, Opened)
         /\ IsHeaderAt(stream, at, Opened) /\ HeaderAt(stream, at) = Opened
         /\ stream[at-1].kind = "block" /\ stream[at-1].to = frame_out
<1>1. stream \in Streams /\ at \in 1 .. Len(stream)
  BY ConstantsOK DEF TypeOK
<1>2. /\ at > 1 /\ stream[at-1].kind = "block" /\ stream[at-1].last
      /\ stream[HeaderAt(stream, at - 1)].checksum
  BY <1>1, InPlaceAt
<1>3. header # None /\ in_checksum /\ stream[at-1].to = frame_out
  BY <1>2 DEF Place, Opened
<1>4. header = stream[Opened] /\ IsHeaderAt(stream, at - 1, Opened)
  BY <1>2, <1>3 DEF Place
<1>5. at - 1 \in Nat /\ (at - 1) + 1 = at
  BY <1>1
<1>6. IsHeaderAt(stream, at, Opened) /\ HeaderAt(stream, at) = Opened
  BY <1>4, <1>5, HeaderAtNext
<1> QED BY <1>2, <1>3, <1>4, <1>6

IInv == TypeOK /\ Buffers /\ Bounds /\ Place

-----------------------------------------------------------------------------
LEMMA MostLeftPositive ==
  /\ MaxWindow \in Nat /\ MaxWindow >= WindowMax /\ MaxWindow >= BlockSizeMax
  /\ MostLeft \in Nat \ {0}
<1>1. MaxWindow \in Nat \ {0} /\ MaxWindow >= WindowMax /\ MaxWindow >= BlockSizeMax
  BY ConstantsOK DEF MaxWindow, Max2
<1>2. MaxWindow + Min2(MaxWindow, SlideExtraMax) \in Nat
  BY <1>1, ConstantsOK DEF Min2
<1>3. Max2(MaxWindow + Min2(MaxWindow, SlideExtraMax), OutFloor) \in Nat
  BY <1>2, ConstantsOK DEF Max2
<1> QED BY <1>1, <1>3 DEF MostLeft

LEMMA InitIInv == Init => IInv
<1> SUFFICES ASSUME Init PROVE IInv
  OBVIOUS
<1>1. stream \in Streams /\ unfed = Bytes(stream)
  BY DEF Init
<1>2. unfed \in Int /\ Len(stream) \in Nat
  BY <1>1, ConstantsOK
<1>3. <<>> \in Seq([len : Nat, state : {"new", "dict"}])
  OBVIOUS
<1>4. TypeOK
  <2>1. loaded \in Seq([len : Nat, state : {"new", "dict"}])
    BY <1>3 DEF Init
  <2>2. report \in Reports
    BY DEF Init, Reports
  <2>3. /\ in_checksum \in BOOLEAN /\ saw_zstd \in BOOLEAN /\ eof \in BOOLEAN
        /\ garbled \in BOOLEAN /\ broken \in BOOLEAN
    BY Zenon DEF Init
  <2>4. /\ block_state \in {"new", "dict", "used"} /\ pc \in {"idle", "run"}
        /\ header = None /\ dict = None
    BY DEF Init
  <2>5. /\ in_len \in Nat /\ in_off \in Nat /\ decoded_len \in Nat
        /\ decoded_off \in Nat /\ xxh \in Int /\ frame_out \in Nat
        /\ prefix \in Nat /\ frame_start \in Nat /\ frame_skipped \in Nat
        /\ room \in Nat /\ at \in Nat \ {0} /\ drained \in Nat
        /\ frame_base \in Nat /\ delivered \in Nat
    BY DEF Init
  <2> QED BY <1>1, <1>2, <2>1, <2>2, <2>3, <2>4, <2>5, Zenon DEF TypeOK
<1>5. Buffers
  BY DEF Init, Buffers
<1>6. Bounds
  <2>1. decoded_off < MostLeft /\ room \in OutCaps \cup {0} /\ Have = 0
    BY MostLeftPositive DEF Init, Have
  <2>2. \A cap \in OutCaps : 0 < Max2(cap, 1) + BlockSizeMax
    BY ConstantsOK DEF Max2
  <2> QED BY <2>1, <2>2 DEF Bounds
<1>7. Place
  BY <1>2 DEF Init, Place
<1> QED BY <1>4, <1>5, <1>6, <1>7 DEF IInv

-----------------------------------------------------------------------------
LEMMA SetHistoryIInv ==
  ASSUME IInv, NEW d \in Dictionary \cup {None}, NEW n \in Nat,
         pc = "idle", header = None, dict' = d, prefix' = n,
         UNCHANGED <<inbuf, outbuf, frame, call, saw_zstd, stream, at, unfed, broken>>
  PROVE  IInv'
<1> USE DEF inbuf, outbuf, frame, call
<1>1. TypeOK /\ Buffers /\ Bounds /\ Place
  BY DEF IInv
<1>2. TypeOK'
  BY <1>1, Zenon DEF TypeOK
<1>3. Buffers'
  BY <1>1 DEF Buffers
<1>4. Bounds'
  BY <1>1 DEF Bounds, Have
<1>5. Place'
  BY <1>1 DEF Place, Opened
<1> QED BY <1>2, <1>3, <1>4, <1>5 DEF IInv

LEMMA CallIInv ==
  ASSUME IInv, NEW n \in FeedLens, NEW cap \in OutCaps, NEW end \in BOOLEAN,
         Call(n, cap, end)
  PROVE  IInv'
<1> USE DEF inbuf, outbuf, frame, config, call
<1>1. TypeOK /\ Buffers /\ Bounds /\ Place
  BY DEF IInv
<1>2. n \in Nat /\ cap \in Nat
  BY ConstantsOK
<1>3. TypeOK'
  <2>1. in_len' \in Nat /\ unfed' \in Int /\ room' \in Nat
    BY <1>1, <1>2 DEF TypeOK, Call
  <2>2. pc' \in {"idle", "run"} /\ report' \in Reports /\ eof' \in BOOLEAN
    BY DEF Call, Reports
  <2>3. UNCHANGED <<in_off, outbuf, frame, config, saw_zstd, stream, at, broken>>
    BY DEF Call
  <2> QED BY <1>1, <2>1, <2>2, <2>3, Zenon DEF TypeOK
<1>4. Buffers'
  BY <1>1, <1>2 DEF Buffers, TypeOK, Call
<1>5. Bounds'
  BY <1>1, <1>2 DEF Bounds, Have, Call
<1>6. Place'
  BY <1>1 DEF Place, Opened, Call
<1> QED BY <1>3, <1>4, <1>5, <1>6 DEF IInv

LEMMA RefusedIInv ==
  ASSUME IInv, NEW e \in Reports, Refused(e)
  PROVE  IInv'
<1> USE DEF inbuf, outbuf, frame, config, call
<1>1. TypeOK /\ Buffers /\ Bounds /\ Place
  BY DEF IInv
<1>2. TypeOK'
  <2>1. room' \in Nat /\ pc' \in {"idle", "run"} /\ report' \in Reports
    BY DEF Refused
  <2>2. UNCHANGED <<inbuf, outbuf, frame, config, eof, saw_zstd, stream, at,
                    unfed, broken>>
    BY DEF Refused
  <2> QED BY <1>1, <2>1, <2>2, Zenon DEF TypeOK
<1>3. Buffers'
  BY <1>1 DEF Buffers, Refused
<1>4. Bounds'
  BY <1>1 DEF Bounds, Have, Refused
<1>5. Place'
  BY <1>1 DEF Place, Opened, Refused
<1> QED BY <1>2, <1>3, <1>4, <1>5 DEF IInv

\* The cursor stays inside the input when a unit that is all there is parsed.
LEMMA CursorMoves ==
  ASSUME IInv, NEW kind, Parsing(kind), in_off' = in_off + stream[at].len
  PROVE  /\ in_off' \in Nat /\ in_off' <= in_len
         /\ at \in 1 .. Len(stream) /\ stream[at].kind = kind
         /\ stream[at] \in Unit /\ stream[at] # None
         /\ at + 1 \in Nat \ {0} /\ at + 1 <= Len(stream) + 1
         /\ at + 1 > 1 /\ (at + 1) - 1 = at
<1>1. at \in Nat \ {0} /\ stream \in Streams /\ in_len \in Nat /\ in_off \in Nat
  BY DEF IInv, TypeOK
<1>2. at \in 1 .. Len(stream) /\ stream[at].kind = kind
      /\ in_len - in_off >= stream[at].len
  BY <1>1, ConstantsOK DEF Parsing, Arrived, Avail
<1>3. stream[at] \in Unit /\ stream[at] # None
  BY <1>1, <1>2, UnitAt
<1>4. stream[at].len \in Nat
  BY <1>3, UnitFields
<1>5. in_off' \in Nat /\ in_off' <= in_len
  BY <1>1, <1>2, <1>4
<1>6. Len(stream) \in Nat
  BY <1>1, ConstantsOK
<1> QED BY <1>1, <1>2, <1>3, <1>5, <1>6

LEMMA BrokenIInv ==
  ASSUME IInv, NEW kind, Parsing(kind), NEW e \in Reports, Broken(e)
  PROVE  IInv'
<1> USE DEF inbuf, outbuf, frame, config, call
<1>1. TypeOK /\ Buffers /\ Bounds /\ Place
  BY DEF IInv
<1>2. in_off' \in Nat /\ in_off' <= in_len
  BY CursorMoves DEF Broken
<1>3. UNCHANGED <<in_len, outbuf, frame, config, eof, saw_zstd, stream, at, unfed>>
  BY DEF Broken
<1>4. TypeOK'
  <2>1. room' \in Nat /\ pc' \in {"idle", "run"} /\ report' \in Reports
        /\ broken' \in BOOLEAN
    BY DEF Broken
  <2> QED BY <1>1, <1>2, <1>3, <2>1, Zenon DEF TypeOK
<1>5. Buffers'
  BY <1>1, <1>2, <1>3 DEF Buffers
<1>6. Bounds'
  BY <1>1, <1>3 DEF Bounds, Have, Broken
<1>7. Place'
  BY <1>1, <1>3 DEF Place, Opened
<1> QED BY <1>4, <1>5, <1>6, <1>7 DEF IInv

LEMMA SkipFrameIInv ==
  ASSUME IInv, SkipFrame
  PROVE  IInv'
<1> USE DEF inbuf, outbuf, frame, config, call
<1>1. TypeOK /\ Buffers /\ Bounds /\ Place
  BY DEF IInv
<1>2. /\ in_off' \in Nat /\ in_off' <= in_len
      /\ at \in 1 .. Len(stream) /\ stream[at].kind = "skip"
      /\ at + 1 \in Nat \ {0} /\ at + 1 <= Len(stream) + 1
      /\ at + 1 > 1 /\ (at + 1) - 1 = at
  BY CursorMoves DEF SkipFrame, Consume
<1>3. /\ at' = at + 1
      /\ UNCHANGED <<in_len, outbuf, frame, config, call, saw_zstd, stream,
                     unfed, broken>>
  BY DEF SkipFrame, Consume
<1>4. TypeOK'
  BY <1>1, <1>2, <1>3, Zenon DEF TypeOK
<1>5. Buffers'
  BY <1>1, <1>2, <1>3 DEF Buffers
<1>6. Bounds'
  BY <1>1, <1>3 DEF Bounds, Have
<1>7. header = None /\ ~in_checksum
  BY <1>1, <1>2, AtFrameStart
<1>8. Place'
  BY <1>2, <1>3, <1>7 DEF Place
<1> QED BY <1>4, <1>5, <1>6, <1>8 DEF IInv

\* What the checks that pass before a frame is opened, and before a block or a
\* checksum is accepted, let through.
LEMMA HeaderFaultNone ==
  ASSUME NEW h, HeaderFault(h) = "none"
  PROVE  ~(h.window > WindowMax)
  BY DEF HeaderFault

LEMMA BlockFaultNone ==
  ASSUME NEW u, BlockFault(u) = "none"
  PROVE  /\ ~(u.to - u.from > BlockMaxOf(header))
         /\ u.repeats => block_state # "new"
         /\ u.match # None => MatchFound(u)
         /\ ~(/\ u.last /\ ~header.checksum /\ header.size # None
              /\ header.size # frame_out + (u.to - u.from))
  BY Zenon DEF BlockFault

LEMMA ChecksumFaultNone ==
  ASSUME NEW u, ChecksumFault(u) = "none"
  PROVE  xxh = u.of /\ ~(header.size # None /\ header.size # frame_out)
  BY Zenon DEF ChecksumFault

LEMMA FaultsAreReports ==
  ASSUME NEW u
  PROVE  HeaderFault(u) \in Reports /\ BlockFault(u) \in Reports
         /\ ChecksumFault(u) \in Reports
  BY DEF HeaderFault, BlockFault, ChecksumFault, Reports

LEMMA OpenFrameIInv ==
  ASSUME IInv, OpenFrame
  PROVE  IInv'
<1> USE DEF inbuf, outbuf, frame, config, call
<1>1. TypeOK /\ Buffers /\ Bounds /\ Place
  BY DEF IInv
<1>2. /\ in_off' \in Nat /\ in_off' <= in_len
      /\ at \in 1 .. Len(stream) /\ stream[at].kind = "header"
      /\ stream[at] \in Unit /\ stream[at] # None
      /\ at + 1 \in Nat \ {0} /\ at + 1 <= Len(stream) + 1
      /\ at + 1 > 1 /\ (at + 1) - 1 = at
  BY CursorMoves DEF OpenFrame, Consume
<1>3. /\ header' = stream[at] /\ block_state' = StateFromDict
      /\ xxh' = 0 /\ frame_out' = 0 /\ saw_zstd' = TRUE
      /\ frame_start' = decoded_len /\ frame_skipped' = 0
      /\ frame_base' = drained + decoded_len
      /\ loaded' = Append(loaded, [len |-> prefix, state |-> StateFromDict])
      /\ at' = at + 1
  BY DEF OpenFrame, Consume
<1>4. UNCHANGED <<in_len, outbuf, in_checksum, config, call, stream, unfed,
                  garbled, broken>>
  BY DEF OpenFrame
<1>5. stream[at].window \in Nat /\ stream[at].window <= WindowMax
  <2>1. stream[at].window \in Nat
    BY <1>2, UnitFields
  <2>2. ~(stream[at].window > WindowMax)
    BY HeaderFaultNone DEF OpenFrame
  <2> QED BY <2>1, <2>2, ConstantsOK
<1>6. TypeOK'
  <2>1. StateFromDict \in {"new", "dict"}
    BY DEF StateFromDict
  <2>2. block_state' \in {"new", "dict", "used"}
    BY <1>3, <2>1
  <2>3. loaded' \in Seq([len : Nat, state : {"new", "dict"}])
    <3>1. loaded \in Seq([len : Nat, state : {"new", "dict"}]) /\ prefix \in Nat
      BY <1>1 DEF TypeOK
    <3>2. [len |-> prefix, state |-> StateFromDict] \in [len : Nat, state : {"new", "dict"}]
      BY <2>1, <3>1
    <3> QED BY <1>3, <3>1, <3>2
  <2>4. /\ frame_start' \in Nat /\ frame_base' \in Nat /\ frame_out' \in Nat
        /\ frame_skipped' \in Nat /\ xxh' \in Int
    BY <1>1, <1>3 DEF TypeOK
  <2>5. header' \in Unit \cup {None} /\ (header' # None => header'.kind = "header")
    BY <1>2, <1>3
  <2>6. at' \in Nat \ {0} /\ saw_zstd' \in BOOLEAN
    BY <1>2, <1>3
  <2> QED BY <1>1, <1>2, <1>4, <2>2, <2>3, <2>4, <2>5, <2>6, Zenon DEF TypeOK
<1>7. Buffers'
  BY <1>1, <1>2, <1>3, <1>4, <1>5 DEF Buffers, TypeOK
<1>8. Bounds'
  BY <1>1, <1>4 DEF Bounds, Have
<1>9. header = None /\ ~in_checksum
  BY <1>1, <1>2, AtFrameStart
<1>10. IsHeaderAt(stream, at, at) /\ HeaderAt(stream, at) = at
  BY <1>2, HeaderAtHere
<1>11. Place'
  <2>1. Opened' = at
    BY <1>2, <1>3, <1>4, <1>10 DEF Opened
  <2> QED BY <1>2, <1>3, <1>4, <1>9, <1>10, <2>1 DEF Place
<1> QED BY <1>6, <1>7, <1>8, <1>11 DEF IInv

\* The block after the decoder's place decodes at frame_out in the frame, so
\* what a match of it names is where compaction left it.
LEMMA MatchIsRight ==
  ASSUME IInv, at <= Len(stream), stream[at].kind = "block",
         stream[at].match # None, MatchFound(stream[at])
  PROVE  /\ Produced(stream[at]) = stream[at].from + stream[at].match.at
         /\ WrongHistory(stream[at]) \/ MatchRight(stream[at])
<1> DEFINE u == stream[at]
           m == u.match
<1>1. TypeOK /\ Buffers /\ Bounds /\ Place
  BY DEF IInv
<1>2. header # None /\ u.from = frame_out
  BY <1>1, AtBlock
<1>3. stream \in Streams /\ at \in 1 .. Len(stream)
  BY <1>1, ConstantsOK DEF TypeOK
<1>4. u \in Unit /\ m # None
  BY <1>3, UnitAt
<1>5. u.from \in Nat /\ u.to \in Nat /\ m \in Match
  BY <1>4, UnitFields
<1>6. m.at \in Nat /\ m.off \in Nat /\ m.len \in Nat
  BY <1>5 DEF Match
<1>7. /\ decoded_len \in Nat /\ frame_start \in Nat /\ frame_skipped \in Nat
      /\ prefix \in Nat /\ drained \in Nat /\ frame_base \in Nat
      /\ frame_out = decoded_len - frame_start + frame_skipped
      /\ frame_base = drained + frame_start - frame_skipped
  BY <1>1, <1>2 DEF TypeOK, Buffers
<1>8. Produced(u) = u.from + m.at
  BY <1>2, <1>5, <1>6, <1>7 DEF Produced
<1>9. SourcePos(u) = prefix + u.from + m.at - m.off
  BY SMTT(60), <1>5, <1>6, <1>7, <1>8 DEF SourcePos
<1>10. CASE InFrame(u)
  <2>1. m.off <= u.from + m.at
    BY SMTT(60), <1>5, <1>6, <1>7, <1>9, <1>10 DEF InFrame
  <2>2. SourceIndex(u) = frame_start + (SourcePos(u) - prefix - frame_skipped)
    BY <1>10 DEF SourceIndex
  <2>3. drained + SourceIndex(u) = frame_base + u.from + m.at - m.off
    <3> HIDE DEF u, m
    <3> QED BY SMTT(60), <1>5, <1>6, <1>7, <1>9, <2>2
  <2>4. MatchRight(u)
    BY <1>10, <2>1, <2>3 DEF MatchRight
  <2> QED BY <1>8, <2>4
<1>11. CASE ~InFrame(u) /\ ~WrongHistory(u)
  <2>1. prefix = header.ext
    BY <1>4, <1>11 DEF WrongHistory
  <2>2. SourcePos(u) = header.ext + u.from + m.at - m.off
    BY <1>9, <2>1
  <2>3. Spill(u) > 0 => frame_skipped = 0
    BY <1>11 DEF MatchFound
  <2>4. SourceIndex(u) = frame_start
    BY <1>7, <1>11 DEF SourceIndex
  <2>5. Spill(u) > 0 => drained + SourceIndex(u) = frame_base
    BY <1>7, <2>3, <2>4
  <2>6. MatchRight(u)
    BY <1>11, <2>2, <2>5 DEF MatchRight
  <2> QED BY <1>8, <2>6
<1> QED BY <1>8, <1>10, <1>11

LEMMA DecodeBlockIInv ==
  ASSUME IInv, DecodeBlock
  PROVE  IInv'
<1> USE DEF inbuf, outbuf, frame, config, call
<1> DEFINE u == stream[at]
           right == u.match = None \/ WrongHistory(u) \/ MatchRight(u)
<1>1. TypeOK /\ Buffers /\ Bounds /\ Place
  BY DEF IInv
<1>2. /\ in_off' \in Nat /\ in_off' <= in_len
      /\ at \in 1 .. Len(stream) /\ u.kind = "block"
      /\ u \in Unit /\ u # None
      /\ at + 1 \in Nat \ {0} /\ at + 1 <= Len(stream) + 1
      /\ at + 1 > 1 /\ (at + 1) - 1 = at
  BY CursorMoves DEF DecodeBlock, Consume
<1>3. /\ decoded_len' = decoded_len + (u.to - u.from)
      /\ frame_out' = frame_out + (u.to - u.from)
      /\ garbled' = (garbled \/ ~right)
      /\ xxh' = IF right /\ ~WrongHistory(u) /\ xxh = u.from THEN u.to ELSE Garbled
      /\ IF u.last /\ ~header.checksum
         THEN FinishFrame
         ELSE /\ in_checksum' = u.last
              /\ block_state' = IF u.coded THEN "used" ELSE block_state
              /\ UNCHANGED header
      /\ at' = at + 1
  BY DEF DecodeBlock, Consume
<1>4. UNCHANGED <<in_len, decoded_off, drained, delivered, frame_start,
                 frame_skipped, frame_base, loaded, config, call, saw_zstd,
                 stream, unfed, broken>>
  BY DEF DecodeBlock
<1>5. /\ header # None /\ ~in_checksum /\ at > 1
      /\ header = stream[Opened] /\ IsHeaderAt(stream, at - 1, Opened)
      /\ IsHeaderAt(stream, at, Opened) /\ HeaderAt(stream, at) = Opened
      /\ u.from = frame_out /\ u.from <= u.to
  BY <1>1, <1>2, AtBlock
<1>6. u.from \in Nat /\ u.to \in Nat /\ u.last \in BOOLEAN /\ u.coded \in BOOLEAN
  BY <1>2, UnitFields
<1>7. header \in Unit /\ header.kind = "header" /\ header.window \in Nat
  BY <1>1, <1>5, UnitFields DEF TypeOK
<1>8. /\ ~(u.to - u.from > BlockMaxOf(header))
      /\ u.match # None => MatchFound(u)
  BY BlockFaultNone DEF DecodeBlock
<1>9. right
  <2>1. CASE u.match = None
    BY <2>1
  <2>2. CASE u.match # None
    BY <1>2, <1>8, <2>2, MatchIsRight
  <2> QED BY <2>1, <2>2
<1>10. u.to - u.from <= BlockSizeMax
  <2>1. BlockMaxOf(header) \in Int /\ BlockMaxOf(header) <= BlockSizeMax
    BY <1>7, ConstantsOK DEF BlockMaxOf, Min2
  <2> QED BY <1>6, <1>8, <2>1, ConstantsOK
<1>11. ~garbled' /\ garbled' \in BOOLEAN
  BY <1>1, <1>3, <1>9, Zenon DEF Buffers
<1>12. frame_out' = u.to /\ decoded_len' \in Nat /\ decoded_len' >= decoded_len
       /\ decoded_len' = decoded_len + (u.to - u.from)
  <2>1. decoded_len \in Nat /\ frame_out \in Nat
    BY <1>1 DEF TypeOK
  <2> QED BY <1>3, <1>5, <1>6, <2>1
<1>13. /\ header' \in {header, None}
       /\ header' = None <=> u.last /\ ~header.checksum
       /\ in_checksum' = (u.last /\ header' # None)
       /\ block_state' \in {block_state, "new", "used"}
  <2>1. CASE u.last /\ ~header.checksum
    BY <1>3, <2>1, Zenon DEF FinishFrame
  <2>2. CASE ~(u.last /\ ~header.checksum)
    <3>1. header' = header /\ in_checksum' = u.last
          /\ block_state' = IF u.coded THEN "used" ELSE block_state
      BY <1>3, <2>2, Zenon
    <3>2. block_state' \in {block_state, "new", "used"}
      BY <3>1, <1>6
    <3>3. header' # None /\ header' \in {header, None}
      BY <1>5, <3>1
    <3>4. in_checksum' = (u.last /\ header' # None)
      BY <1>6, <3>1, <3>3, Zenon
    <3> QED BY <2>2, <3>2, <3>3, <3>4, Zenon
  <2> QED BY <2>1, <2>2
<1>14. xxh' \in Int
  <2>1. xxh' = u.to \/ xxh' = Garbled
    BY <1>3
  <2> QED BY <1>6, <2>1 DEF Garbled
<1> HIDE DEF right
<1>15. TypeOK'
  <2>1. header' \in Unit \cup {None} /\ (header' # None => header'.kind = "header")
    BY <1>7, <1>13
  <2>2. in_checksum' \in BOOLEAN
    BY <1>13, Zenon
  <2>3. block_state' \in {"new", "dict", "used"}
    BY <1>1, <1>13 DEF TypeOK
  <2>4. at' \in Nat \ {0} /\ frame_out' \in Nat /\ decoded_len' \in Nat
    BY <1>2, <1>3, <1>6, <1>12
  <2> QED BY <1>1, <1>2, <1>4, <1>11, <1>14, <2>1, <2>2, <2>3, <2>4, Zenon DEF TypeOK
<1>16. Buffers'
  <2> HIDE DEF u
  <2>3. decoded_len \in Nat /\ decoded_off \in Nat /\ frame_start \in Nat
        /\ frame_out \in Nat /\ frame_skipped \in Nat
    BY <1>1 DEF TypeOK
  <2>1. /\ in_off' <= in_len' /\ decoded_off' <= decoded_len'
        /\ frame_start' <= decoded_len' /\ delivered' = drained' + decoded_off'
        /\ frame_base' = drained' + frame_start' - frame_skipped'
    BY <1>1, <1>2, <1>4, <1>12, <2>3 DEF Buffers
  <2>2. ASSUME header' # None
        PROVE /\ frame_out' = decoded_len' - frame_start' + frame_skipped'
              /\ frame_skipped' > 0 => frame_start' = 0 /\ decoded_len' >= header'.window
              /\ header'.window <= WindowMax
    <3>1. header' = header
      BY <1>13, <2>2
    <3>2. /\ frame_out = decoded_len - frame_start + frame_skipped
          /\ frame_skipped > 0 => frame_start = 0 /\ decoded_len >= header.window
          /\ header.window <= WindowMax
      BY <1>1, <1>5 DEF Buffers
    <3>3. frame_out' = frame_out + (u.to - u.from)
      BY <1>3
    <3>4. frame_start' = frame_start /\ frame_skipped' = frame_skipped
      BY <1>4
    <3>5. frame_out' = decoded_len' - frame_start' + frame_skipped'
      BY <1>6, <1>12, <2>3, <3>2, <3>3, <3>4
    <3>6. frame_skipped' > 0 => frame_start' = 0 /\ decoded_len' >= header'.window
      BY <1>7, <1>12, <2>3, <3>1, <3>2, <3>4
    <3> QED BY <3>1, <3>2, <3>5, <3>6
  <2> QED BY <1>11, <2>1, <2>2 DEF Buffers
<1>17. Bounds'
  <2>1. room' = room /\ decoded_off' = decoded_off /\ ~Enough
    BY <1>4 DEF DecodeBlock, Parsing
  <2>2. ASSUME NEW cap \in OutCaps, \A c \in OutCaps : c <= cap
        PROVE  Have' < Max2(cap, 1) + BlockSizeMax
    <3>1. room \in Nat /\ cap \in Nat /\ (room <= cap \/ room = 0)
      BY <1>1, <2>2, ConstantsOK DEF TypeOK, Bounds
    <3>2. Max2(cap, 1) \in Nat /\ Max2(cap, 1) >= 1 /\ Max2(cap, 1) >= cap
      BY <3>1 DEF Max2
    <3>3. Have \in Nat /\ Have < Max2(cap, 1)
      BY <1>1, <2>1, <3>1, <3>2 DEF Have, Enough, TypeOK, Buffers
    <3>4. Have' = Have + (u.to - u.from)
      BY <1>1, <1>6, <1>12, <2>1 DEF Have, TypeOK
    <3> QED BY <1>6, <1>10, <3>2, <3>3, <3>4, ConstantsOK
  <2>3. decoded_off' < MostLeft /\ room' \in OutCaps \cup {0}
    BY <1>1, <2>1 DEF Bounds
  <2>4. MostLeft' = MostLeft
    BY DEF MostLeft
  <2> QED BY <2>2, <2>3, <2>4 DEF Bounds
<1>18. Place'
  <2>1. Opened' = Opened
    BY <1>2, <1>3, <1>4, <1>5 DEF Opened
  <2>2. header' # None => header' = stream[Opened]
    BY <1>5, <1>13
  <2>3. header' = None <=> u.last /\ ~stream[Opened].checksum
    BY <1>5, <1>13
  <2>4. at' = at + 1 /\ stream' = stream /\ stream'[at' - 1] = u
    BY <1>2, <1>3, <1>4
  <2> QED BY <1>2, <1>5, <1>12, <1>13, <2>1, <2>2, <2>3, <2>4 DEF Place
<1> QED BY <1>15, <1>16, <1>17, <1>18 DEF IInv

LEMMA VerifyChecksumIInv ==
  ASSUME IInv, VerifyChecksum
  PROVE  IInv'
<1> USE DEF inbuf, outbuf, frame, config, call
<1>1. TypeOK /\ Buffers /\ Bounds /\ Place
  BY DEF IInv
<1>2. /\ in_off' \in Nat /\ in_off' <= in_len
      /\ at \in 1 .. Len(stream) /\ stream[at].kind = "checksum"
      /\ at + 1 \in Nat \ {0} /\ at + 1 <= Len(stream) + 1
      /\ at + 1 > 1 /\ (at + 1) - 1 = at
  BY CursorMoves DEF VerifyChecksum, Consume
<1>3. /\ header' = None /\ in_checksum' = FALSE /\ block_state' = "new"
      /\ at' = at + 1
      /\ UNCHANGED <<in_len, outbuf, xxh, frame_out, frame_start, frame_skipped,
                     frame_base, loaded, garbled, config, call, saw_zstd, stream,
                     unfed, broken>>
  BY DEF VerifyChecksum, Consume, FinishFrame
<1>4. TypeOK'
  <2>1. header' \in Unit \cup {None} /\ (header' # None => header'.kind = "header")
        /\ in_checksum' \in BOOLEAN /\ block_state' \in {"new", "dict", "used"}
        /\ at' \in Nat \ {0}
    BY <1>2, <1>3
  <2> QED BY <1>1, <1>2, <1>3, <2>1, Zenon DEF TypeOK
<1>5. Buffers'
  BY <1>1, <1>2, <1>3 DEF Buffers
<1>6. Bounds'
  BY <1>1, <1>3 DEF Bounds, Have
<1>7. Place'
  BY <1>2, <1>3 DEF Place
<1> QED BY <1>4, <1>5, <1>6, <1>7 DEF IInv

\* How much compaction keeps, and what it can leave.
LEMMA KeepBounds ==
  ASSUME IInv
  PROVE  /\ KeepWindow \in Nat /\ KeepWindow < MostLeft
         /\ DropFrom \in Nat /\ DropFrom >= KeepWindow
         /\ KeepWindow + DropFrom <= MostLeft
         /\ header # None => KeepWindow = header.window
<1>1. KeepWindow \in Nat /\ KeepWindow <= MaxWindow
      /\ (header # None => KeepWindow = header.window)
  <2>1. CASE header = None
    BY <2>1, MostLeftPositive, ConstantsOK DEF KeepWindow
  <2>2. CASE header # None
    <3>1. header \in Unit /\ header.kind = "header" /\ header.window <= WindowMax
      BY <2>2 DEF IInv, TypeOK, Buffers
    <3>2. header.window \in Nat /\ KeepWindow = header.window
      BY <2>2, <3>1, UnitFields DEF KeepWindow
    <3> QED BY <3>1, <3>2, MostLeftPositive, ConstantsOK
  <2> QED BY <2>1, <2>2
<1>2. /\ MaxWindow \in Nat /\ MaxWindow >= 1
      /\ SlideExtraMax \in Nat /\ OutFloor \in Nat
  BY MostLeftPositive, ConstantsOK
<1> HIDE DEF KeepWindow
<1>3. /\ Min2(KeepWindow, SlideExtraMax) \in Nat
      /\ Min2(MaxWindow, SlideExtraMax) \in Nat
      /\ Min2(KeepWindow, SlideExtraMax) <= Min2(MaxWindow, SlideExtraMax)
  BY <1>1, <1>2 DEF Min2
<1>4. /\ DropFrom \in Nat /\ DropFrom >= KeepWindow
      /\ DropFrom <= Max2(MaxWindow + Min2(MaxWindow, SlideExtraMax), OutFloor)
      /\ MaxWindow <= Max2(MaxWindow + Min2(MaxWindow, SlideExtraMax), OutFloor)
      /\ Max2(MaxWindow + Min2(MaxWindow, SlideExtraMax), OutFloor) \in Nat
  BY <1>1, <1>2, <1>3 DEF DropFrom, Max2
<1> QED BY <1>1, <1>2, <1>4 DEF MostLeft

LEMMA CompactInputKeeps ==
  ASSUME in_len \in Nat, in_off \in Nat, in_off <= in_len, CompactInput
  PROVE  /\ in_len' \in Nat /\ in_off' \in Nat /\ in_off' <= in_len'
         /\ in_len' - in_off' = in_len - in_off
  BY DEF CompactInput, inbuf

\* Compaction moves the frame with the bytes, and leaves a window of it.
LEMMA CompactKeeps ==
  ASSUME IInv, NEW off \in Nat, off <= decoded_len, Compact(off)
  PROVE  /\ decoded_len' \in Nat /\ decoded_off' \in Nat /\ drained' \in Nat
         /\ frame_start' \in Nat /\ frame_skipped' \in Nat
         /\ decoded_off' <= decoded_len' /\ frame_start' <= decoded_len'
         /\ drained' + decoded_off' = drained + off
         /\ decoded_len' - decoded_off' = decoded_len - off
         /\ frame_base = drained' + frame_start' - frame_skipped'
         /\ decoded_off' < MostLeft
         /\ header # None =>
              /\ frame_out = decoded_len' - frame_start' + frame_skipped'
              /\ frame_skipped' > 0 =>
                   frame_start' = 0 /\ decoded_len' >= header.window
<1> DEFINE D == Droppable(off)
<1>1. /\ decoded_len \in Nat /\ drained \in Nat /\ frame_start \in Nat
      /\ frame_skipped \in Nat /\ frame_base \in Nat /\ frame_out \in Nat
      /\ frame_start <= decoded_len
      /\ frame_base = drained + frame_start - frame_skipped
      /\ header # None =>
           /\ frame_out = decoded_len - frame_start + frame_skipped
           /\ frame_skipped > 0 => frame_start = 0 /\ decoded_len >= header.window
  BY DEF IInv, TypeOK, Buffers
<1>2. /\ KeepWindow \in Nat /\ KeepWindow < MostLeft
      /\ DropFrom \in Nat /\ DropFrom >= KeepWindow
      /\ KeepWindow + DropFrom <= MostLeft
      /\ header # None => KeepWindow = header.window
      /\ MostLeft \in Nat \ {0}
  BY KeepBounds, MostLeftPositive
<1>3. /\ D \in Nat /\ D <= off /\ (D > 0 => D <= decoded_len - KeepWindow)
      /\ D = off \/ (D >= decoded_len - KeepWindow /\ (D = 0 \/ D = decoded_len - KeepWindow))
  BY <1>1, <1>2 DEF Droppable, Min2, Max2
<1>4. CASE D >= DropFrom
  <2>1. /\ decoded_len' = decoded_len - D /\ decoded_off' = off - D
        /\ drained' = drained + D /\ MoveFrame(D)
    BY <1>4 DEF Compact
  <2> HIDE DEF D
  <2>2. decoded_off' < MostLeft
    BY <1>1, <1>2, <1>3, <1>4, <2>1
  <2>3. CASE D <= frame_start
    <3>1. frame_start' = frame_start - D /\ frame_skipped' = frame_skipped
      BY <2>1, <2>3 DEF MoveFrame
    <3>2. ASSUME header # None
          PROVE /\ frame_out = decoded_len' - frame_start' + frame_skipped'
                /\ frame_skipped' > 0 =>
                     frame_start' = 0 /\ decoded_len' >= header.window
      BY <1>1, <1>2, <1>3, <2>1, <2>3, <3>1, <3>2
    <3> QED BY <1>1, <1>3, <2>1, <2>2, <2>3, <3>1, <3>2
  <2>4. CASE ~(D <= frame_start)
    <3>1. frame_start' = 0 /\ frame_skipped' = frame_skipped + (D - frame_start)
      BY <2>1, <2>4 DEF MoveFrame
    <3>2. ASSUME header # None
          PROVE /\ frame_out = decoded_len' - frame_start' + frame_skipped'
                /\ frame_skipped' > 0 =>
                     frame_start' = 0 /\ decoded_len' >= header.window
      BY <1>1, <1>2, <1>3, <2>1, <2>4, <3>1, <3>2
    <3> QED BY <1>1, <1>3, <2>1, <2>2, <2>4, <3>1, <3>2
  <2> QED BY <2>3, <2>4
<1>5. CASE ~(D >= DropFrom)
  <2>1. /\ decoded_off' = off
        /\ UNCHANGED <<decoded_len, drained, frame_start, frame_skipped>>
    BY <1>5 DEF Compact
  <2> HIDE DEF D
  <2>2. decoded_off' < MostLeft
    BY <1>1, <1>2, <1>3, <1>5, <2>1
  <2> QED BY <1>1, <2>1, <2>2
<1> QED BY <1>4, <1>5

LEMMA ReturnIInv ==
  ASSUME IInv, Return
  PROVE  IInv'
<1> USE DEF inbuf, outbuf, frame, config, call
<1> DEFINE n == Min2(Have, room)
           off == decoded_off + n
<1>1. TypeOK /\ Buffers /\ Bounds /\ Place
  BY DEF IInv
<1>2. /\ CompactInput /\ Compact(off) /\ delivered' = delivered + n
      /\ pc' = "idle" /\ room' = 0 /\ report' \in Reports
  <2>1. /\ CompactInput /\ Compact(off) /\ delivered' = delivered + n
        /\ pc' = "idle" /\ room' = 0
        /\ report' \in {"UnexpectedEof", "done", "more"}
    BY DEF Return
  <2> QED BY <2>1 DEF Reports
<1>3. UNCHANGED <<header, block_state, xxh, frame_out, in_checksum, frame_base,
                 loaded, garbled, config, eof, saw_zstd, stream, at, unfed,
                 broken>>
  BY DEF Return
<1>4. n \in Nat /\ n <= Have /\ Have = decoded_len - decoded_off /\ Have \in Nat
      /\ decoded_len \in Nat /\ decoded_off \in Nat
  BY <1>1 DEF Have, Min2, TypeOK, Buffers
<1> HIDE DEF n
<1>5. off \in Nat /\ off <= decoded_len
  BY <1>4
<1>6. /\ decoded_len' \in Nat /\ decoded_off' \in Nat /\ drained' \in Nat
      /\ frame_start' \in Nat /\ frame_skipped' \in Nat
      /\ decoded_off' <= decoded_len' /\ frame_start' <= decoded_len'
      /\ drained' + decoded_off' = drained + off
      /\ decoded_len' - decoded_off' = decoded_len - off
      /\ frame_base = drained' + frame_start' - frame_skipped'
      /\ decoded_off' < MostLeft
      /\ header # None =>
           /\ frame_out = decoded_len' - frame_start' + frame_skipped'
           /\ frame_skipped' > 0 =>
                frame_start' = 0 /\ decoded_len' >= header.window
  <2> HIDE DEF off
  <2> QED BY <1>2, <1>5, CompactKeeps
<1>7. /\ in_len' \in Nat /\ in_off' \in Nat /\ in_off' <= in_len'
  BY <1>1, <1>2, CompactInputKeeps DEF TypeOK, Buffers
<1>8. delivered \in Nat /\ drained \in Nat /\ delivered = drained + decoded_off
  BY <1>1 DEF TypeOK, Buffers
<1>9. delivered' \in Nat /\ delivered' = drained' + decoded_off'
  <2>1. delivered' = delivered + n
    BY <1>2
  <2>2. drained' + decoded_off' = drained + (decoded_off + n)
    BY <1>6
  <2>3. drained' \in Nat /\ decoded_off' \in Nat
    BY <1>6
  <2>4. n \in Nat /\ decoded_off \in Nat
    BY <1>4
  <2>5. drained + (decoded_off + n) = delivered + n
    BY <1>8, <2>4
  <2>6. delivered + n \in Nat
    BY <1>8, <2>4
  <2> QED BY <2>1, <2>2, <2>5, <2>6
<1>10. TypeOK'
  <2>1. room' \in Nat /\ pc' \in {"idle", "run"}
    BY <1>2
  <2> QED BY <1>1, <1>2, <1>3, <1>6, <1>7, <1>9, <2>1, Zenon DEF TypeOK
<1>11. Buffers'
  <2>1. header # None => header.window <= WindowMax
    BY <1>1 DEF Buffers
  <2>2. ~garbled'
    BY <1>1, <1>3 DEF Buffers
  <2>3. header' = header /\ frame_out' = frame_out /\ frame_base' = frame_base
    BY <1>3
  <2>4. header' # None =>
          /\ frame_out' = decoded_len' - frame_start' + frame_skipped'
          /\ frame_skipped' > 0 => frame_start' = 0 /\ decoded_len' >= header'.window
          /\ header'.window <= WindowMax
    BY <1>6, <2>1, <2>3
  <2> QED BY <1>6, <1>7, <1>9, <2>2, <2>3, <2>4 DEF Buffers
<1>12. Bounds'
  <2>1. Have' \in Nat /\ Have' <= Have
    <3>1. decoded_len' - decoded_off' = decoded_len - (decoded_off + n)
      BY <1>6
    <3>2. Have' = decoded_len' - decoded_off'
      BY DEF Have
    <3>3. n \in Nat /\ n <= Have /\ Have = decoded_len - decoded_off
          /\ decoded_len \in Nat /\ decoded_off \in Nat
      BY <1>4
    <3> QED BY <3>1, <3>2, <3>3
  <2>2. ASSUME NEW cap \in OutCaps, \A c \in OutCaps : c <= cap
        PROVE  Have' < Max2(cap, 1) + BlockSizeMax
    <3>1. Have < Max2(cap, 1) + BlockSizeMax
      BY <1>1, <2>2 DEF Bounds
    <3>2. Max2(cap, 1) + BlockSizeMax \in Nat
      BY ConstantsOK DEF Max2
    <3> QED BY <1>4, <2>1, <3>1, <3>2
  <2>3. MostLeft' = MostLeft
    BY DEF MostLeft
  <2> QED BY <1>2, <1>6, <2>2, <2>3 DEF Bounds
<1>13. Place'
  BY <1>1, <1>3 DEF Place, Opened
<1> QED BY <1>10, <1>11, <1>12, <1>13 DEF IInv

-----------------------------------------------------------------------------
LEMMA StutterIInv ==
  ASSUME IInv, UNCHANGED vars
  PROVE  IInv'
<1> USE DEF vars, inbuf, outbuf, frame, config, call
<1>1. TypeOK /\ Buffers /\ Bounds /\ Place
  BY DEF IInv
<1>2. TypeOK'
  BY <1>1, Zenon DEF TypeOK
<1>3. Buffers'
  BY <1>1 DEF Buffers
<1>4. Bounds'
  BY <1>1 DEF Bounds, Have
<1>5. Place'
  BY <1>1 DEF Place, Opened
<1> QED BY <1>2, <1>3, <1>4, <1>5 DEF IInv

LEMMA NextIInv == IInv /\ [Next]_vars => IInv'
<1> SUFFICES ASSUME IInv, [Next]_vars PROVE IInv'
  OBVIOUS
<1>1. CASE \E n \in FeedLens, cap \in OutCaps, end \in BOOLEAN : Call(n, cap, end)
  BY <1>1, CallIInv
<1>2. CASE SkipFrame
  BY <1>2, SkipFrameIInv
<1>3. CASE Junk
  <2>1. PICK e \in {"TrailingBytes", "BadMagic", "ReservedBlockType"} : Refused(e)
    BY <1>3 DEF Junk
  <2>2. e \in Reports
    BY DEF Reports
  <2> QED BY <2>1, <2>2, RefusedIInv
<1>4. CASE HeaderRefused
  BY <1>4, RefusedIInv, FaultsAreReports DEF HeaderRefused
<1>5. CASE OpenFrame
  BY <1>5, OpenFrameIInv
<1>6. CASE BlockRefused
  BY <1>6, BrokenIInv, FaultsAreReports DEF BlockRefused
<1>7. CASE DecodeBlock
  BY <1>7, DecodeBlockIInv
<1>8. CASE ChecksumRefused
  BY <1>8, BrokenIInv, FaultsAreReports DEF ChecksumRefused
<1>9. CASE VerifyChecksum
  BY <1>9, VerifyChecksumIInv
<1>10. CASE Return
  BY <1>10, ReturnIInv
<1>11. CASE \E d \in Dictionary : SetDictionary(d)
  <2>1. PICK d \in Dictionary : SetDictionary(d)
    BY <1>11
  <2>2. d.len \in Nat
    BY ConstantsOK
  <2> QED BY <2>1, <2>2, SetHistoryIInv DEF SetDictionary
<1>12. CASE \E n \in PrefixLens : SetPrefix(n)
  <2>1. PICK n \in PrefixLens : SetPrefix(n)
    BY <1>12
  <2>2. n \in Nat
    BY ConstantsOK
  <2> QED BY <2>1, <2>2, SetHistoryIInv DEF SetPrefix
<1>13. CASE UNCHANGED vars
  BY <1>13, StutterIInv
<1> QED BY <1>1, <1>2, <1>3, <1>4, <1>5, <1>6, <1>7, <1>8, <1>9, <1>10, <1>11,
           <1>12, <1>13 DEF Next, Running

\* The inductive invariant holds of every reachable state.
THEOREM Invariant == Spec => []IInv
  BY InitIInv, NextIInv, PTL DEF Spec

\* Every variable keeps its type, in particular the lengths and the offsets
\* that the code computes with unsigned subtraction.
THEOREM TypeCorrect == Spec => []TypeOK
<1>1. IInv => TypeOK
  BY DEF IInv
<1> QED BY <1>1, Invariant, PTL

\* Compaction moves the window under the matches without changing what they
\* copy, and the caller gets the output in order and once: for every stream,
\* window and cut of input and output.
THEOREM OutputIsContentHolds == Spec => []OutputIsContent
<1>1. IInv => OutputIsContent
  BY DEF IInv, Buffers, OutputIsContent
<1> QED BY <1>1, Invariant, PTL

\* However much input one call brings, the buffer of decoded bytes stays below
\* what compaction leaves, a caller's buffer and a block.
THEOREM BoundedOutputHolds == Spec => []BoundedOutput
<1>1. IInv => BoundedOutput
  <2> SUFFICES ASSUME IInv, NEW cap \in OutCaps, \A c \in OutCaps : c <= cap
               PROVE  decoded_len < MostLeft + Max2(cap, 1) + BlockSizeMax
    BY DEF BoundedOutput
  <2>1. /\ Have < Max2(cap, 1) + BlockSizeMax /\ decoded_off < MostLeft
        /\ Have = decoded_len - decoded_off
        /\ decoded_len \in Nat /\ decoded_off \in Nat
    BY DEF IInv, Bounds, Have, TypeOK
  <2>2. Max2(cap, 1) \in Nat /\ BlockSizeMax \in Nat /\ MostLeft \in Nat
    BY ConstantsOK, MostLeftPositive DEF Max2
  <2> QED BY <2>1, <2>2
<1> QED BY <1>1, Invariant, PTL

-----------------------------------------------------------------------------
\* The frames opened up to unit i.
Headers(s, i) == {j \in 1 .. i : s[j].kind = "header"}
FrameNo(s, i) == Cardinality(Headers(s, i))

Hist   == loaded[Len(loaded)]
Blocks == Opened + 1 .. at - 1

\* What the coder holds in the open frame follows from the units it parsed.
Coder ==
  /\ Len(loaded) > 0
  /\ prefix = Hist.len
  /\ block_state = IF \E j \in Blocks : stream[j].coded THEN "used" ELSE Hist.state
  /\ xxh = IF Hist.len = header.ext \/ \A j \in Blocks : ~Reaches(stream[j])
           THEN frame_out ELSE Garbled

\* What the decoder has accepted and rejected.
Verdict ==
  /\ Len(loaded) = FrameNo(stream, at - 1)
  /\ \A i \in 1 .. at - 1 :
       /\ AcceptsAt(i)
       /\ stream[i].kind # "skip" => FrameNo(stream, i) \in 1 .. Len(loaded)
  /\ header # None => Coder
  /\ broken => /\ pc = "idle"
               /\ ~AcceptsAt(at) \/ BeyondWindow(stream[at])

LEMMA FrameNoNext ==
  ASSUME NEW s, NEW i \in Nat
  PROVE  /\ FrameNo(s, i) \in Nat /\ FrameNo(s, 0) = 0
         /\ FrameNo(s, i + 1) =
              IF s[i + 1].kind = "header" THEN FrameNo(s, i) + 1 ELSE FrameNo(s, i)
<1>1. IsFiniteSet(1 .. i)
  BY FS_Interval
<1>2. IsFiniteSet(Headers(s, i)) /\ FrameNo(s, i) \in Nat
  <2>1. Headers(s, i) \subseteq 1 .. i
    BY DEF Headers
  <2>2. IsFiniteSet(Headers(s, i))
    BY <1>1, <2>1, FS_Subset
  <2> QED BY <2>2, FS_CardinalityType DEF FrameNo
<1>3. FrameNo(s, 0) = 0
  <2>1. Headers(s, 0) = {}
    BY DEF Headers
  <2> QED BY <2>1, FS_EmptySet DEF FrameNo
<1>4. CASE s[i + 1].kind = "header"
  <2>1. Headers(s, i + 1) = Headers(s, i) \cup {i + 1} /\ i + 1 \notin Headers(s, i)
    BY <1>4 DEF Headers
  <2>2. FrameNo(s, i + 1) = FrameNo(s, i) + 1
    BY <1>2, <2>1, FS_AddElement DEF FrameNo
  <2> QED BY <1>2, <1>3, <1>4, <2>2
<1>5. CASE s[i + 1].kind # "header"
  <2>1. Headers(s, i + 1) = Headers(s, i)
    BY <1>5 DEF Headers
  <2>2. FrameNo(s, i + 1) = FrameNo(s, i)
    BY <2>1 DEF FrameNo
  <2> QED BY <1>2, <1>3, <1>5, <2>2
<1> QED BY <1>4, <1>5

LEMMA FrameNoAt ==
  ASSUME TypeOK, at <= Len(stream), Verdict
  PROVE  /\ FrameNo(stream, at) =
              IF stream[at].kind = "header" THEN Len(loaded) + 1 ELSE Len(loaded)
         /\ Len(loaded) \in Nat
<1>1. at \in Nat \ {0} /\ Len(loaded) \in Nat
  BY DEF TypeOK
<1>2. at - 1 \in Nat /\ (at - 1) + 1 = at
  BY <1>1
<1>3. Len(loaded) = FrameNo(stream, at - 1)
  BY DEF Verdict
<1>4. FrameNo(stream, (at - 1) + 1) =
        IF stream[(at - 1) + 1].kind = "header" THEN FrameNo(stream, at - 1) + 1
        ELSE FrameNo(stream, at - 1)
  BY <1>2, FrameNoNext
<1> QED BY <1>1, <1>2, <1>3, <1>4

\* What a decoder that has everything asks of the next unit, in the terms of
\* the streaming decoder's state.
LEMMA BlockVerdict ==
  ASSUME IInv, Verdict, at <= Len(stream), stream[at].kind = "block"
  PROVE  /\ Coder /\ header \in Unit
         /\ AcceptsAt(at) <=>
              /\ stream[at].to - stream[at].from <= BlockMaxOf(header)
              /\ stream[at].match # None =>
                   /\ stream[at].match.off \in
                        1 .. prefix + stream[at].from + stream[at].match.at
                   /\ stream[at].match.off <= header.window \/ Reaches(stream[at])
              /\ stream[at].repeats =>
                   Hist.state = "dict" \/ \E j \in Blocks : stream[j].coded
              /\ stream[at].last /\ ~header.checksum =>
                   header.size \in {None, stream[at].to}
<1>1. TypeOK /\ Place
  BY DEF IInv
<1>2. /\ header # None /\ header = stream[Opened] /\ HeaderAt(stream, at) = Opened
  BY <1>1, AtBlock
<1>3. Coder /\ header \in Unit
  BY <1>1, <1>2 DEF Verdict, TypeOK
<1>4. FrameNo(stream, at) = Len(loaded)
  BY <1>1, FrameNoAt
<1>5. AcceptsAt(at) = Accepts(stream, at, Hist)
  BY <1>4 DEF AcceptsAt, FrameNo, Headers, Hist
<1>6. prefix = Hist.len
  BY <1>3 DEF Coder
<1>7. Accepts(stream, at, Hist) <=>
              /\ stream[at].to - stream[at].from <= BlockMaxOf(header)
              /\ stream[at].match # None =>
                   /\ stream[at].match.off \in
                        1 .. Hist.len + stream[at].from + stream[at].match.at
                   /\ stream[at].match.off <= header.window \/ Reaches(stream[at])
              /\ stream[at].repeats =>
                   Hist.state = "dict" \/ \E j \in Blocks : stream[j].coded
              /\ stream[at].last /\ ~header.checksum =>
                   header.size \in {None, stream[at].to}
  BY <1>2, Zenon DEF Accepts, Blocks
<1> QED BY <1>3, <1>5, <1>6, <1>7, Zenon

LEMMA ChecksumVerdict ==
  ASSUME IInv, Verdict, at <= Len(stream), stream[at].kind = "checksum"
  PROVE  /\ Coder
         /\ AcceptsAt(at) <=>
              /\ stream[at].of = frame_out /\ header.size \in {None, stream[at].of}
              /\ Hist.len = header.ext \/ \A j \in Blocks : ~Reaches(stream[j])
<1>1. TypeOK /\ Place
  BY DEF IInv
<1>2. /\ header # None /\ header = stream[Opened] /\ HeaderAt(stream, at) = Opened
      /\ stream[at-1].to = frame_out
  BY <1>1, AtChecksum
<1>3. Coder
  BY <1>2 DEF Verdict
<1>4. FrameNo(stream, at) = Len(loaded)
  BY <1>1, FrameNoAt
<1>5. AcceptsAt(at) = Accepts(stream, at, Hist)
  BY <1>4 DEF AcceptsAt, FrameNo, Headers, Hist
<1>6. Accepts(stream, at, Hist) <=>
              /\ stream[at].of = stream[at-1].to /\ header.size \in {None, stream[at].of}
              /\ Hist.len = header.ext \/ \A j \in Blocks : ~Reaches(stream[j])
  BY <1>2, Zenon DEF Accepts, Blocks
<1> QED BY <1>2, <1>3, <1>5, <1>6, Zenon

-----------------------------------------------------------------------------
\* What was accepted stays accepted when a frame is opened.
LEMMA AcceptedStays ==
  ASSUME TypeOK, Verdict, stream' = stream, NEW i \in 1 .. at - 1,
         \/ loaded' = loaded
         \/ \E x : loaded' = Append(loaded, x)
  PROVE  /\ AcceptsAt(i)'
         /\ stream'[i].kind # "skip" => FrameNo(stream', i) \in 1 .. Len(loaded')
<1>1. /\ AcceptsAt(i)
      /\ stream[i].kind # "skip" => FrameNo(stream, i) \in 1 .. Len(loaded)
  BY DEF Verdict
<1>2. loaded \in Seq([len : Nat, state : {"new", "dict"}]) /\ Len(loaded) \in Nat
  BY DEF TypeOK
<1>3. CASE stream[i].kind = "skip"
  BY <1>3 DEF AcceptsAt, Accepts
<1>4. CASE stream[i].kind # "skip"
  <2> DEFINE k == FrameNo(stream, i)
  <2>1. k \in 1 .. Len(loaded)
    BY <1>1, <1>4
  <2> HIDE DEF k
  <2>2. loaded'[k] = loaded[k] /\ k \in 1 .. Len(loaded')
    BY <1>2, <2>1
  <2> USE DEF k
  <2>3. AcceptsAt(i) = Accepts(stream, i, loaded[k])
    BY DEF AcceptsAt, FrameNo, Headers
  <2>4. AcceptsAt(i)' = Accepts(stream, i, loaded'[k])
    BY DEF AcceptsAt, FrameNo, Headers
  <2>5. AcceptsAt(i)'
    BY <1>1, <2>2, <2>3, <2>4
  <2> QED BY <2>2, <2>5
<1> QED BY <1>3, <1>4

\* Steps that parse nothing.
LEMMA SameVerdict ==
  ASSUME TypeOK, Verdict,
         UNCHANGED <<stream, at, loaded, header, broken, block_state, xxh, frame_out>>,
         header = None \/ prefix' = prefix,
         broken => pc' = "idle"
  PROVE  Verdict'
<1>1. Len(loaded') = FrameNo(stream', at' - 1)
  BY DEF Verdict
<1>2. ASSUME NEW i \in 1 .. at' - 1
      PROVE /\ AcceptsAt(i)'
            /\ stream'[i].kind # "skip" => FrameNo(stream', i) \in 1 .. Len(loaded')
  BY AcceptedStays
<1>3. header' # None => Coder'
  BY DEF Verdict, Coder, Hist, Blocks, Opened
<1>4. AcceptsAt(at)' = AcceptsAt(at)
  BY DEF AcceptsAt
<1>5. BeyondWindow(stream[at])' = BeyondWindow(stream[at])
  BY DEF BeyondWindow
<1>6. broken' => /\ pc' = "idle"
                 /\ ~AcceptsAt(at)' \/ BeyondWindow(stream[at])'
  BY <1>4, <1>5 DEF Verdict
<1> QED BY <1>1, <1>2, <1>3, <1>6 DEF Verdict

\* A unit parsed: what is left to show of it.
LEMMA NextVerdict ==
  ASSUME TypeOK, Verdict, at <= Len(stream), stream' = stream, at' = at + 1,
         ~broken', NEW n, n = at, AcceptsAt(n)',
         IF stream[at].kind = "header"
         THEN \E x : loaded' = Append(loaded, x)
         ELSE loaded' = loaded,
         stream[at].kind \in {"block", "checksum"} => Len(loaded) > 0,
         header' # None => Coder'
  PROVE  Verdict'
<1>1. /\ FrameNo(stream, at) =
           IF stream[at].kind = "header" THEN Len(loaded) + 1 ELSE Len(loaded)
      /\ Len(loaded) \in Nat /\ at \in Nat \ {0}
      /\ loaded \in Seq([len : Nat, state : {"new", "dict"}])
  BY FrameNoAt DEF TypeOK
<1>2. Len(loaded') = FrameNo(stream, at)
  BY <1>1
<1>3. at' - 1 = at
  BY <1>1
<1>4. ASSUME NEW i \in 1 .. at' - 1
      PROVE /\ AcceptsAt(i)'
            /\ stream'[i].kind # "skip" => FrameNo(stream', i) \in 1 .. Len(loaded')
  <2>1. CASE i = at
    <3>1. AcceptsAt(i)'
      BY <2>1
    <3>2. stream'[i].kind \in {"header", "block", "checksum", "skip"}
      BY <3>1 DEF AcceptsAt, Accepts
    <3>3. stream[at].kind # "skip" => FrameNo(stream, at) \in 1 .. Len(loaded')
      BY <1>1, <1>2, <2>1, <3>2
    <3> QED BY <2>1, <3>1, <3>3
  <2>2. CASE i # at
    <3>1. i \in 1 .. at - 1
      BY <1>1, <1>3, <2>2
    <3> QED BY <3>1, AcceptedStays
  <2> QED BY <2>1, <2>2
<1> QED BY <1>2, <1>3, <1>4 DEF Verdict

LEMMA SkipFrameVerdict ==
  ASSUME IInv, Verdict, SkipFrame
  PROVE  Verdict'
<1> USE DEF frame, config, call
<1>1. TypeOK /\ Place
  BY DEF IInv
<1>2. at \in 1 .. Len(stream) /\ stream[at].kind = "skip"
  BY CursorMoves DEF SkipFrame, Consume
<1>3. /\ at' = at + 1 /\ stream' = stream /\ loaded' = loaded
      /\ header' = header /\ broken' = broken /\ pc = "run"
  BY DEF SkipFrame, Consume, Parsing
<1>4. header' = None /\ ~broken'
  BY <1>1, <1>2, <1>3, AtFrameStart DEF Verdict
<1>5. PICK n : n = at
  OBVIOUS
<1>6. AcceptsAt(n)'
  <2>1. ASSUME NEW h PROVE Accepts(stream, n, h)
    BY <1>2, <1>5 DEF Accepts
  <2> QED BY <1>3, <2>1 DEF AcceptsAt
<1> QED BY <1>1, <1>2, <1>3, <1>4, <1>5, <1>6, NextVerdict

LEMMA OpenFrameVerdict ==
  ASSUME IInv, Verdict, OpenFrame
  PROVE  Verdict'
<1> USE DEF frame, config, call
<1>1. TypeOK /\ Place /\ loaded \in Seq([len : Nat, state : {"new", "dict"}])
  BY DEF IInv, TypeOK
<1>2. /\ at \in 1 .. Len(stream) /\ stream[at].kind = "header"
      /\ stream[at] \in Unit /\ (at + 1) - 1 = at
  BY CursorMoves DEF OpenFrame, Consume
<1>3. /\ header' = stream[at] /\ block_state' = StateFromDict
      /\ xxh' = 0 /\ frame_out' = 0 /\ prefix' = prefix
      /\ loaded' = Append(loaded, [len |-> prefix, state |-> StateFromDict])
      /\ at' = at + 1 /\ stream' = stream /\ broken' = broken /\ pc = "run"
  BY DEF OpenFrame, Consume, Parsing
<1>4. ~broken'
  BY <1>3 DEF Verdict
<1>5. PICK n : n = at
  OBVIOUS
<1>6. AcceptsAt(n)'
  <2>1. stream[at].window \in Nat
    BY <1>2, UnitFields
  <2>2. ~(stream[at].window > WindowMax)
    BY HeaderFaultNone DEF OpenFrame
  <2>3. stream[n].window <= WindowMax
    BY <1>5, <2>1, <2>2, ConstantsOK
  <2>4. ASSUME NEW h PROVE Accepts(stream, n, h)
    BY <1>2, <1>5, <2>3 DEF Accepts
  <2> QED BY <1>3, <2>4 DEF AcceptsAt
<1>7. Len(loaded') > 0 /\ Hist' = [len |-> prefix, state |-> StateFromDict]
  <2> DEFINE x == [len |-> prefix, state |-> StateFromDict]
             S == [len : Nat, state : {"new", "dict"}]
  <2>1. x \in S
    BY <1>1 DEF TypeOK, StateFromDict
  <2>2. loaded \in Seq(S) /\ loaded' = Append(loaded, x)
    BY <1>1, <1>3
  <2> HIDE DEF x, S
  <2>3. Len(loaded') = Len(loaded) + 1 /\ Len(loaded) \in Nat
        /\ loaded'[Len(loaded) + 1] = x
    BY <2>1, <2>2
  <2>4. Len(loaded') > 0 /\ loaded'[Len(loaded')] = x
    BY <2>3
  <2> QED BY <2>4 DEF Hist, x
<1>8. Blocks' = {}
  <2>1. Opened' = at
    BY <1>2, <1>3, HeaderAtHere DEF Opened
  <2> QED BY <1>2, <1>3, <2>1 DEF Blocks
<1>9. Coder'
  BY <1>3, <1>7, <1>8 DEF Coder
<1>10. \E x : loaded' = Append(loaded, x)
  BY <1>3
<1> QED BY <1>1, <1>2, <1>3, <1>4, <1>5, <1>6, <1>9, <1>10, NextVerdict

\* A unit refused for good, which the decoder with everything refuses too.
LEMMA BrokenVerdict ==
  ASSUME IInv, Verdict, NEW e, Broken(e),
         ~AcceptsAt(at) \/ BeyondWindow(stream[at])
  PROVE  Verdict'
<1> USE DEF frame, config, call
<1>1. TypeOK
  BY DEF IInv
<1>2. UNCHANGED <<stream, at, loaded, header, block_state, xxh, frame_out, prefix>>
      /\ pc' = "idle"
  BY DEF Broken
<1>3. Len(loaded') = FrameNo(stream', at' - 1)
  BY <1>2 DEF Verdict
<1>4. ASSUME NEW i \in 1 .. at' - 1
      PROVE /\ AcceptsAt(i)'
            /\ stream'[i].kind # "skip" => FrameNo(stream', i) \in 1 .. Len(loaded')
  BY <1>1, <1>2, AcceptedStays
<1>5. header' # None => Coder'
  BY <1>2 DEF Verdict, Coder, Hist, Blocks, Opened
<1>6. AcceptsAt(at)' = AcceptsAt(at) /\ BeyondWindow(stream[at])' = BeyondWindow(stream[at])
  BY <1>2 DEF AcceptsAt, BeyondWindow
<1>7. pc' = "idle" /\ (~AcceptsAt(at)' \/ BeyondWindow(stream[at])')
  BY <1>2, <1>6
<1> QED BY <1>3, <1>4, <1>5, <1>7 DEF Verdict

\* A match within the window is never refused for what compaction dropped.
LEMMA BlockRefusedRightly ==
  ASSUME IInv, Verdict, at <= Len(stream), stream[at].kind = "block",
         BlockFault(stream[at]) # "none"
  PROVE  ~AcceptsAt(at) \/ BeyondWindow(stream[at])
<1> DEFINE u == stream[at]
<1>1. TypeOK /\ Buffers /\ Place
  BY DEF IInv
<1>2. /\ header # None /\ header = stream[Opened] /\ HeaderAt(stream, at) = Opened
      /\ u.from = frame_out /\ u.from <= u.to
  BY <1>1, AtBlock
<1>3. stream \in Streams /\ at \in 1 .. Len(stream)
  BY <1>1, ConstantsOK DEF TypeOK
<1>4. u \in Unit /\ header \in Unit /\ header.kind = "header"
  BY <1>1, <1>2, <1>3, UnitAt DEF TypeOK
<1>5. /\ u.from \in Nat /\ u.to \in Nat /\ u.match \in Match \cup {None}
      /\ header.window \in Nat /\ BlockMaxOf(header) \in Nat
  BY <1>4, UnitFields, ConstantsOK DEF BlockMaxOf, Min2
<1>6. Coder
  BY <1>1, <1>2 DEF Verdict
<1>7. CASE u.to - u.from > BlockMaxOf(header)
  BY <1>5, <1>7, BlockVerdict
<1>8. CASE u.repeats /\ block_state = "new"
  <2>1. ~(\E j \in Blocks : stream[j].coded) /\ Hist.state # "dict"
    BY <1>6, <1>8 DEF Coder
  <2> QED BY <1>8, <2>1, BlockVerdict
<1>9. CASE u.match # None /\ ~MatchFound(u)
  <2>1. u.match \in Match
    BY <1>5, <1>9
  <2>2. u.match.at \in Nat /\ u.match.off \in Nat /\ u.match.len \in Nat
    BY <2>1 DEF Match
  <2> DEFINE P == u.from + u.match.at
  <2>3. /\ decoded_len \in Nat /\ frame_start \in Nat /\ frame_skipped \in Nat
        /\ prefix \in Nat
        /\ frame_out = decoded_len - frame_start + frame_skipped
        /\ frame_skipped > 0 => frame_start = 0 /\ decoded_len >= header.window
    BY <1>1, <1>2 DEF TypeOK, Buffers
  <2>4. Produced(u) = P
    BY SMTT(60), <1>2, <1>5, <2>2, <2>3 DEF Produced
  <2>5. P \in Nat /\ (frame_skipped > 0 => P >= header.window + frame_skipped)
    <3>1. u.from = decoded_len - frame_start + frame_skipped
      BY <1>2, <2>3
    <3>2. /\ u.from \in Nat /\ u.match.at \in Nat /\ header.window \in Nat
          /\ frame_skipped \in Nat
      BY <1>5, <2>2, <2>3
    <3>3. frame_skipped > 0 => u.from >= header.window + frame_skipped
      BY <2>3, <3>1, <3>2
    <3> HIDE DEF u
    <3> QED BY <3>2, <3>3
  <2>6. SourcePos(u) = prefix + P - u.match.off
    BY <2>4 DEF SourcePos
  <2>7. AcceptsAt(at) =>
          /\ u.match.off \in 1 .. prefix + P
          /\ u.match.off <= header.window \/ u.match.off > P
    BY <1>9, <2>2, <2>3, <1>5, BlockVerdict DEF Reaches
  <2>8. HeaderAt(stream, at) = Opened /\ stream[HeaderAt(stream, at)].window = header.window
    BY <1>2
  <2>9. BeyondWindow(u) <=> u.match.off > P /\ P > header.window
    BY <1>9, <2>8 DEF BeyondWindow, Reaches
  <2>10. InFrame(u) <=> u.match.off <= P
    <3> HIDE DEF u, P
    <3> QED BY <2>2, <2>3, <2>5, <2>6 DEF InFrame
  <2>11. \/ u.match.off = 0
         \/ ~(u.match.off <= prefix + P)
         \/ InFrame(u) /\ ~(u.match.off <= header.window)
         \/ InFrame(u) /\ ~(SourcePos(u) - prefix >= frame_skipped)
         \/ ~InFrame(u) /\ frame_skipped # 0
    BY <1>9, <2>4 DEF MatchFound
  <2> HIDE DEF u, P
  <2>12. CASE u.match.off = 0 \/ ~(u.match.off <= prefix + P)
    BY <2>7, <2>12
  <2>13. CASE InFrame(u) /\ ~(u.match.off <= header.window)
    BY <1>5, <2>2, <2>5, <2>7, <2>10, <2>13
  <2>14. CASE InFrame(u) /\ ~(SourcePos(u) - prefix >= frame_skipped)
    <3>1. u.match.off <= P /\ P - u.match.off < frame_skipped
      BY <2>2, <2>3, <2>5, <2>6, <2>10, <2>14
    <3>2. frame_skipped > 0
      BY <2>2, <2>3, <2>5, <3>1
    <3>3. u.match.off > header.window
      BY <1>5, <2>2, <2>3, <2>5, <3>1, <3>2
    <3>4. ~AcceptsAt(at)
      BY <1>5, <2>2, <2>5, <2>7, <3>1, <3>3
    <3> QED BY <3>4
  <2>15. CASE ~InFrame(u) /\ frame_skipped # 0
    <3>1. u.match.off > P /\ frame_skipped > 0
      BY <2>2, <2>3, <2>5, <2>10, <2>15
    <3>2. P > header.window
      BY <1>5, <2>3, <2>5, <3>1
    <3> QED BY <2>9, <3>1, <3>2 DEF u
  <2> QED BY <2>11, <2>12, <2>13, <2>14, <2>15
<1>10. CASE /\ u.last /\ ~header.checksum /\ header.size # None
            /\ header.size # frame_out + (u.to - u.from)
  <2>1. frame_out + (u.to - u.from) = u.to
    BY <1>2, <1>5
  <2> QED BY <1>10, <2>1, BlockVerdict
<1>11. \/ u.to - u.from > BlockMaxOf(header)
       \/ u.repeats /\ block_state = "new"
       \/ u.match # None /\ ~MatchFound(u)
       \/ /\ u.last /\ ~header.checksum /\ header.size # None
          /\ header.size # frame_out + (u.to - u.from)
  BY Zenon DEF BlockFault
<1> QED BY <1>7, <1>8, <1>9, <1>10, <1>11

LEMMA LastIsElement ==
  ASSUME NEW S, NEW s \in Seq(S), Len(s) > 0
  PROVE  s[Len(s)] \in S
<1>1. Len(s) \in 1 .. Len(s)
  OBVIOUS
<1> QED BY <1>1

LEMMA DecodeBlockVerdict ==
  ASSUME IInv, Verdict, DecodeBlock
  PROVE  Verdict'
<1> USE DEF frame, config, call
<1> DEFINE u == stream[at]
           right == u.match = None \/ WrongHistory(u) \/ MatchRight(u)
           agree == Hist.len = header.ext
<1>1. TypeOK /\ Place
  BY DEF IInv
<1>2. /\ at \in 1 .. Len(stream) /\ u.kind = "block" /\ u \in Unit
      /\ (at + 1) - 1 = at
  BY CursorMoves DEF DecodeBlock, Consume
<1>3. /\ frame_out' = frame_out + (u.to - u.from)
      /\ xxh' = IF right /\ ~WrongHistory(u) /\ xxh = u.from THEN u.to ELSE Garbled
      /\ IF u.last /\ ~header.checksum
         THEN FinishFrame
         ELSE /\ in_checksum' = u.last
              /\ block_state' = IF u.coded THEN "used" ELSE block_state
              /\ UNCHANGED header
      /\ at' = at + 1
  BY DEF DecodeBlock, Consume
<1>4. /\ UNCHANGED <<loaded, prefix, stream, broken>> /\ pc = "run"
  BY DEF DecodeBlock, Parsing
<1>5. /\ header # None /\ header = stream[Opened] /\ at > 1
      /\ HeaderAt(stream, at) = Opened /\ Opened \in 1 .. at - 1
      /\ u.from = frame_out /\ u.from <= u.to
  BY <1>1, <1>2, AtBlock DEF IsHeaderAt
<1>6. u.from \in Nat /\ u.to \in Nat /\ u.match \in Match \cup {None}
  BY <1>2, UnitFields
<1>7. Coder
  BY <1>5 DEF Verdict
<1>8. /\ u.to - u.from <= BlockMaxOf(header)
      /\ u.match # None => MatchFound(u)
      /\ u.repeats => block_state # "new"
      /\ u.last /\ ~header.checksum => header.size \in {None, u.to}
  <2>1. /\ ~(u.to - u.from > BlockMaxOf(header))
        /\ u.match # None => MatchFound(u)
        /\ u.repeats => block_state # "new"
        /\ ~(/\ u.last /\ ~header.checksum /\ header.size # None
             /\ header.size # frame_out + (u.to - u.from))
    BY BlockFaultNone DEF DecodeBlock
  <2>2. frame_out + (u.to - u.from) = u.to
    BY <1>5, <1>6
  <2>3. BlockMaxOf(header) \in Nat
    <3>1. header \in Unit /\ header.kind = "header"
      BY <1>1, <1>5 DEF TypeOK
    <3>2. header.window \in Nat
      BY <3>1, UnitFields
    <3> QED BY <3>2, ConstantsOK DEF BlockMaxOf, Min2
  <2>4. u.to - u.from <= BlockMaxOf(header)
    BY <1>6, <2>1, <2>3
  <2> QED BY <2>1, <2>2, <2>4, Zenon
\* The match is accepted, and reaches into the history when it does not
\* begin in the frame.
<1>9. ASSUME u.match # None
      PROVE  /\ u.match.off \in 1 .. prefix + u.from + u.match.at
             /\ u.match.off <= header.window \/ Reaches(u)
             /\ Reaches(u) <=> ~InFrame(u)
             /\ right
  <2>1. u.match \in Match
    BY <1>6, <1>9
  <2>2. u.match.at \in Nat /\ u.match.off \in Nat /\ prefix \in Nat
    BY <1>1, <2>1 DEF Match, TypeOK
  <2>3. Produced(u) = u.from + u.match.at /\ right
    BY <1>2, <1>8, <1>9, MatchIsRight
  <2>4. SourcePos(u) = prefix + (u.from + u.match.at) - u.match.off
    BY <2>3 DEF SourcePos
  <2> HIDE DEF right
  <2>5. InFrame(u) <=> u.match.off <= u.from + u.match.at
    BY <1>6, <2>2, <2>4 DEF InFrame
  <2>6. Reaches(u) <=> ~InFrame(u)
    <3>1. Reaches(u) <=> u.match.off > u.from + u.match.at
      BY <1>9 DEF Reaches
    <3> QED BY <1>6, <2>2, <2>5, <3>1
  <2>7. /\ u.match.off # 0 /\ u.match.off <= prefix + Produced(u)
        /\ InFrame(u) => u.match.off <= header.window
    BY <1>8, <1>9 DEF MatchFound
  <2>8. u.match.off \in 1 .. prefix + u.from + u.match.at
    BY <1>6, <2>2, <2>3, <2>7
  <2> QED BY <2>3, <2>6, <2>7, <2>8
<1>10. right
  BY <1>9
<1>11. AcceptsAt(at)
  <2>1. u.repeats => Hist.state = "dict" \/ \E j \in Blocks : stream[j].coded
    <3>1. Hist.state \in {"new", "dict"}
      <4>1. loaded \in Seq([len : Nat, state : {"new", "dict"}])
        BY <1>1 DEF TypeOK
      <4>2. Len(loaded) > 0
        BY <1>7 DEF Coder
      <4>3. Hist \in [len : Nat, state : {"new", "dict"}]
        BY <4>1, <4>2, LastIsElement DEF Hist
      <4> QED BY <4>3
    <3>2. block_state = IF \E j \in Blocks : stream[j].coded THEN "used" ELSE Hist.state
      BY <1>7 DEF Coder
    <3>3. ASSUME u.repeats, ~ \E j \in Blocks : stream[j].coded
          PROVE  Hist.state = "dict"
      BY <1>8, <3>1, <3>2, <3>3
    <3> QED BY <3>3
  <2> HIDE DEF right
  <2> QED BY <1>2, <1>8, <1>9, <2>1, BlockVerdict
<1>12. PICK n : n = at
  OBVIOUS
<1>13. AcceptsAt(n)'
  <2>1. AcceptsAt(n)
    BY <1>11, <1>12
  <2> QED BY <1>4, <2>1 DEF AcceptsAt
<1>14. ASSUME header' # None PROVE Coder'
  <2>1. header' = header /\ block_state' = IF u.coded THEN "used" ELSE block_state
    BY <1>3, <1>14, Zenon DEF FinishFrame
  <2>2. Opened' = Opened /\ Hist' = Hist
    BY <1>2, <1>3, <1>4, <1>5 DEF Opened, Hist
  <2>3. Blocks' = Blocks \cup {at}
    BY <1>2, <1>3, <1>5, <2>2 DEF Blocks
  <2>4. block_state' = IF \E j \in Blocks' : stream'[j].coded THEN "used" ELSE Hist'.state
    <3>1. block_state = IF \E j \in Blocks : stream[j].coded THEN "used" ELSE Hist.state
      BY <1>7 DEF Coder
    <3>2. (\E j \in Blocks' : stream'[j].coded) <=>
            u.coded \/ \E j \in Blocks : stream[j].coded
      BY <1>4, <2>3
    <3>3. CASE u.coded
      BY <2>1, <3>2, <3>3
    <3>4. CASE ~u.coded
      BY <2>1, <2>2, <3>1, <3>2, <3>4
    <3> QED BY <3>3, <3>4
  <2>5. xxh' = IF agree \/ \A j \in Blocks' : ~Reaches(stream[j]) THEN u.to ELSE Garbled
    <3>1. xxh = IF agree \/ \A j \in Blocks : ~Reaches(stream[j]) THEN u.from ELSE Garbled
      BY <1>5, <1>7 DEF Coder
    <3>2. xxh = u.from <=> agree \/ \A j \in Blocks : ~Reaches(stream[j])
      BY <1>6, <3>1 DEF Garbled
    <3>3. WrongHistory(u) <=> Reaches(u) /\ ~agree
      <4>1. prefix = Hist.len
        BY <1>7 DEF Coder
      <4>2. CASE u.match = None
        BY <4>2 DEF WrongHistory, Reaches
      <4>3. CASE u.match # None
        BY <1>9, <4>1, <4>3 DEF WrongHistory
      <4> QED BY <4>2, <4>3
    <3>4. (\A j \in Blocks' : ~Reaches(stream[j])) <=>
            ~Reaches(u) /\ \A j \in Blocks : ~Reaches(stream[j])
      BY <2>3
    <3>5. xxh' = IF ~WrongHistory(u) /\ xxh = u.from THEN u.to ELSE Garbled
      BY <1>3, <1>10
    <3>6. (~WrongHistory(u) /\ xxh = u.from) <=>
            (agree \/ \A j \in Blocks' : ~Reaches(stream[j]))
      BY <3>2, <3>3, <3>4
    <3> HIDE DEF agree
    <3> QED BY <3>5, <3>6
  <2>6. frame_out' = u.to
    BY <1>3, <1>5, <1>6
  <2>7. xxh' = IF Hist'.len = header'.ext \/ \A j \in Blocks' : ~Reaches(stream'[j])
               THEN frame_out' ELSE Garbled
    BY <1>4, <2>1, <2>2, <2>5, <2>6
  <2>8. Len(loaded') > 0 /\ prefix' = Hist'.len
    BY <1>4, <1>7, <2>2 DEF Coder
  <2> QED BY <2>4, <2>7, <2>8 DEF Coder
<1>15. Len(loaded) > 0
  BY <1>7 DEF Coder
<1>16. ~broken' /\ loaded' = loaded /\ stream[at].kind # "header"
  BY <1>2, <1>4 DEF Verdict
<1> HIDE DEF right
<1> QED BY <1>1, <1>2, <1>3, <1>4, <1>12, <1>13, <1>14, <1>15, <1>16, NextVerdict

LEMMA ChecksumRefusedVerdict ==
  ASSUME IInv, Verdict, ChecksumRefused
  PROVE  Verdict'
<1> DEFINE u == stream[at]
<1>1. TypeOK /\ Place
  BY DEF IInv
<1>2. at \in 1 .. Len(stream) /\ u.kind = "checksum" /\ u \in Unit
  <2>1. Parsing("checksum") /\ in_off' = in_off + stream[at].len
    BY DEF ChecksumRefused, Broken
  <2> QED BY <2>1, CursorMoves
<1>3. u.of \in Nat
  BY <1>2, UnitFields
<1>4. Coder
  BY <1>2, ChecksumVerdict
<1>5. xxh = IF Hist.len = header.ext \/ \A j \in Blocks : ~Reaches(stream[j])
            THEN frame_out ELSE Garbled
  BY <1>4 DEF Coder
<1>6. \/ xxh # u.of
      \/ header.size # None /\ header.size # frame_out
  BY Zenon DEF ChecksumRefused, ChecksumFault
<1>7. ~AcceptsAt(at)
  <2> SUFFICES ASSUME u.of = frame_out, header.size \in {None, u.of},
                      Hist.len = header.ext \/ \A j \in Blocks : ~Reaches(stream[j])
               PROVE  FALSE
    BY <1>2, ChecksumVerdict
  <2>1. xxh = u.of
    BY <1>5
  <2> QED BY <1>6, <2>1
<1> QED BY <1>7, BrokenVerdict DEF ChecksumRefused

LEMMA VerifyChecksumVerdict ==
  ASSUME IInv, Verdict, VerifyChecksum
  PROVE  Verdict'
<1> USE DEF frame, config, call
<1> DEFINE u == stream[at]
<1>1. TypeOK /\ Place
  BY DEF IInv
<1>2. at \in 1 .. Len(stream) /\ u.kind = "checksum" /\ u \in Unit
  BY CursorMoves DEF VerifyChecksum, Consume
<1>3. /\ header' = None /\ at' = at + 1
      /\ UNCHANGED <<loaded, stream, broken>> /\ pc = "run"
  BY DEF VerifyChecksum, Consume, FinishFrame, Parsing
<1>4. u.of \in Nat
  BY <1>2, UnitFields
<1>5. Coder
  BY <1>2, ChecksumVerdict
<1>6. xxh = IF Hist.len = header.ext \/ \A j \in Blocks : ~Reaches(stream[j])
            THEN frame_out ELSE Garbled
  BY <1>5 DEF Coder
<1>7. xxh = u.of /\ ~(header.size # None /\ header.size # frame_out)
  BY ChecksumFaultNone DEF VerifyChecksum
<1>8. xxh # Garbled
  BY <1>4, <1>7 DEF Garbled
<1>9. AcceptsAt(at)
  BY <1>2, <1>6, <1>7, <1>8, ChecksumVerdict
<1>10. PICK n : n = at
  OBVIOUS
<1>11. AcceptsAt(n)'
  <2>1. AcceptsAt(n)
    BY <1>9, <1>10
  <2> QED BY <1>3, <2>1 DEF AcceptsAt
<1>12. ~broken' /\ loaded' = loaded /\ Len(loaded) > 0
  BY <1>3, <1>5 DEF Verdict, Coder
<1> QED BY <1>1, <1>2, <1>3, <1>10, <1>11, <1>12, NextVerdict

LEMMA InitVerdict == Init => Verdict
<1> SUFFICES ASSUME Init PROVE Verdict
  OBVIOUS
<1>1. at = 1 /\ loaded = <<>> /\ header = None /\ broken = FALSE
  BY DEF Init
<1>2. Len(loaded) = 0 /\ at - 1 = 0
  BY <1>1
<1>3. FrameNo(stream, 0) = 0
  BY FrameNoNext
<1>4. \A i \in 1 .. at - 1 : FALSE
  BY <1>2
<1> QED BY <1>1, <1>2, <1>3, <1>4 DEF Verdict

LEMMA NextVerdictHolds == IInv /\ Verdict /\ [Next]_vars => Verdict'
<1> SUFFICES ASSUME IInv, Verdict, [Next]_vars PROVE Verdict'
  OBVIOUS
<1> USE DEF inbuf, outbuf, frame, config, call
<1>0. TypeOK
  BY DEF IInv
<1>1. CASE \E n \in FeedLens, cap \in OutCaps, end \in BOOLEAN : Call(n, cap, end)
  <2>1. /\ UNCHANGED <<stream, at, loaded, header, broken, block_state, xxh, frame_out>>
        /\ prefix' = prefix /\ ~broken
    BY <1>1 DEF Call
  <2> QED BY <1>0, <2>1, SameVerdict
<1>2. CASE SkipFrame
  BY <1>2, SkipFrameVerdict
<1>3. ASSUME NEW e, Refused(e) PROVE Verdict'
  <2>1. /\ UNCHANGED <<stream, at, loaded, header, broken, block_state, xxh, frame_out>>
        /\ prefix' = prefix /\ pc' = "idle"
    BY <1>3 DEF Refused
  <2> QED BY <1>0, <2>1, SameVerdict
<1>4. CASE Junk \/ HeaderRefused
  BY <1>3, <1>4 DEF Junk, HeaderRefused
<1>5. CASE OpenFrame
  BY <1>5, OpenFrameVerdict
<1>6. CASE BlockRefused
  <2>1. Parsing("block") /\ BlockFault(stream[at]) # "none"
        /\ Broken(BlockFault(stream[at]))
    BY <1>6 DEF BlockRefused
  <2>2. at <= Len(stream) /\ stream[at].kind = "block"
    BY <2>1 DEF Parsing, Arrived
  <2> QED BY <2>1, <2>2, BlockRefusedRightly, BrokenVerdict
<1>7. CASE DecodeBlock
  BY <1>7, DecodeBlockVerdict
<1>8. CASE ChecksumRefused
  BY <1>8, ChecksumRefusedVerdict
<1>9. CASE VerifyChecksum
  BY <1>9, VerifyChecksumVerdict
<1>10. CASE Return
  <2>1. /\ UNCHANGED <<stream, at, loaded, header, broken, block_state, xxh, frame_out>>
        /\ prefix' = prefix /\ pc' = "idle"
    BY <1>10 DEF Return
  <2> QED BY <1>0, <2>1, SameVerdict
<1>11. CASE \/ \E d \in Dictionary : SetDictionary(d)
            \/ \E n \in PrefixLens : SetPrefix(n)
  <2>1. /\ UNCHANGED <<stream, at, loaded, header, broken, block_state, xxh, frame_out>>
        /\ header = None /\ ~broken
    BY <1>11 DEF SetDictionary, SetPrefix
  <2> QED BY <1>0, <2>1, SameVerdict
<1>12. CASE UNCHANGED vars
  <2>1. /\ UNCHANGED <<stream, at, loaded, header, broken, block_state, xxh, frame_out>>
        /\ prefix' = prefix /\ pc' = pc
    BY <1>12 DEF vars
  <2>2. broken => pc' = "idle"
    BY <2>1 DEF Verdict
  <2> QED BY <1>0, <2>1, <2>2, SameVerdict
<1> QED BY <1>1, <1>2, <1>4, <1>5, <1>6, <1>7, <1>8, <1>9, <1>10, <1>11, <1>12
        DEF Next, Running

\* However input and output are cut and the buffers compacted, the streaming
\* decoder takes the units a decoder with everything takes, and stops for good
\* only at the first one that decoder rejects, or at a match into the history
\* from beyond the window.
THEOREM AcceptsLikeOneShotHolds == Spec => []AcceptsLikeOneShot
<1>1. IInv /\ Verdict => AcceptsLikeOneShot
  BY DEF Verdict, AcceptsLikeOneShot
<1> QED BY <1>1, InitVerdict, NextVerdictHolds, Invariant, PTL DEF Spec

-----------------------------------------------------------------------------
(* Sums over a stream.  Bytes and Content are recursive functions of the   *)
(* number of units; what they are for every stream is shown by induction   *)
(* over sets of naturals.                                                  *)

\* Induction over the naturals, for a set.
LEMMA NatSet ==
  ASSUME NEW S \in SUBSET Nat, 0 \in S, \A n \in S : n + 1 \in S
  PROVE  S = Nat
<1> DEFINE T == Nat \ S
<1>1. SUFFICES ASSUME T # {} PROVE FALSE
  OBVIOUS
<1>2. \E R : IsWellFoundedOn(R, Nat) /\ \A x, y \in Nat : <<y, x>> \in R <=> y < x
  <2> DEFINE R == OpToRel(<, Nat)
  <2>1. IsWellFoundedOn(R, Nat)
    BY NatLessThanWellFounded
  <2>2. \A x, y \in Nat : <<y, x>> \in R <=> y < x
    BY DEF OpToRel
  <2> HIDE DEF R
  <2> QED BY <2>1, <2>2, Zenon
<1>3. PICK R : IsWellFoundedOn(R, Nat) /\ \A x, y \in Nat : <<y, x>> \in R <=> y < x
  BY <1>2, Zenon
<1>4. PICK x \in T : \A y \in T : ~(<<y, x>> \in R)
  BY <1>1, <1>3, WFMin, Zenon
<1>5. x \in Nat \ {0}
  OBVIOUS
<1>6. x - 1 \in Nat /\ x - 1 < x /\ (x - 1) + 1 = x
  BY <1>5
<1>7. <<x - 1, x>> \in R
  BY <1>3, <1>5, <1>6
<1>8. x - 1 \in S
  BY <1>4, <1>6, <1>7
<1> QED BY <1>6, <1>8

\* f[i] is the sum of the first i of n weights.
IsSum(f, n, weight) ==
  /\ f \in [0 .. n -> Nat] /\ f[0] = 0
  /\ \A i \in 1 .. n : f[i] = f[i - 1] + weight[i]

LEMMA SumExists ==
  ASSUME NEW n \in Nat, NEW weight, \A i \in 1 .. n : weight[i] \in Nat
  PROVE  \E f : IsSum(f, n, weight)
<1> DEFINE S == {k \in Nat : k <= n => \E f : IsSum(f, k, weight)}
<1>1. 0 \in S
  <2>1. IsSum([i \in 0 .. 0 |-> 0], 0, weight)
    BY DEF IsSum
  <2> QED BY <2>1
<1>2. ASSUME NEW k \in S PROVE k + 1 \in S
  <2>1. SUFFICES ASSUME k + 1 <= n PROVE \E f : IsSum(f, k + 1, weight)
    OBVIOUS
  <2>2. PICK f : IsSum(f, k, weight)
    BY <2>1
  <2>3. f \in [0 .. k -> Nat] /\ f[0] = 0 /\ (\A i \in 1 .. k : f[i] = f[i - 1] + weight[i])
    BY <2>2 DEF IsSum
  <2> DEFINE g == [i \in 0 .. (k + 1) |-> IF i = k + 1 THEN f[k] + weight[k + 1] ELSE f[i]]
  <2>4. \A i \in 0 .. k : g[i] = f[i] /\ g[i] \in Nat
    BY <2>3
  <2>5. g[k + 1] = f[k] + weight[k + 1] /\ g[k + 1] \in Nat
    BY <2>1, <2>3
  <2>6. g \in [0 .. (k + 1) -> Nat]
    BY <2>4, <2>5
  <2> HIDE DEF g
  <2>7. ASSUME NEW i \in 1 .. (k + 1) PROVE g[i] = g[i - 1] + weight[i]
    <3>1. CASE i = k + 1
      BY <2>4, <2>5, <3>1
    <3>2. CASE i \in 1 .. k
      <4>1. i \in 0 .. k /\ i - 1 \in 0 .. k
        BY <3>2
      <4> QED BY <2>3, <2>4, <3>2, <4>1
    <3> QED BY <3>1, <3>2
  <2>8. g[0] = 0
    BY <2>3, <2>4
  <2> QED BY <2>6, <2>7, <2>8 DEF IsSum
<1> HIDE DEF S
<1>3. S = Nat
  <2>1. S \in SUBSET Nat
    BY DEF S
  <2> QED BY <1>1, <1>2, <2>1, NatSet
<1> QED BY <1>3 DEF S

\* Two sums of the same weights agree, the second beginning m weights on.
LEMMA SumsAgree ==
  ASSUME NEW n \in Nat, NEW f, NEW g, NEW v, NEW w,
         IsSum(f, n + 1, v), IsSum(g, n, w), v[1] \in Nat,
         \A i \in 1 .. n : w[i] \in Nat /\ v[i + 1] = w[i]
  PROVE  f[n + 1] = v[1] + g[n]
<1>1. /\ f \in [0 .. (n + 1) -> Nat] /\ f[0] = 0
      /\ \A i \in 1 .. (n + 1) : f[i] = f[i - 1] + v[i]
      /\ g \in [0 .. n -> Nat] /\ g[0] = 0
      /\ \A i \in 1 .. n : g[i] = g[i - 1] + w[i]
  BY DEF IsSum
<1> DEFINE S == {k \in Nat : k <= n => f[k + 1] = v[1] + g[k]}
<1>2. 0 \in S
  <2>1. 1 \in 1 .. (n + 1)
    OBVIOUS
  <2>2. f[1] = f[0] + v[1]
    BY <1>1, <2>1
  <2> QED BY <1>1, <2>2
<1>3. ASSUME NEW k \in S PROVE k + 1 \in S
  <2>1. SUFFICES ASSUME k + 1 <= n PROVE f[(k + 1) + 1] = v[1] + g[k + 1]
    OBVIOUS
  <2>2. k + 1 \in 1 .. n /\ (k + 1) + 1 \in 1 .. (n + 1) /\ k \in 0 .. n /\ k + 1 \in 0 .. (n + 1)
    BY <2>1
  <2>3. f[k + 1] = v[1] + g[k]
    BY <2>1
  <2>4. f[(k + 1) + 1] = f[k + 1] + v[(k + 1) + 1]
    <3>1. ((k + 1) + 1) - 1 = k + 1
      OBVIOUS
    <3> QED BY <1>1, <2>2, <3>1
  <2>5. g[k + 1] = g[k] + w[k + 1] /\ v[(k + 1) + 1] = w[k + 1]
    <3>1. (k + 1) - 1 = k
      OBVIOUS
    <3> QED BY <1>1, <2>2, <3>1
  <2>6. g[k] \in Nat /\ g[k + 1] \in Nat
    BY <1>1, <2>2
  <2>7. PICK x \in Nat : x = w[k + 1]
    BY <2>2
  <2>8. f[(k + 1) + 1] \in Nat /\ f[k + 1] \in Nat
    BY <1>1, <2>2
  <2> QED BY <2>3, <2>4, <2>5, <2>6, <2>7, <2>8
<1> HIDE DEF S
<1>4. S = Nat
  <2>1. S \in SUBSET Nat
    BY DEF S
  <2> QED BY <1>2, <1>3, <2>1, NatSet
<1> QED BY <1>4 DEF S

LEMMA SumTyped ==
  ASSUME NEW n \in Nat, NEW weight, \A i \in 1 .. n : weight[i] \in Nat,
         NEW f, f = [i \in 0 .. n |-> f[i]], f[0] = 0,
         \A i \in 1 .. n : f[i] = f[i - 1] + weight[i]
  PROVE  IsSum(f, n, weight)
<1> DEFINE S == {k \in Nat : k <= n => f[k] \in Nat}
<1>1. 0 \in S
  OBVIOUS
<1>2. ASSUME NEW k \in S PROVE k + 1 \in S
  <2>1. SUFFICES ASSUME k + 1 <= n PROVE f[k + 1] \in Nat
    OBVIOUS
  <2>2. k \in Nat /\ k + 1 \in 1 .. n /\ f[k] \in Nat /\ (k + 1) - 1 = k
    BY <2>1
  <2>3. f[k + 1] = f[k] + weight[k + 1] /\ weight[k + 1] \in Nat
    BY <2>2
  <2> QED BY <2>2, <2>3
<1> HIDE DEF S
<1>3. S = Nat
  <2>1. S \in SUBSET Nat
    BY DEF S
  <2> QED BY <1>1, <1>2, <2>1, NatSet
<1>4. \A i \in 0 .. n : f[i] \in Nat
  BY <1>3 DEF S
<1>5. f \in [0 .. n -> Nat]
  BY <1>4
<1> QED BY <1>5 DEF IsSum

\* What each unit adds to Bytes, and to Content.
Lens(s) == [i \in 1 .. Len(s) |-> s[i].len]
Closing(u) == IF u.kind = "block" /\ u.last THEN u.to ELSE 0
Closings(s) == [i \in 1 .. Len(s) |-> Closing(s[i])]

LEMMA Weights ==
  ASSUME NEW s \in Seq(Unit)
  PROVE  /\ Len(s) \in Nat
         /\ \A i \in 1 .. Len(s) :
              /\ Lens(s)[i] = s[i].len /\ s[i].len \in Nat \ {0}
              /\ Closings(s)[i] = Closing(s[i]) /\ Closing(s[i]) \in Nat
<1>1. Len(s) \in Nat /\ \A i \in 1 .. Len(s) : s[i] \in Unit
  OBVIOUS
<1>2. ASSUME NEW i \in 1 .. Len(s) PROVE s[i].len \in Nat \ {0} /\ Closing(s[i]) \in Nat
  <2>1. s[i] \in Unit
    BY <1>1
  <2> QED BY <2>1, UnitFields DEF Closing
<1> QED BY <1>1, <1>2 DEF Lens, Closings

LEMMA BytesIs ==
  ASSUME NEW s \in Seq(Unit)
  PROVE  \E f : IsSum(f, Len(s), Lens(s)) /\ Bytes(s) = f[Len(s)]
<1> DEFINE Eq(f) == f = [i \in 0 .. Len(s) |-> IF i = 0 THEN 0 ELSE f[i-1] + s[i].len]
<1>1. Bytes(s) = (CHOOSE f : Eq(f))[Len(s)]
  BY DEF Bytes
<1>2. \A f : Eq(f) => \A i \in 1 .. Len(s) : f[0] = 0 /\ f[i] = f[i - 1] + s[i].len
  BY Weights
<1>3. PICK g : IsSum(g, Len(s), Lens(s))
  BY Weights, SumExists
<1>4. Eq(g)
  <2>1. /\ g \in [0 .. Len(s) -> Nat] /\ g[0] = 0
        /\ \A i \in 1 .. Len(s) : g[i] = g[i - 1] + s[i].len
    BY <1>3, Weights DEF IsSum
  <2>2. \A i \in 0 .. Len(s) : i = 0 \/ i \in 1 .. Len(s)
    BY Weights
  <2>3. \A i \in 0 .. Len(s) : g[i] = IF i = 0 THEN 0 ELSE g[i-1] + s[i].len
    BY <2>1, <2>2
  <2>4. g = [i \in 0 .. Len(s) |-> g[i]]
    BY <2>1
  <2> QED BY <2>3, <2>4
<1> DEFINE h == CHOOSE f : Eq(f)
<1>5. Eq(h)
  BY <1>4, Zenon
<1>6. DOMAIN h = 0 .. Len(s) /\ h[0] = 0 /\ \A i \in 1 .. Len(s) : h[i] = h[i - 1] + s[i].len
  <2> HIDE DEF h
  <2> QED BY <1>2, <1>5, Weights
<1>7. h = [i \in 0 .. Len(s) |-> h[i]]
  <2> HIDE DEF h
  <2> QED BY <1>5
<1> HIDE DEF h
<1>8. \A i \in 1 .. Len(s) : h[i] = h[i - 1] + Lens(s)[i]
  BY <1>6, Weights
<1>9. IsSum(h, Len(s), Lens(s))
  BY <1>6, <1>7, <1>8, Weights, SumTyped
<1> QED BY <1>1, <1>9 DEF h

LEMMA ContentIs ==
  ASSUME NEW s \in Seq(Unit)
  PROVE  \E f : IsSum(f, Len(s), Closings(s)) /\ Content(s) = f[Len(s)]
<1> DEFINE Eq(f) ==
      f = [i \in 0 .. Len(s) |->
             IF i = 0 THEN 0
             ELSE f[i-1] + IF s[i].kind = "block" /\ s[i].last THEN s[i].to ELSE 0]
<1>1. Content(s) = (CHOOSE f : Eq(f))[Len(s)]
  BY DEF Content
<1>2. PICK g : IsSum(g, Len(s), Closings(s))
  BY Weights, SumExists
<1>3. Eq(g)
  <2>1. /\ g \in [0 .. Len(s) -> Nat] /\ g[0] = 0
        /\ \A i \in 1 .. Len(s) : g[i] = g[i - 1] + Closing(s[i])
    BY <1>2, Weights DEF IsSum
  <2>2. \A i \in 0 .. Len(s) : i = 0 \/ i \in 1 .. Len(s)
    BY Weights
  <2>3. \A i \in 0 .. Len(s) :
          g[i] = IF i = 0 THEN 0
                 ELSE g[i-1] + IF s[i].kind = "block" /\ s[i].last THEN s[i].to ELSE 0
    BY <2>1, <2>2 DEF Closing
  <2>4. g = [i \in 0 .. Len(s) |-> g[i]]
    BY <2>1
  <2> QED BY <2>3, <2>4
<1> DEFINE h == CHOOSE f : Eq(f)
<1>4. Eq(h)
  BY <1>3, Zenon
<1>5. DOMAIN h = 0 .. Len(s) /\ h[0] = 0 /\ \A i \in 1 .. Len(s) : h[i] = h[i - 1] + Closing(s[i])
  <2> HIDE DEF h
  <2> QED BY <1>4, Weights DEF Closing
<1>6. h = [i \in 0 .. Len(s) |-> h[i]]
  <2> HIDE DEF h
  <2> QED BY <1>4
<1> HIDE DEF h
<1>7. \A i \in 1 .. Len(s) : h[i] = h[i - 1] + Closings(s)[i]
  BY <1>5, Weights
<1>8. IsSum(h, Len(s), Closings(s))
  BY <1>5, <1>6, <1>7, Weights, SumTyped
<1> QED BY <1>1, <1>8 DEF h

\* The bytes from a unit on are that unit's and those behind it.
LEMMA BytesCut ==
  ASSUME NEW s \in Seq(Unit), NEW i \in 1 .. Len(s)
  PROVE  /\ Bytes(SubSeq(s, i + 1, Len(s))) \in Nat
         /\ Bytes(SubSeq(s, i, Len(s))) = s[i].len + Bytes(SubSeq(s, i + 1, Len(s)))
<1> DEFINE t == SubSeq(s, i, Len(s))
           u == SubSeq(s, i + 1, Len(s))
           n == Len(s) - i
<1>1. Len(s) \in Nat /\ i \in Nat /\ n \in Nat /\ (\A k \in 1 .. Len(s) : s[k] \in Unit)
  <2>1. Len(s) \in Nat /\ \A k \in 1 .. Len(s) : s[k] \in Unit
    OBVIOUS
  <2> QED BY <2>1
<1>2. t \in Seq(Unit) /\ Len(t) = n + 1 /\ \A k \in 1 .. (n + 1) : t[k] = s[i + k - 1]
  <2>1. \A k \in i .. Len(s) : s[k] \in Unit
    BY <1>1
  <2>2. /\ t \in Seq(Unit) /\ Len(t) = IF i <= Len(s) THEN Len(s) - i + 1 ELSE 0
        /\ \A k \in 1 .. Len(s) - i + 1 : t[k] = s[i + k - 1]
    BY <1>1, <2>1, SubSeqProperties
  <2> QED BY <1>1, <2>2
<1>3. u \in Seq(Unit) /\ Len(u) = n /\ \A k \in 1 .. n : u[k] = s[(i + 1) + k - 1]
  <2>1. \A k \in i + 1 .. Len(s) : s[k] \in Unit
    BY <1>1
  <2>2. /\ u \in Seq(Unit) /\ Len(u) = IF i + 1 <= Len(s) THEN Len(s) - (i + 1) + 1 ELSE 0
        /\ \A k \in 1 .. Len(s) - (i + 1) + 1 : u[k] = s[(i + 1) + k - 1]
    BY <1>1, <2>1, SubSeqProperties
  <2> QED BY <1>1, <2>2
<1> HIDE DEF t, u, n
<1>4. PICK f : IsSum(f, n + 1, Lens(t)) /\ Bytes(t) = f[n + 1]
  BY <1>2, BytesIs
<1>5. PICK g : IsSum(g, n, Lens(u)) /\ Bytes(u) = g[n]
  BY <1>3, BytesIs
<1>6. Lens(t)[1] = s[i].len /\ Lens(t)[1] \in Nat
  <2>1. 1 \in 1 .. Len(t) /\ i + 1 - 1 = i
    BY <1>1, <1>2
  <2>2. Lens(t)[1] = t[1].len /\ t[1].len \in Nat
    BY <1>2, <2>1, Weights
  <2> QED BY <1>1, <1>2, <2>1, <2>2
<1>7. \A k \in 1 .. n : Lens(u)[k] \in Nat /\ Lens(t)[k + 1] = Lens(u)[k]
  <2> SUFFICES ASSUME NEW k \in 1 .. n PROVE Lens(u)[k] \in Nat /\ Lens(t)[k + 1] = Lens(u)[k]
    OBVIOUS
  <2>1. k + 1 \in 1 .. n + 1 /\ i + (k + 1) - 1 = (i + 1) + k - 1
    BY <1>1
  <2>2. t[k + 1] = u[k]
    BY <1>2, <1>3, <2>1
  <2>3. k \in 1 .. Len(u) /\ k + 1 \in 1 .. Len(t)
    BY <1>2, <1>3, <2>1
  <2>4. Lens(u)[k] = u[k].len /\ u[k].len \in Nat
    BY <1>3, <2>3, Weights
  <2>5. Lens(t)[k + 1] = t[k + 1].len
    BY <1>2, <2>3, Weights
  <2> QED BY <2>2, <2>4, <2>5
<1>8. f[n + 1] = Lens(t)[1] + g[n]
  BY <1>1, <1>4, <1>5, <1>6, <1>7, SumsAgree
<1>9. g[n] \in Nat
  BY <1>1, <1>5 DEF IsSum
<1> QED BY <1>4, <1>5, <1>6, <1>8, <1>9 DEF t, u

LEMMA NoBytes ==
  ASSUME NEW s \in Seq(Unit)
  PROVE  Bytes(SubSeq(s, Len(s) + 1, Len(s))) = 0
<1>1. SubSeq(s, Len(s) + 1, Len(s)) = <<>>
  BY Weights, SubSeqEmpty
<1>2. <<>> \in Seq(Unit) /\ Len(<<>>) = 0
  OBVIOUS
<1>3. PICK f : IsSum(f, 0, Lens(<<>>)) /\ Bytes(<<>>) = f[0]
  BY <1>2, BytesIs
<1> QED BY <1>1, <1>3 DEF IsSum

-----------------------------------------------------------------------------
(* The end of the stream.  PlaceKept says how many bytes are to come of    *)
(* the units that are left, which is none exactly when no unit is left;    *)
(* Told says what the decoder knows when it reports an end.                *)

\* The content of the frames that end in the first units of a stream.
ContentTo(s) == CHOOSE f : IsSum(f, Len(s), Closings(s)) /\ Content(s) = f[Len(s)]

\* What is decoded of a frame some of whose blocks are to come.
Partial == IF header # None /\ ~in_checksum THEN frame_out ELSE 0

Told ==
  /\ pc = "run" => report = "none" /\ ~broken
  /\ eof => unfed = 0
  /\ header # None => saw_zstd
  /\ saw_zstd => \E i \in 1 .. at - 1 : stream[i].kind = "header"
  /\ ~saw_zstd => \A i \in 1 .. at - 1 : stream[i].kind = "skip"
  /\ drained + decoded_len = ContentTo(stream)[at - 1] + Partial

EInv == Told /\ PlaceKept /\ TrueEnd

LEMMA ContentToIs ==
  ASSUME NEW s \in Seq(Unit)
  PROVE  IsSum(ContentTo(s), Len(s), Closings(s)) /\ Content(s) = ContentTo(s)[Len(s)]
  BY ContentIs, Zenon DEF ContentTo

LEMMA ContentToNext ==
  ASSUME NEW s \in Seq(Unit), NEW i \in 1 .. Len(s)
  PROVE  /\ ContentTo(s)[i - 1] \in Nat /\ Closing(s[i]) \in Nat
         /\ ContentTo(s)[i] = ContentTo(s)[i - 1] + Closing(s[i])
<1>1. Len(s) \in Nat /\ Closings(s)[i] = Closing(s[i]) /\ Closing(s[i]) \in Nat
  BY Weights
<1>2. i - 1 \in 0 .. Len(s)
  BY <1>1
<1>3. /\ ContentTo(s) \in [0 .. Len(s) -> Nat]
      /\ \A k \in 1 .. Len(s) : ContentTo(s)[k] = ContentTo(s)[k - 1] + Closings(s)[k]
  BY ContentToIs DEF IsSum
<1> QED BY <1>1, <1>2, <1>3

LEMMA PartialIs == TypeOK => Partial \in Nat
  BY DEF TypeOK, Partial

LEMMA InitEInv == Init => EInv
<1> SUFFICES ASSUME Init PROVE EInv
  OBVIOUS
<1>1. stream \in Seq(Unit) /\ at = 1 /\ header = None /\ ~broken /\ ~saw_zstd /\ ~eof
      /\ pc = "idle" /\ report = "none" /\ unfed = Bytes(stream) /\ Bytes(stream) \in Nat
  BY ConstantsOK DEF Init
<1>2. Partial = 0 /\ Avail = 0 /\ drained + decoded_len = 0 /\ at - 1 = 0
  BY DEF Init, Partial, Avail
<1>3. ContentTo(stream)[0] = 0
  BY <1>1, ContentToIs DEF IsSum
<1>4. Told
  BY <1>1, <1>2, <1>3 DEF Told
<1>5. PlaceKept
  <2>1. SubSeq(stream, at, Len(stream)) = stream
    BY <1>1, SubSeqFull
  <2>2. Avail + unfed = Bytes(stream)
    BY <1>1, <1>2
  <2> QED BY <2>1, <2>2 DEF PlaceKept
<1>6. TrueEnd
  BY <1>1 DEF TrueEnd
<1> QED BY <1>4, <1>5, <1>6 DEF EInv

\* A unit is parsed.
LEMMA ParsedEInv ==
  ASSUME IInv, EInv, NEW kind, Parsing(kind), Consume,
         UNCHANGED <<in_len, unfed, stream, broken, call, drained>>,
         NEW grow \in Nat, decoded_len' = decoded_len + grow,
         Partial' \in Nat, Partial + grow = Closing(stream[at]) + Partial',
         saw_zstd' = (saw_zstd \/ kind = "header"),
         saw_zstd \/ kind \in {"skip", "header"},
         header' # None => saw_zstd'
  PROVE  EInv'
<1> USE DEF call
<1>1. TypeOK /\ Told /\ PlaceKept /\ pc = "run"
  BY DEF IInv, EInv, Parsing
<1>2. stream \in Seq(Unit) /\ at' = at + 1 /\ at \in 1 .. Len(stream) /\ stream[at].kind = kind
      /\ at + 1 > 1 /\ at + 1 \in Nat /\ (at + 1) - 1 = at
  BY <1>1, CursorMoves, ConstantsOK DEF Consume, TypeOK
<1>3. report = "none" /\ ~broken
  BY <1>1 DEF Told
<1>4. PlaceKept'
  <2>1. /\ Bytes(SubSeq(stream, at + 1, Len(stream))) \in Nat
        /\ Bytes(SubSeq(stream, at, Len(stream)))
             = stream[at].len + Bytes(SubSeq(stream, at + 1, Len(stream)))
    BY <1>2, BytesCut
  <2>2. PICK rest \in Nat : rest = Bytes(SubSeq(stream, at + 1, Len(stream)))
    BY <2>1
  <2>3. PICK len \in Nat : len = stream[at].len
    BY <1>2, Weights
  <2>4. in_len - in_off + unfed = len + rest
    BY <1>1, <1>3, <2>1, <2>2, <2>3 DEF PlaceKept, Avail
  <2>5. in_len' = in_len /\ in_off' = in_off + len /\ unfed' = unfed
        /\ in_len \in Int /\ in_off \in Int /\ unfed \in Int
    BY <1>1, <2>3 DEF Consume, TypeOK
  <2>6. Avail' + unfed' = rest
    BY <2>4, <2>5 DEF Avail
  <2>7. rest = Bytes(SubSeq(stream, at, Len(stream)))'
    BY <1>2, <2>2
  <2> QED BY <2>6, <2>7 DEF PlaceKept
<1>5. TrueEnd'
  BY <1>3 DEF TrueEnd
<1>6. drained' + decoded_len' = ContentTo(stream')[at' - 1] + Partial'
  <2>1. /\ ContentTo(stream)[at - 1] \in Nat /\ Closing(stream[at]) \in Nat
        /\ ContentTo(stream)[at] = ContentTo(stream)[at - 1] + Closing(stream[at])
    BY <1>2, ContentToNext
  <2>2. drained + decoded_len = ContentTo(stream)[at - 1] + Partial
    BY <1>1 DEF Told
  <2>3. Partial \in Nat /\ drained \in Nat /\ decoded_len \in Nat
    BY <1>1, PartialIs DEF TypeOK
  <2>4. PICK after \in Nat : after = Partial'
    OBVIOUS
  <2>5. drained + (decoded_len + grow) = ContentTo(stream)[at] + after
    BY <2>1, <2>2, <2>3, <2>4
  <2> QED BY <1>2, <2>4, <2>5
<1>7. saw_zstd' => \E i \in 1 .. at' - 1 : stream'[i].kind = "header"
  <2>1. CASE kind = "header"
    BY <1>2, <2>1
  <2>2. CASE saw_zstd
    <3>1. PICK i \in 1 .. at - 1 : stream[i].kind = "header"
      BY <1>1, <2>2 DEF Told
    <3>2. i \in 1 .. at
      BY <1>2, <3>1
    <3> QED BY <1>2, <3>1, <3>2
  <2> QED BY <2>1, <2>2
<1>8. ~saw_zstd' => \A i \in 1 .. at' - 1 : stream'[i].kind = "skip"
  <2>1. SUFFICES ASSUME ~saw_zstd, kind = "skip", NEW i \in 1 .. at PROVE stream[i].kind = "skip"
    BY <1>2
  <2>2. i = at \/ i \in 1 .. at - 1
    BY <1>2
  <2> QED BY <1>1, <1>2, <2>1, <2>2 DEF Told
<1>9. (eof => unfed = 0)'
  BY <1>1 DEF Told
<1>10. Told'
  BY <1>3, <1>6, <1>7, <1>8, <1>9 DEF Told
<1> QED BY <1>4, <1>5, <1>10 DEF EInv

LEMMA SkipFrameEInv ==
  ASSUME IInv, EInv, SkipFrame
  PROVE  EInv'
<1> USE DEF outbuf, frame
<1>1. /\ Parsing("skip") /\ Consume
      /\ UNCHANGED <<in_len, unfed, stream, broken, call, drained, saw_zstd, header,
                     decoded_len, in_checksum, frame_out>>
  BY DEF SkipFrame
<1>2. TypeOK /\ Told /\ stream[at].kind = "skip"
  BY <1>1 DEF IInv, EInv, Parsing
<1>3. Partial' = Partial /\ Partial \in Nat
  BY <1>1, <1>2, PartialIs DEF Partial
<1>4. Closing(stream[at]) = 0
  BY <1>2 DEF Closing
<1>5. decoded_len' = decoded_len + 0 /\ Partial + 0 = Closing(stream[at]) + Partial'
  BY <1>1, <1>2, <1>3, <1>4 DEF TypeOK
<1>6. saw_zstd' = (saw_zstd \/ "skip" = "header") /\ (header' # None => saw_zstd')
  BY <1>1, <1>2 DEF Told, TypeOK
<1> QED BY <1>1, <1>3, <1>5, <1>6, ParsedEInv

LEMMA OpenFrameEInv ==
  ASSUME IInv, EInv, OpenFrame
  PROVE  EInv'
<1> USE DEF outbuf, frame
<1>1. /\ Parsing("header") /\ Consume /\ frame_out' = 0 /\ saw_zstd'
      /\ saw_zstd' = TRUE
      /\ UNCHANGED <<in_len, unfed, stream, broken, call, drained, decoded_len, in_checksum>>
  BY DEF OpenFrame
<1>2. TypeOK /\ Place /\ stream[at].kind = "header" /\ at <= Len(stream)
  BY <1>1 DEF IInv, Parsing, Arrived
<1>3. header = None
  BY <1>2, AtFrameStart
<1>4. Partial = 0 /\ Partial' = 0 /\ Closing(stream[at]) = 0
  BY <1>1, <1>2, <1>3 DEF Partial, Closing
<1>5. decoded_len' = decoded_len + 0 /\ Partial + 0 = Closing(stream[at]) + Partial'
      /\ Partial' \in Nat
  BY <1>1, <1>2, <1>4 DEF TypeOK
<1>6. saw_zstd' = (saw_zstd \/ "header" = "header")
  BY <1>1
<1> QED BY <1>1, <1>5, <1>6, ParsedEInv

LEMMA DecodeBlockEInv ==
  ASSUME IInv, EInv, DecodeBlock
  PROVE  EInv'
<1> USE DEF call
<1> DEFINE u == stream[at]
<1>1. TypeOK /\ Place /\ Told
  BY DEF IInv, EInv
<1>2. at \in 1 .. Len(stream) /\ u.kind = "block" /\ u \in Unit
  BY CursorMoves DEF DecodeBlock, Consume
<1>3. header # None /\ ~in_checksum /\ u.from = frame_out /\ u.from <= u.to
  BY <1>1, <1>2, AtBlock
<1>4. u.from \in Nat /\ u.to \in Nat /\ u.last \in BOOLEAN
  BY <1>2, UnitFields
<1>5. PICK grow \in Nat : grow = u.to - u.from
  BY <1>3, <1>4
<1>6. /\ Parsing("block") /\ Consume
      /\ UNCHANGED <<in_len, unfed, stream, broken, call, drained, saw_zstd>>
      /\ decoded_len' = decoded_len + grow /\ frame_out' = frame_out + grow
  BY <1>5 DEF DecodeBlock
<1>7. IF u.last /\ ~header.checksum THEN header' = None
      ELSE header' = header /\ in_checksum' = u.last
  BY DEF DecodeBlock, FinishFrame
<1>8. frame_out' = u.to /\ Partial = u.from
  BY <1>3, <1>4, <1>5, <1>6 DEF Partial
<1>9. Partial' = IF u.last THEN 0 ELSE u.to
  BY <1>3, <1>4, <1>7, <1>8 DEF Partial
<1>10. Closing(u) = IF u.last THEN u.to ELSE 0
  BY <1>2 DEF Closing
<1>11. Partial + grow = Closing(u) + Partial' /\ Partial' \in Nat
  BY <1>3, <1>4, <1>5, <1>8, <1>9, <1>10
<1>12. saw_zstd /\ saw_zstd' /\ saw_zstd' = (saw_zstd \/ "block" = "header")
  BY <1>1, <1>3, <1>6 DEF Told, TypeOK
<1> QED BY <1>6, <1>11, <1>12, ParsedEInv

LEMMA VerifyChecksumEInv ==
  ASSUME IInv, EInv, VerifyChecksum
  PROVE  EInv'
<1> USE DEF outbuf, call
<1>1. /\ Parsing("checksum") /\ Consume /\ header' = None
      /\ UNCHANGED <<in_len, unfed, stream, broken, call, drained, saw_zstd, decoded_len>>
  BY DEF VerifyChecksum, FinishFrame
<1>2. TypeOK /\ Place /\ Told /\ stream[at].kind = "checksum" /\ at <= Len(stream)
  BY <1>1 DEF IInv, EInv, Parsing, Arrived
<1>3. header # None /\ in_checksum
  BY <1>2, AtChecksum
<1>4. Partial = 0 /\ Partial' = 0 /\ Closing(stream[at]) = 0
  BY <1>1, <1>2, <1>3 DEF Partial, Closing
<1>5. decoded_len' = decoded_len + 0 /\ Partial + 0 = Closing(stream[at]) + Partial'
      /\ Partial' \in Nat
  BY <1>1, <1>2, <1>4 DEF TypeOK
<1>6. saw_zstd /\ saw_zstd' = (saw_zstd \/ "checksum" = "header")
  BY <1>1, <1>2, <1>3 DEF Told, TypeOK
<1> QED BY <1>1, <1>5, <1>6, ParsedEInv

\* What a call that ends says of the end.
LEMMA ReturnEInv ==
  ASSUME IInv, EInv, Return
  PROVE  EInv'
<1> USE DEF inbuf, outbuf, frame, config
<1> DEFINE n == Min2(Have, room)
           off == decoded_off + n
<1>1. TypeOK /\ Buffers /\ Place /\ Told /\ PlaceKept
  BY DEF IInv, EInv
<1>2. /\ CompactInput /\ Compact(off) /\ delivered' = delivered + n
      /\ pc = "run" /\ pc' = "idle" /\ (Enough \/ ~Arrived)
      /\ report' = IF eof /\ header = None
                      /\ \/ Avail # 0 /\ Have = 0
                         \/ Finished(off) /\ ~saw_zstd
                   THEN "UnexpectedEof"
                   ELSE IF Finished(off) THEN "done" ELSE "more"
      /\ UNCHANGED <<header, frame_out, in_checksum, eof, saw_zstd, stream, at, unfed, broken>>
  BY DEF Return
<1>3. n \in Nat /\ n <= Have /\ Have = decoded_len - decoded_off /\ Have \in Nat
      /\ decoded_len \in Nat /\ decoded_off \in Nat /\ drained \in Nat /\ delivered \in Nat
  BY <1>1 DEF Have, Min2, TypeOK, Buffers
<1> HIDE DEF n
<1>4. off \in Nat /\ off <= decoded_len
  BY <1>3
<1>5. /\ drained' + decoded_off' = drained + off
      /\ decoded_len' - decoded_off' = decoded_len - off
      /\ drained' \in Nat /\ decoded_len' \in Nat /\ decoded_off' \in Nat
  <2> HIDE DEF off
  <2> QED BY <1>2, <1>4, CompactKeeps
<1>6. Partial' = Partial /\ Partial \in Nat
  BY <1>1, <1>2, PartialIs DEF Partial
<1>7. stream \in Seq(Unit) /\ Len(stream) \in Nat /\ at \in Nat \ {0} /\ at <= Len(stream) + 1
  BY <1>1, ConstantsOK DEF TypeOK, Place
<1>8. ~broken /\ Avail + unfed = Bytes(SubSeq(stream, at, Len(stream)))
      /\ unfed \in Int /\ Avail \in Int
  BY <1>1, <1>2 DEF Told, PlaceKept, TypeOK, Avail
<1>9. PlaceKept'
  <2>1. Avail' = Avail
    BY <1>1, <1>2, CompactInputKeeps DEF Avail, TypeOK, Buffers
  <2>2. PICK rest : rest = Bytes(SubSeq(stream, at, Len(stream)))
    OBVIOUS
  <2>3. rest = Bytes(SubSeq(stream, at, Len(stream)))'
    BY <1>2, <2>2
  <2> QED BY <1>2, <1>8, <2>1, <2>2, <2>3 DEF PlaceKept
<1>10. Told'
  <2>1. drained' + decoded_len' = drained + decoded_len
    <3>1. PICK x \in Nat : x = decoded_len'
      BY <1>5
    <3>2. PICK y \in Nat : y = decoded_off'
      BY <1>5
    <3>3. PICK z \in Nat : z = drained'
      BY <1>5
    <3>4. z + y = drained + off /\ x - y = decoded_len - off
      BY <1>5, <3>1, <3>2, <3>3
    <3>5. z + x = drained + decoded_len
      BY <1>3, <1>4, <3>4
    <3> QED BY <3>1, <3>3, <3>5
  <2> QED BY <1>1, <1>2, <1>6, <2>1 DEF Told
\* Nothing is to come exactly when no unit is left.
<1>11. ASSUME eof, Avail = 0 PROVE at = Len(stream) + 1
  <2>1. Bytes(SubSeq(stream, at, Len(stream))) = 0
    BY <1>1, <1>8, <1>11 DEF Told
  <2>2. SUFFICES ASSUME at \in 1 .. Len(stream) PROVE FALSE
    BY <1>7
  <2>3. stream[at].len \in Nat \ {0}
    BY <1>7, <2>2, Weights
  <2> QED BY <1>7, <2>1, <2>2, <2>3, BytesCut
<1>12. ASSUME eof, Avail # 0, ~Arrived
       PROVE  at \in 1 .. Len(stream) /\ stream[at].kind = "stub"
  <2>1. Avail = Bytes(SubSeq(stream, at, Len(stream)))
    BY <1>1, <1>8, <1>12 DEF Told
  <2>2. at \in 1 .. Len(stream)
    <3>1. at # Len(stream) + 1
      BY <1>7, <1>12, <2>1, NoBytes
    <3> QED BY <1>7, <3>1
  <2>3. /\ Bytes(SubSeq(stream, at + 1, Len(stream))) \in Nat
        /\ Avail = stream[at].len + Bytes(SubSeq(stream, at + 1, Len(stream)))
    BY <1>7, <2>1, <2>2, BytesCut
  <2>4. Avail >= stream[at].len
    BY <1>7, <2>2, <2>3, Weights
  <2> QED BY <1>12, <2>2, <2>4 DEF Arrived
<1>13. report' = "UnexpectedEof" =>
         \/ stream[Len(stream)].kind = "stub"
         \/ \A i \in DOMAIN stream : stream[i].kind = "skip"
  <2>1. SUFFICES ASSUME report' = "UnexpectedEof"
                 PROVE  \/ stream[Len(stream)].kind = "stub"
                        \/ \A i \in DOMAIN stream : stream[i].kind = "skip"
    OBVIOUS
  <2>2. eof /\ \/ Avail # 0 /\ Have = 0
               \/ Finished(off) /\ ~saw_zstd
    BY <1>2, <2>1
  <2>3. CASE Avail # 0 /\ Have = 0
    <3>1. ~Arrived
      BY <1>2, <2>3 DEF Enough
    <3>2. at \in 1 .. Len(stream) /\ stream[at].kind = "stub"
      BY <1>12, <2>2, <2>3, <3>1
    <3>3. InPlace(stream) /\ at \in DOMAIN stream
      BY <1>1, <1>7, <3>2, ConstantsOK DEF TypeOK
    <3>4. at = Len(stream)
      BY <3>2, <3>3 DEF InPlace
    <3> QED BY <3>2, <3>4
  <2>4. CASE Finished(off) /\ ~saw_zstd
    <3>1. at = Len(stream) + 1
      BY <1>11, <2>2, <2>4 DEF Finished
    <3>2. \A i \in 1 .. at - 1 : stream[i].kind = "skip"
      BY <1>1, <2>4 DEF Told
    <3>3. at - 1 = Len(stream) /\ DOMAIN stream = 1 .. Len(stream)
      BY <1>7, <3>1
    <3> QED BY <3>2, <3>3
  <2> QED BY <2>2, <2>3, <2>4
<1>14. report' = "done" =>
         /\ at = Len(stream) + 1 /\ FrameEndsAt(stream, Len(stream))
         /\ \E i \in DOMAIN stream : stream[i].kind = "header"
         /\ delivered' = Content(stream)
  <2>1. SUFFICES ASSUME report' = "done"
                 PROVE  /\ at = Len(stream) + 1 /\ FrameEndsAt(stream, Len(stream))
                        /\ \E i \in DOMAIN stream : stream[i].kind = "header"
                        /\ delivered' = Content(stream)
    OBVIOUS
  <2>2. Finished(off) /\ saw_zstd
    BY <1>2, <2>1 DEF Finished
  <2>3. eof /\ Avail = 0 /\ header = None /\ off = decoded_len
    BY <2>2 DEF Finished
  <2>4. at = Len(stream) + 1 /\ at - 1 = Len(stream) /\ DOMAIN stream = 1 .. Len(stream)
    BY <1>7, <1>11, <2>3
  <2>5. \E i \in 1 .. at - 1 : stream[i].kind = "header"
    BY <1>1, <2>2 DEF Told
  <2>6. at > 1
    BY <1>7, <2>5
  <2>7. FrameEndsAt(stream, at - 1)
    <3>1. stream[at-1].kind \in {"header", "block", "checksum", "skip"} /\ stream[at-1].kind # "header"
      BY <1>1, <2>3, <2>6 DEF Place
    <3>2. stream[at-1].kind = "block" => stream[at-1].last /\ ~stream[Opened].checksum
      BY <1>1, <2>3, <2>6 DEF Place
    <3> QED BY <3>1, <3>2 DEF FrameEndsAt, Opened
  <2>8. delivered' = Content(stream)
    <3>1. delivered = drained + decoded_off
      BY <1>1 DEF Buffers
    <3>2. delivered + n = drained + decoded_len
      BY <1>3, <2>3, <3>1
    <3>3. Partial = 0
      BY <2>3 DEF Partial
    <3>4. ContentTo(stream)[Len(stream)] \in Nat
      BY <1>7, ContentToIs DEF IsSum
    <3>5. drained + decoded_len = ContentTo(stream)[Len(stream)]
      BY <1>1, <2>4, <3>3, <3>4 DEF Told
    <3> QED BY <1>2, <1>7, <3>2, <3>5, ContentToIs
  <2> QED BY <2>4, <2>5, <2>7, <2>8
<1>15. TrueEnd'
  BY <1>2, <1>13, <1>14 DEF TrueEnd
<1> QED BY <1>9, <1>10, <1>15 DEF EInv

\* Steps that parse nothing and say nothing of the end.
LEMMA StaysEInv ==
  ASSUME EInv, TypeOK,
         UNCHANGED <<decoded_len, drained, header, in_checksum, frame_out, saw_zstd, stream, at>>,
         \/ broken'
         \/ broken' = broken /\ in_len' - in_off' + unfed' = Avail + unfed,
         eof' => unfed' = 0,
         pc' = "run" => report' = "none" /\ ~broken',
         report' \notin {"done", "UnexpectedEof"} \/ UNCHANGED <<report, delivered>>
  PROVE  EInv'
<1>1. Told /\ PlaceKept /\ TrueEnd
  BY DEF EInv
<1>2. Partial' = Partial
  BY DEF Partial
<1>3. Told'
  BY <1>1, <1>2 DEF Told
<1>4. PlaceKept'
  BY <1>1 DEF PlaceKept, Avail
<1>5. TrueEnd'
  BY <1>1 DEF TrueEnd
<1> QED BY <1>3, <1>4, <1>5 DEF EInv

LEMMA NextEInv == IInv /\ EInv /\ [Next]_vars => EInv'
<1> SUFFICES ASSUME IInv, EInv, [Next]_vars PROVE EInv'
  OBVIOUS
<1> USE DEF inbuf, outbuf, frame, config, call
<1>0. TypeOK /\ Told
  BY DEF IInv, EInv
<1>1. ASSUME NEW n \in FeedLens, NEW cap \in OutCaps, NEW end \in BOOLEAN, Call(n, cap, end)
      PROVE  EInv'
  <2>1. /\ n \in Nat /\ ~broken /\ (end => n = unfed)
        /\ in_len' = in_len + n /\ unfed' = unfed - n /\ in_off' = in_off
        /\ eof' = end /\ report' = "none"
        /\ UNCHANGED <<decoded_len, drained, header, in_checksum, frame_out, saw_zstd, stream, at, broken>>
    BY <1>1, ConstantsOK DEF Call
  <2>2. in_len \in Int /\ in_off \in Int /\ unfed \in Int
    BY <1>0 DEF TypeOK
  <2>3. in_len' - in_off' + unfed' = Avail + unfed
    BY <2>1, <2>2 DEF Avail
  <2>4. eof' => unfed' = 0
    BY <2>1, <2>2
  <2> QED BY <1>0, <2>1, <2>3, <2>4, StaysEInv
<1>2. CASE SkipFrame
  BY <1>2, SkipFrameEInv
<1>3. ASSUME NEW e \in Reports \ {"done", "UnexpectedEof"}, Refused(e) PROVE EInv'
  <2>1. /\ pc' = "idle" /\ report' = e
        /\ UNCHANGED <<in_len, in_off, decoded_len, drained, header, in_checksum, frame_out,
                       saw_zstd, stream, at, broken, unfed, eof>>
    BY <1>3 DEF Refused
  <2>2. in_len' - in_off' + unfed' = Avail + unfed
    BY <2>1 DEF Avail
  <2>3. eof' => unfed' = 0
    BY <1>0, <2>1 DEF Told
  <2> QED BY <1>0, <2>1, <2>2, <2>3, StaysEInv
<1>4. ASSUME NEW e \in Reports \ {"done", "UnexpectedEof"}, Broken(e) PROVE EInv'
  <2>1. /\ pc' = "idle" /\ report' = e /\ broken'
        /\ UNCHANGED <<decoded_len, drained, header, in_checksum, frame_out,
                       saw_zstd, stream, at, unfed, eof>>
    BY <1>4 DEF Broken
  <2>2. eof' => unfed' = 0
    BY <1>0, <2>1 DEF Told
  <2> QED BY <1>0, <2>1, <2>2, StaysEInv
<1>5. CASE Junk
  <2>1. PICK e \in {"TrailingBytes", "BadMagic", "ReservedBlockType"} : Refused(e)
    BY <1>5 DEF Junk
  <2>2. e \in Reports \ {"done", "UnexpectedEof"}
    BY DEF Reports
  <2> QED BY <1>3, <2>1, <2>2
<1>6. CASE HeaderRefused
  <2>1. PICK e \in {"WindowTooLarge", "DictionaryNeeded", "DictionaryMismatch"} : Refused(e)
    BY <1>6, Zenon DEF HeaderRefused, HeaderFault
  <2>2. e \in Reports \ {"done", "UnexpectedEof"}
    BY DEF Reports
  <2> QED BY <1>3, <2>1, <2>2
<1>7. CASE OpenFrame
  BY <1>7, OpenFrameEInv
<1>8. CASE BlockRefused
  <2>1. PICK e \in {"BlockTooLarge", "Corruption", "ContentSizeMismatch"} : Broken(e)
    BY <1>8, Zenon DEF BlockRefused, BlockFault
  <2>2. e \in Reports \ {"done", "UnexpectedEof"}
    BY DEF Reports
  <2> QED BY <1>4, <2>1, <2>2
<1>9. CASE DecodeBlock
  BY <1>9, DecodeBlockEInv
<1>10. CASE ChecksumRefused
  <2>1. PICK e \in {"ChecksumMismatch", "ContentSizeMismatch"} : Broken(e)
    BY <1>10, Zenon DEF ChecksumRefused, ChecksumFault
  <2>2. e \in Reports \ {"done", "UnexpectedEof"}
    BY DEF Reports
  <2> QED BY <1>4, <2>1, <2>2
<1>11. CASE VerifyChecksum
  BY <1>11, VerifyChecksumEInv
<1>12. CASE Return
  BY <1>12, ReturnEInv
<1>13. CASE \/ \E d \in Dictionary : SetDictionary(d)
            \/ \E n \in PrefixLens : SetPrefix(n)
            \/ UNCHANGED vars
  <2>1. UNCHANGED <<in_len, in_off, decoded_len, drained, header, in_checksum, frame_out, pc,
                    saw_zstd, stream, at, broken, unfed, eof, report, delivered>>
    BY <1>13 DEF SetDictionary, SetPrefix, vars
  <2>2. in_len' - in_off' + unfed' = Avail + unfed
    BY <2>1 DEF Avail
  <2>3. (eof' => unfed' = 0) /\ (pc' = "run" => report' = "none" /\ ~broken')
    BY <1>0, <2>1 DEF Told
  <2> QED BY <1>0, <2>1, <2>2, <2>3, StaysEInv
<1> QED BY <1>1, <1>2, <1>5, <1>6, <1>7, <1>8, <1>9, <1>10, <1>11, <1>12, <1>13
        DEF Next, Running

\* Every reachable state says of the end of its stream what is so.
THEOREM EndInvariant == Spec => []EInv
<1>1. Init => IInv /\ EInv
  BY InitIInv, InitEInv
<1> QED BY <1>1, NextEInv, Invariant, PTL DEF Spec

\* However the input is cut, each of its bytes is parsed with one unit, and an
\* error that may be tried again leaves the unit where it was.
THEOREM PlaceKeptHolds == Spec => []PlaceKept
<1>1. EInv => PlaceKept
  BY DEF EInv
<1> QED BY <1>1, EndInvariant, PTL

\* stream() reports done only over a stream that ends where a frame does and all
\* of whose content the caller has, and UnexpectedEof only over one that ends
\* inside a unit or has no frame.
THEOREM TrueEndHolds == Spec => []TrueEnd
<1>1. EInv => TrueEnd
  BY DEF EInv
<1> QED BY <1>1, EndInvariant, PTL
=============================================================================
