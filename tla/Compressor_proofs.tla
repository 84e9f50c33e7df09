-------------------------- MODULE Compressor_proofs --------------------------
(***************************************************************************)
(* Proofs about the streaming compressor, for every window, block size,    *)
(* lookahead, dictionary, pledge, input and output capacity.               *)
(*                                                                         *)
(* The argument.  Frame, all that has been written for the current frame,  *)
(* only ever grows by Append, because take_output moves items from out_acc *)
(* to the caller without changing it (FrameTake) and every write appends   *)
(* to out_acc (FrameAppend).  What is appended fits what is there because  *)
(* the cursor hist_done is at frame position produced_in (Counts), because *)
(* the last block is only coded when nothing is left to code (Control),    *)
(* and because the pledge is checked against all that the call brings      *)
(* (PledgeInv).                                                            *)
(***************************************************************************)
EXTENDS MCCompressor, SequenceTheorems, TLAPS

\* The cursors and the positions they stand for.
Counts ==
  /\ hist_done <= hist_len
  /\ out_off <= Len(out_acc)
  /\ FramePos(hist_len) = fed
  /\ err = None => FramePos(hist_done) = produced_in /\ xxh = produced_in

\* Which phases a frame and a call can be in together.
Control ==
  /\ pc = "run" => started /\ err = None
  /\ pc = "idle" => rest = 0
  /\ ended => /\ started /\ last_block_written /\ err = None
              /\ Pending = 0 /\ rest = 0
  /\ last_block_written /\ ~ended =>
       pc = "run" /\ flush = "End" /\ rest = 0 /\ Pending = 0
  /\ ~started => /\ produced_in = 0 /\ ~last_block_written /\ fed = 0
                 /\ xxh = 0 /\ Pending = 0
  /\ report = "done" => ended /\ OutPending = 0

\* What a pledge leaves room for.
PledgeInv ==
  pledged # None =>
    /\ started => produced_in + Pending + rest <= pledged
    /\ pc = "run" /\ flush = "End" => produced_in + Pending + rest = pledged

\* What is written of a frame f, and how its end relates to the counters.
FrameShape(f) ==
  /\ WellFormed(f)
  /\ started <=> Len(f) > 0
  /\ started => f[1].size = pledged /\ f[1].checksum = checksum
  /\ Len(f) = 1 => produced_in = 0 /\ ~last_block_written
  /\ Len(f) > 1 /\ ~(ended /\ checksum) =>
       /\ f[Len(f)].kind = "block" /\ f[Len(f)].to = produced_in
       /\ f[Len(f)].last = last_block_written
  /\ ended => Len(f) > 1
  /\ ended /\ checksum =>
       f[Len(f)].kind = "checksum" /\ f[Len(f)].of = produced_in
  /\ \A i \in DOMAIN f :
       f[i].kind = "block" /\ f[i].last => f[1].size \in {None, f[i].to}

IInv == TypeOK /\ Counts /\ Control /\ PledgeInv /\ FrameShape(Frame)

-----------------------------------------------------------------------------
LEMMA BlockMaxPositive == BlockMax \in Nat \ {0} /\ BlockMax <= Window
  BY ConstantsOK DEF BlockMax, Min2

LEMMA Threshold ==
  ASSUME slide_mul \in SlideMuls
  PROVE  SlideThreshold(slide_mul) \in Nat /\ SlideThreshold(slide_mul) >= 2 * Window
<1> DEFINE extra == (slide_mul - 2) * Window
<1>1. slide_mul - 2 \in Nat /\ Window \in Nat /\ SlideExtraMax \in Nat
  BY ConstantsOK
<1>2. extra \in Nat
  BY <1>1, SMT
<1>3. Min2(extra, SlideExtraMax) \in Nat
  BY <1>1, <1>2 DEF Min2
<1> QED
  BY <1>1, <1>3 DEF SlideThreshold

LEMMA Suffix ==
  ASSUME NEW S, NEW o \in Seq(S), NEW k \in 0 .. Len(o)
  PROVE  /\ SubSeq(o, k + 1, Len(o)) \in Seq(S)
         /\ Len(SubSeq(o, k + 1, Len(o))) = Len(o) - k
         /\ \A i \in 1 .. Len(o) - k : SubSeq(o, k + 1, Len(o))[i] = o[k + i]
<1>1. Len(o) \in Nat /\ k + 1 \in Int
  BY LenProperties
<1>2. \A i \in (k + 1) .. Len(o) : o[i] \in S
  BY <1>1, ElementOfSeq
<1>3. /\ SubSeq(o, k + 1, Len(o)) \in Seq(S)
      /\ Len(SubSeq(o, k + 1, Len(o)))
           = IF k + 1 <= Len(o) THEN Len(o) - (k + 1) + 1 ELSE 0
      /\ \A i \in 1 .. Len(o) - (k + 1) + 1 :
           SubSeq(o, k + 1, Len(o))[i] = o[k + 1 + i - 1]
  BY <1>1, <1>2, SubSeqProperties
<1>4. \A i \in 1 .. Len(o) - k : k + 1 + i - 1 = k + i
  BY <1>1
<1> QED BY <1>1, <1>3, <1>4

\* Appending to the output buffer appends to the frame.
LEMMA FrameAppend ==
  ASSUME NEW t \in Seq(Item), NEW o \in Seq(Item), NEW k \in 0 .. Len(o),
         NEW x \in Item
  PROVE  t \o SubSeq(Append(o, x), k + 1, Len(Append(o, x)))
           = Append(t \o SubSeq(o, k + 1, Len(o)), x)
<1> DEFINE o2 == Append(o, x)
           a  == SubSeq(o, k + 1, Len(o))
           b  == SubSeq(o2, k + 1, Len(o2))
           c  == Append(a, x)
<1>1. /\ o2 \in Seq(Item) /\ Len(o2) = Len(o) + 1
      /\ \A i \in 1 .. Len(o) : o2[i] = o[i]
      /\ o2[Len(o) + 1] = x
  BY AppendProperties
<1>2. Len(o) \in Nat
  BY LenProperties
<1>3. /\ a \in Seq(Item) /\ Len(a) = Len(o) - k
      /\ \A i \in 1 .. Len(o) - k : a[i] = o[k + i]
  BY Suffix
<1> HIDE DEF o2
<1>4. /\ b \in Seq(Item) /\ Len(b) = Len(o2) - k
      /\ \A i \in 1 .. Len(o2) - k : b[i] = o2[k + i]
  BY <1>1, <1>2, Suffix
<1> HIDE DEF a, b
<1>5. /\ c \in Seq(Item) /\ Len(c) = Len(a) + 1
      /\ \A i \in 1 .. Len(a) : c[i] = a[i]
      /\ c[Len(a) + 1] = x
  BY <1>3, AppendProperties
<1> HIDE DEF c
<1>6. ASSUME NEW i \in 1 .. Len(b) PROVE b[i] = c[i]
  <2>1. /\ k \in Nat /\ Len(b) = Len(o) - k + 1 /\ Len(a) = Len(o) - k
        /\ b[i] = o2[k + i]
    BY <1>1, <1>2, <1>3, <1>4
  <2>2. CASE i = Len(a) + 1
    BY <1>1, <1>2, <1>5, <2>1, <2>2
  <2>3. CASE i # Len(a) + 1
    <3>1. i \in 1 .. Len(a) /\ k + i \in 1 .. Len(o)
      BY <1>2, <2>1, <2>3
    <3> QED BY <1>1, <1>3, <1>5, <2>1, <3>1
  <2> QED BY <2>2, <2>3
<1>7. Len(b) = Len(c)
  BY <1>1, <1>2, <1>3, <1>4, <1>5
<1>8. b = c
  BY <1>4, <1>5, <1>6, <1>7, SeqEqual
<1>9. t \o Append(a, x) = Append(t \o a, x)
  <2>1. Append(a, x) = a \o <<x>>
    BY <1>3, AppendIsConcat
  <2>2. Append(t \o a, x) = (t \o a) \o <<x>>
    BY <1>3, AppendIsConcat, ConcatProperties
  <2>3. <<x>> \in Seq(Item)
    OBVIOUS
  <2> QED BY <1>3, <2>1, <2>2, <2>3, ConcatAssociative
<1> QED BY <1>8, <1>9 DEF b, c, o2, a

\* Handing items over leaves the frame as it is.
LEMMA FrameTake ==
  ASSUME NEW t \in Seq(Item), NEW o \in Seq(Item), NEW k \in 0 .. Len(o),
         NEW m \in k .. Len(o)
  PROVE  (t \o SubSeq(o, k + 1, m)) \o SubSeq(o, m + 1, Len(o))
           = t \o SubSeq(o, k + 1, Len(o))
<1>1. Len(o) \in Nat
  BY LenProperties
<1>2. SubSeq(o, k + 1, m) \o SubSeq(o, m + 1, Len(o)) = SubSeq(o, k + 1, Len(o))
  <2> DEFINE j == k + 1
             n == Len(o)
  <2>1. j \in 1 .. Len(o) + 1 /\ m \in j - 1 .. Len(o) /\ n \in m .. Len(o)
    BY <1>1
  <2> HIDE DEF j, n
  <2>2. SubSeq(o, j, m) \o SubSeq(o, m + 1, n) = SubSeq(o, j, n)
    BY <2>1, ConcatAdjacentSubSeq
  <2> QED BY <2>2 DEF j, n
<1>3. \A i \in 1 .. Len(o) : o[i] \in Item
  BY ElementOfSeq
<1> DEFINE a == SubSeq(o, k + 1, m)
           b == SubSeq(o, m + 1, Len(o))
<1>4. a \in Seq(Item)
  <2>1. k + 1 \in Int /\ m \in Int /\ \A i \in (k + 1) .. m : o[i] \in Item
    BY <1>1, <1>3
  <2> QED BY <2>1, SubSeqProperties
<1>5. b \in Seq(Item)
  BY <1>1, Suffix
<1>6. a \o b = SubSeq(o, k + 1, Len(o))
  BY <1>2
<1> HIDE DEF a, b
<1>7. (t \o a) \o b = t \o (a \o b)
  BY SMTT(60), <1>4, <1>5, ConcatAssociative
<1> QED BY <1>6, <1>7 DEF a, b

LEMMA FrameTyped == TypeOK => Frame \in Seq(Item)
  BY ElementOfSeq, LenProperties, SubSeqProperties, ConcatProperties DEF TypeOK, Frame

-----------------------------------------------------------------------------
(* Types. *)

LEMMA HeaderTyped ==
  ASSUME checksum \in BOOLEAN, NEW size \in Nat \cup {None},
         NEW id \in Nat \cup {None}, NEW has \in BOOLEAN
  PROVE  Header(size, id, has) \in Item
<1> DEFINE w == IF size # None /\ ~has /\ size <= Window THEN size ELSE Window
<1>1. w \in Nat
  BY ConstantsOK
<1> HIDE DEF w
<1>2. [kind |-> "header", size |-> size, id |-> id, checksum |-> checksum,
       window |-> w] \in Item
  BY <1>1 DEF Item
<1> QED BY <1>2 DEF Header, w

HistoryTyped ==
  /\ coder \in {"fresh", "dict", "touched"}
  /\ tables \in {"fresh", "primed", "touched"}
  /\ hist_len \in Nat /\ hist_done \in Nat
  /\ dict_id \in Nat \cup {None} /\ ext \in Nat /\ dropped \in Nat

LEMMA LoadTyped ==
  ASSUME TypeOK, NEW d \in Dictionary, NEW b \in BOOLEAN, LoadDictionary(d, b)
  PROVE  HistoryTyped'
<1>1. d.id \in Nat /\ d.len \in Nat
  BY ConstantsOK
<1> QED BY <1>1 DEF TypeOK, LoadDictionary, HistoryTyped

LEMMA ReloadTyped ==
  ASSUME TypeOK, ReloadHistory
  PROVE  HistoryTyped'
<1>1. CASE dict = None
  BY <1>1 DEF ReloadHistory, ClearHistory, HistoryTyped
<1>2. CASE dict # None
  BY <1>2, LoadTyped DEF ReloadHistory, TypeOK
<1> QED BY <1>1, <1>2

LEMMA TakeTyped ==
  ASSUME TypeOK, NEW cap \in Nat, TakeOutput(cap)
  PROVE  (out_acc \in Seq(Item) /\ out_off \in Nat /\ taken \in Seq(Item))'
<1> DEFINE off == out_off + Min2(OutPending, cap)
<1>1. /\ out_acc \in Seq(Item) /\ out_off \in Nat /\ taken \in Seq(Item)
      /\ Len(out_acc) \in Nat
  BY LenProperties DEF TypeOK
<1>2. off \in Nat /\ off <= Len(out_acc)
  BY <1>1 DEF OutPending, Min2
<1>3. /\ taken' = taken \o SubSeq(out_acc, out_off + 1, off)
      /\ out_acc' \in {<<>>, SubSeq(out_acc, off + 1, Len(out_acc)), out_acc}
      /\ out_off' \in {0, off}
  BY DEF TakeOutput
<1> HIDE DEF off
<1>4. SubSeq(out_acc, out_off + 1, off) \in Seq(Item)
  <2>1. \A i \in (out_off + 1) .. off : out_acc[i] \in Item
    BY <1>1, <1>2, ElementOfSeq
  <2>2. out_off + 1 \in Int /\ off \in Int
    BY <1>1, <1>2
  <2> QED BY <2>1, <2>2, SubSeqProperties
<1>5. SubSeq(out_acc, off + 1, Len(out_acc)) \in Seq(Item)
  BY <1>1, <1>2, Suffix
<1>6. taken \o SubSeq(out_acc, out_off + 1, off) \in Seq(Item)
  BY <1>1, <1>4, ConcatProperties
<1>7. out_acc' \in Seq(Item)
  <2>1. << >> \in Seq(Item)
    OBVIOUS
  <2> DEFINE a == SubSeq(out_acc, off + 1, Len(out_acc))
  <2> HIDE DEF a
  <2>2. out_acc' = <<>> \/ out_acc' = a \/ out_acc' = out_acc
    BY <1>3 DEF a
  <2>3. a \in Seq(Item)
    BY <1>5 DEF a
  <2> QED BY <1>1, <2>1, <2>2, <2>3, Zenon
<1>8. out_off' \in Nat
  BY <1>2, <1>3
<1>9. taken' \in Seq(Item)
  BY <1>3, <1>6
<1> QED BY <1>7, <1>8, <1>9

LEMMA EmitTyped ==
  ASSUME TypeOK, NEW take \in Nat, NEW last \in BOOLEAN, take <= Pending,
         EmitBlock(take, last)
  PROVE  /\ HistoryTyped'
         /\ (xxh \in Int /\ produced_in \in Nat)'
         /\ last_block_written' \in BOOLEAN /\ out_acc' \in Seq(Item)
         /\ \E x \in Item : out_acc' = Append(out_acc, x)
<1> DEFINE end == hist_done + take
           far == produced_in + take <= Window
           ahead == Min2(Lookahead, hist_len - end)
           x == Block(FramePos(hist_done), FramePos(end), last, hist_done, ahead, far)
<1>1. /\ Window \in Nat /\ Lookahead \in Nat
      /\ hist_len \in Nat /\ hist_done \in Nat /\ ext \in Nat /\ dropped \in Nat
      /\ produced_in \in Nat /\ xxh \in Int
  BY ConstantsOK DEF TypeOK
<1>2. end \in Nat /\ end <= hist_len /\ ahead \in Nat
  BY <1>1 DEF Pending, Min2
<1>3. FramePos(hist_done) \in Int /\ FramePos(end) \in Int
  BY <1>1, <1>2 DEF FramePos
<1>4. x \in Item /\ out_acc' = Append(out_acc, x)
  <2>1. out_acc' = Append(out_acc, x)
    BY DEF EmitBlock
  <2> HIDE DEF end, far, ahead
  <2>2. far \in BOOLEAN
    BY DEF far
  <2>3. x \in Item
    BY <1>1, <1>2, <1>3, <2>2 DEF Block, Item
  <2> QED BY <2>1, <2>3
<1>5. out_acc' \in Seq(Item)
  BY <1>4, AppendProperties DEF TypeOK
<1>6. xxh' \in Int
  BY <1>1, <1>2, <1>3 DEF EmitBlock, Digest, Garbled, HashedTo
<1>7. HistoryTyped'
  <2>1. CASE end >= SlideThreshold(slide_mul)
    <3>1. end - Window \in Nat
      BY <1>1, <1>2, <2>1, Threshold DEF TypeOK
    <3>2. Slide(end)
      BY <2>1 DEF EmitBlock
    <3> QED
      BY <1>1, <1>2, <3>1, <3>2 DEF Slide, EmitBlock, HistoryTyped, TypeOK
  <2>2. CASE ~(end >= SlideThreshold(slide_mul))
    BY <1>1, <1>2, <2>2 DEF EmitBlock, HistoryTyped, TypeOK
  <2> QED BY <2>1, <2>2
<1>8. produced_in' \in Nat /\ last_block_written' \in BOOLEAN
  BY <1>1 DEF EmitBlock, TypeOK
<1> QED BY <1>4, <1>5, <1>6, <1>7, <1>8

LEMMA ClearFrameTyped ==
  ASSUME ClearFrame
  PROVE  /\ err' = None /\ started' \in BOOLEAN /\ ended' \in BOOLEAN
         /\ produced_in' \in Nat /\ last_block_written' \in BOOLEAN
         /\ xxh' \in Int /\ out_acc' \in Seq(Item) /\ out_off' \in Nat
         /\ taken' \in Seq(Item) /\ fed' \in Nat
<1>1. << >> \in Seq(Item)
  OBVIOUS
<1>2. out_acc' \in Seq(Item) /\ taken' \in Seq(Item)
  BY <1>1, Zenon DEF ClearFrame
<1>3. out_off' \in Nat /\ fed' \in Nat /\ produced_in' \in Nat /\ xxh' \in Int
  BY DEF ClearFrame
<1> QED BY <1>2, <1>3 DEF ClearFrame

\* Starting the next frame keeps the types of everything it touches.
LEMMA MoveOnTyped ==
  ASSUME TypeOK, NextFrameDue, MoveOn(OutPending)
  PROVE  lost' \in Nat
  BY LenProperties DEF TypeOK, NextFrameDue, MoveOn

\* Every step keeps the types.
LEMMA TypeStep == TypeOK /\ [Next]_vars => TypeOK'
<1> SUFFICES ASSUME TypeOK, [Next]_vars PROVE TypeOK'
  OBVIOUS
<1> USE DEF settings, phase, history, output, call
<1>1. ASSUME NEW n \in InputLens, NEW cap \in OutCaps, NEW f \in Flush,
             Stream(n, cap, f)
      PROVE  TypeOK'
  <2>0. n \in Nat /\ cap \in Nat
    BY ConstantsOK
  <2>1. CASE StreamEnded(n, cap, f)
    <3>1. (out_acc \in Seq(Item) /\ out_off \in Nat /\ taken \in Seq(Item))'
      BY <2>0, <2>1, TakeTyped DEF StreamEnded
    <3> QED BY <2>1, <3>1 DEF StreamEnded, TypeOK
  <2>2. CASE StreamNextFrame(n, cap, f)
    <3>1. HistoryTyped'
      BY <2>2, ReloadTyped DEF StreamNextFrame
    <3>2. Len(out_acc) \in Nat /\ out_off \in Nat /\ lost \in Nat
      BY LenProperties DEF TypeOK
    <3>3. lost' \in Nat /\ cap - OutPending \in Nat
      BY <2>0, <2>2, <3>2 DEF StreamNextFrame, MoveOn, Min2, AllTaken, OutPending
    <3> DEFINE h == Header(None, IF write_dict_id THEN dict_id' ELSE None, hist_len' > 0)
    <3>4. h \in Item
      <4>1. (IF write_dict_id THEN dict_id' ELSE None) \in Nat \cup {None}
        BY <3>1 DEF HistoryTyped
      <4>2. checksum \in BOOLEAN /\ (hist_len' > 0) \in BOOLEAN
        BY DEF TypeOK
      <4>3. None \in Nat \cup {None}
        OBVIOUS
      <4> QED BY <4>1, <4>2, <4>3, HeaderTyped
    <3>5. out_acc' \in Seq(Item)
      <4>1. out_acc' = <<h>>
        BY <2>2 DEF StreamNextFrame
      <4> HIDE DEF h
      <4> QED BY <3>4, <4>1
    <3> HIDE DEF h
    <3>6. taken' \in Seq(Item)
      <4>1. << >> \in Seq(Item)
        OBVIOUS
      <4> QED BY <2>2, <4>1 DEF StreamNextFrame
    <3>7. (out_off \in Nat /\ fed \in Nat /\ rest \in Nat /\ outcap \in Nat
            /\ produced_in \in Nat /\ xxh \in Int)'
      BY <2>0, <2>2, <3>3 DEF StreamNextFrame
    <3>8. /\ checksum' = checksum /\ slide_mul' = slide_mul /\ dict' = dict
          /\ write_dict_id' = write_dict_id
          /\ pledged' = None /\ err' = None /\ started' = TRUE /\ ended' = FALSE
          /\ last_block_written' = FALSE /\ pc' = "run" /\ flush' = f
          /\ report' = "none"
      BY <2>2, Zenon DEF StreamNextFrame
    <3> QED
      BY <3>1, <3>3, <3>5, <3>6, <3>7, <3>8 DEF TypeOK, HistoryTyped
  <2>3. CASE StreamBadPledge(n, cap, f)
    BY <2>3 DEF StreamBadPledge, TypeOK
  <2>4. CASE StreamBegin(n, cap, f)
    <3> DEFINE h == Header(pledged, IF write_dict_id THEN dict_id ELSE None, hist_len > 0)
    <3>1. h \in Item
      <4>1. (IF write_dict_id THEN dict_id ELSE None) \in Nat \cup {None}
        BY DEF TypeOK
      <4>2. /\ checksum \in BOOLEAN /\ (hist_len > 0) \in BOOLEAN
            /\ pledged \in Nat \cup {None}
        BY DEF TypeOK
      <4> QED BY <4>1, <4>2, HeaderTyped
    <3>2. out_acc' \in Seq(Item)
      <4>1. out_acc' \in {out_acc, Append(out_acc, h)}
        BY <2>4 DEF StreamBegin
      <4> HIDE DEF h
      <4>2. Append(out_acc, h) \in Seq(Item)
        BY <3>1, AppendProperties DEF TypeOK
      <4> QED BY <4>1, <4>2 DEF TypeOK
    <3> HIDE DEF h
    <3> QED BY <2>0, <2>4, <3>2 DEF StreamBegin, TypeOK
  <2> QED BY <1>1, <2>1, <2>2, <2>3, <2>4 DEF Stream
<1>2. CASE AbsorbAppend
  <2>1. BlockMax \in Nat /\ Lookahead \in Nat
    BY BlockMaxPositive, ConstantsOK
  <2> DEFINE m == Min2(AbsorbLimit - Pending, rest)
  <2>2. m \in Nat /\ m <= rest
    BY <1>2, <2>1 DEF AbsorbAppend, BlockReady, AbsorbLimit, Pending, Min2, TypeOK
  <2> HIDE DEF m
  <2>3. hist_len' = hist_len + m /\ rest' = rest - m /\ fed' = fed + m
    BY <1>2 DEF AbsorbAppend, m
  <2> QED BY <1>2, <2>2, <2>3 DEF AbsorbAppend, TypeOK
<1>3. ASSUME NEW take \in Nat, NEW last \in BOOLEAN, take <= Pending,
             EmitBlock(take, last),
             UNCHANGED <<settings, pledged, err, started, ended, out_off, taken,
                         call, fed, lost, report>>
      PROVE  TypeOK'
  <2>1. /\ HistoryTyped'
        /\ (xxh \in Int /\ produced_in \in Nat)'
        /\ last_block_written' \in BOOLEAN /\ out_acc' \in Seq(Item)
    BY <1>3, EmitTyped
  <2> QED BY <1>3, <2>1 DEF HistoryTyped, TypeOK
<1>4. ASSUME NEW take \in Nat, CoderFails(take) PROVE TypeOK'
  <2>1. xxh' \in Int
    BY <1>4 DEF CoderFails, Digest, Garbled, HashedTo, FramePos, TypeOK
  <2> QED BY <1>4, <2>1 DEF CoderFails, TypeOK
<1>5. CASE AbsorbBlock
  <2>1. BlockMax \in Nat /\ BlockMax <= Pending
    BY <1>5, BlockMaxPositive, ConstantsOK DEF AbsorbBlock, BlockReady, AbsorbLimit, Pending, TypeOK
  <2> QED BY <1>3, <1>4, <1>5, <2>1 DEF AbsorbBlock
<1>6. CASE CodePending
  <2> DEFINE take == Min2(Pending, BlockMax)
  <2>1. take \in Nat /\ take <= Pending
    BY <1>6, BlockMaxPositive DEF CodePending, MoreToCode, Pending, Min2, TypeOK
  <2>2. (flush = "End" /\ take = Pending) \in BOOLEAN
    OBVIOUS
  <2> QED BY <1>3, <1>4, <1>6, <2>1, <2>2 DEF CodePending
<1>7. CASE EmptyLastBlock
  <2>1. 0 \in Nat /\ 0 <= Pending
    BY <1>7 DEF EmptyLastBlock
  <2> QED BY <1>3, <1>7, <2>1 DEF EmptyLastBlock
<1>8. CASE EndFrame
  <2>1. Checksum(xxh) \in Item
    BY DEF Checksum, Item, TypeOK
  <2>2. out_acc' \in Seq(Item)
    <3>1. Append(out_acc, Checksum(xxh)) \in Seq(Item)
      BY <2>1, AppendProperties DEF TypeOK
    <3> QED BY <1>8, <3>1 DEF EndFrame, TypeOK
  <2> QED BY <1>8, <2>2 DEF EndFrame, TypeOK
<1>9. CASE Return
  <2>1. (out_acc \in Seq(Item) /\ out_off \in Nat /\ taken \in Seq(Item))'
    BY <1>9, TakeTyped DEF Return, TypeOK
  <2> QED BY <1>9, <2>1 DEF Return, TypeOK
<1>10. CASE Reset
  BY <1>10, ReloadTyped, ClearFrameTyped DEF Reset, TypeOK, HistoryTyped
<1>11. ASSUME NEW n \in Pledges, SetPledgedSrcSize(n) PROVE TypeOK'
  <2>0. n \in Nat
    BY ConstantsOK
  <2>1. CASE NextFrameDue
    BY <1>11, <2>0, <2>1, ReloadTyped, ClearFrameTyped, MoveOnTyped
    DEF SetPledgedSrcSize, TypeOK, HistoryTyped
  <2>2. CASE ~NextFrameDue
    BY SMTT(60), <1>11, <2>0, <2>2 DEF SetPledgedSrcSize, TypeOK
  <2> QED BY <2>1, <2>2
<1>12. ASSUME StartOver
       PROVE  /\ pledged' \in Nat \cup {None}
              /\ err' \in {None, "ContentSizeMismatch", "Corruption"}
              /\ started' \in BOOLEAN /\ ended' \in BOOLEAN
              /\ produced_in' \in Nat /\ last_block_written' \in BOOLEAN
              /\ xxh' \in Int /\ out_acc' \in Seq(Item) /\ out_off' \in Nat
              /\ taken' \in Seq(Item) /\ fed' \in Nat /\ lost' \in Nat
              /\ report' \in {"none", "more", "done", "error"}
  <2>1. CASE NextFrameDue
    BY <1>12, <2>1, ClearFrameTyped, MoveOnTyped DEF StartOver
  <2>2. CASE ~NextFrameDue
    BY <1>12, <2>2 DEF StartOver, TypeOK
  <2> QED BY <2>1, <2>2
<1>13. ASSUME NEW d \in Dictionary, SetDictionary(d) PROVE TypeOK'
  <2>1. HistoryTyped'
    BY <1>13, LoadTyped DEF SetDictionary, HistoryInTheWay, NextFrameDue
  <2> QED BY <1>12, <1>13, <2>1 DEF SetDictionary, TypeOK, HistoryTyped
<1>14. ASSUME NEW n \in PrefixLens, SetPrefix(n) PROVE TypeOK'
  <2>0. n \in Nat
    BY ConstantsOK
  <2>1. HistoryTyped'
    BY <1>14, <2>0 DEF SetPrefix, TypeOK, HistoryTyped
  <2> QED BY <1>12, <1>14, <2>1 DEF SetPrefix, TypeOK, HistoryTyped
<1>15. ASSUME NEW b \in BOOLEAN, SetWriteDictId(b) PROVE TypeOK'
  <2>1. CASE NextFrameDue
    BY <1>15, <2>1, ReloadTyped, ClearFrameTyped, MoveOnTyped
    DEF SetWriteDictId, TypeOK, HistoryTyped
  <2>2. CASE ~NextFrameDue
    BY SMTT(60), <1>15, <2>2 DEF SetWriteDictId, TypeOK
  <2> QED BY <2>1, <2>2
<1>16. ASSUME NEW k \in SlideMuls, SetSlideMul(k) PROVE TypeOK'
  BY <1>16 DEF SetSlideMul, TypeOK
<1>17. CASE UNCHANGED vars
  BY <1>17 DEF vars, TypeOK
<1> QED
  BY <1>1, <1>2, <1>5, <1>6, <1>7, <1>8, <1>9, <1>10, <1>11, <1>13, <1>14,
     <1>15, <1>16, <1>17
  DEF Next, Running

-----------------------------------------------------------------------------
LEMMA InitTyped == Init => TypeOK
<1> SUFFICES ASSUME Init PROVE TypeOK
  OBVIOUS
<1>1. << >> \in Seq(Item)
  OBVIOUS
<1>2. out_acc \in Seq(Item) /\ taken \in Seq(Item)
  BY <1>1, Zenon DEF Init
<1>3. checksum \in BOOLEAN /\ slide_mul \in SlideMuls /\ flush \in Flush
  BY DEF Init, Flush
<1>4. /\ produced_in \in Nat /\ xxh \in Int /\ hist_len \in Nat
      /\ hist_done \in Nat /\ ext \in Nat /\ dropped \in Nat /\ out_off \in Nat
      /\ rest \in Nat /\ outcap \in Nat /\ fed \in Nat /\ lost \in Nat
  BY DEF Init
<1>5. /\ dict = None /\ write_dict_id = TRUE /\ pledged = None /\ err = None
      /\ started = FALSE /\ ended = FALSE /\ last_block_written = FALSE
      /\ coder = "fresh" /\ tables = "fresh" /\ dict_id = None /\ pc = "idle"
      /\ report = "none"
  BY DEF Init
<1> QED BY <1>2, <1>3, <1>4, <1>5 DEF TypeOK

\* Type correctness: no cursor, capacity or count ever leaves its type, in
\* particular no subtraction of stream.rs underflows.
THEOREM TypeCorrect == Spec => []TypeOK
<1>1. Init => TypeOK
  BY InitTyped
<1>2. TypeOK /\ [Next]_vars => TypeOK'
  BY TypeStep
<1> QED BY <1>1, <1>2, PTL DEF Spec

-----------------------------------------------------------------------------
(* What the steps do to the counters and to the frame. *)

LEMMA EmitCounts ==
  ASSUME TypeOK, Counts, err = None, NEW take \in Nat, NEW last \in BOOLEAN,
         take <= Pending, EmitBlock(take, last)
  PROVE  /\ Pending' = Pending - take
         /\ hist_done' <= hist_len'
         /\ FramePos(hist_len)' = FramePos(hist_len)
         /\ FramePos(hist_done)' = produced_in'
         /\ produced_in' = produced_in + take
         /\ xxh' = produced_in'
<1> DEFINE end == hist_done + take
<1>1. /\ Window \in Nat
      /\ hist_len \in Nat /\ hist_done \in Nat /\ ext \in Nat /\ dropped \in Nat
      /\ produced_in \in Nat /\ xxh \in Int
  BY ConstantsOK DEF TypeOK
<1>2. /\ dropped + hist_done - ext = produced_in /\ xxh = produced_in
      /\ hist_done <= hist_len /\ end <= hist_len
  BY <1>1 DEF Counts, FramePos, Pending
<1>3. produced_in' = produced_in + take /\ ext' = ext
  BY DEF EmitBlock
<1>4. xxh' = produced_in'
  <2>1. FramePos(hist_done) = xxh /\ FramePos(end) = produced_in + take
    BY <1>1, <1>2 DEF FramePos
  <2>2. CASE take > 0
    <3>1. xxh' = Digest(xxh, FramePos(hist_done), FramePos(end))
      BY <2>2 DEF EmitBlock, HashedTo
    <3> QED BY <1>3, <2>1, <3>1 DEF Digest
  <2>3. CASE take = 0
    <3>1. xxh' = xxh
      BY <2>3 DEF EmitBlock
    <3> QED BY <1>1, <1>2, <1>3, <2>3, <3>1
  <2> QED BY <2>2, <2>3
<1>5. \E drop \in Int : /\ hist_len' = hist_len - drop /\ hist_done' = end - drop
                        /\ dropped' = dropped + drop
  <2>1. CASE end >= SlideThreshold(slide_mul)
    <3>1. end - Window \in Int
      BY <1>1, <1>2
    <3>2. Slide(end)
      BY <2>1 DEF EmitBlock
    <3> QED BY <3>1, <3>2 DEF Slide
  <2>2. CASE ~(end >= SlideThreshold(slide_mul))
    <3>1. hist_len' = hist_len /\ hist_done' = end /\ dropped' = dropped
      BY <2>2 DEF EmitBlock
    <3> QED BY <1>1, <1>2, <3>1
  <2> QED BY <2>1, <2>2
<1> QED
  BY <1>1, <1>2, <1>3, <1>4, <1>5 DEF Pending, FramePos

\* A block written is appended to the frame, from the place coded so far.
LEMMA EmitFrame ==
  ASSUME TypeOK, Counts, err = None, NEW take \in Nat, NEW last \in BOOLEAN,
         take <= Pending, EmitBlock(take, last), UNCHANGED <<taken, out_off>>
  PROVE  \E b \in Item : /\ b.kind = "block" /\ b.from = produced_in
                         /\ b.to = produced_in + take /\ b.last = last
                         /\ b = Block(produced_in, produced_in + take, last, hist_done,
                                      Min2(Lookahead, hist_len - (hist_done + take)),
                                      produced_in + take <= Window)
                         /\ Frame' = Append(Frame, b)
<1> DEFINE x == Block(FramePos(hist_done), FramePos(hist_done + take), last, hist_done,
                      Min2(Lookahead, hist_len - (hist_done + take)),
                      produced_in + take <= Window)
<1>1. PICK b \in Item : out_acc' = Append(out_acc, b)
  BY EmitTyped
<1>2. out_acc' = Append(out_acc, x)
  BY DEF EmitBlock
<1>3. out_acc \in Seq(Item) /\ taken \in Seq(Item) /\ out_off \in 0 .. Len(out_acc)
  BY LenProperties DEF TypeOK, Counts
<1>4. x = b
  <2> HIDE DEF x
  <2>1. /\ Len(out_acc) \in Nat
        /\ Append(out_acc, b)[Len(out_acc) + 1] = b
        /\ Append(out_acc, x)[Len(out_acc) + 1] = x
    BY <1>3, AppendProperties
  <2> QED BY <1>1, <1>2, <2>1
<1>5. x.kind = "block" /\ x.from = produced_in /\ x.to = produced_in + take /\ x.last = last
  <2>1. FramePos(hist_done) = produced_in
    BY DEF Counts
  <2>2. FramePos(hist_done + take) = produced_in + take
    BY <2>1 DEF FramePos, TypeOK
  <2> QED BY <2>1, <2>2 DEF Block
<1>6. x = Block(produced_in, produced_in + take, last, hist_done,
                Min2(Lookahead, hist_len - (hist_done + take)),
                produced_in + take <= Window)
  <2>1. FramePos(hist_done) = produced_in
    BY DEF Counts
  <2>2. FramePos(hist_done + take) = produced_in + take
    BY <2>1 DEF FramePos, TypeOK
  <2> QED BY <2>1, <2>2, Zenon
<1> HIDE DEF x
<1>7. Frame' = Append(Frame, b)
  BY <1>1, <1>3, FrameAppend DEF Frame
<1> QED BY <1>4, <1>5, <1>6, <1>7

\* Handing output over leaves the frame as it is.
LEMMA KeepFrame ==
  ASSUME TypeOK, Counts, NEW cap \in Nat, TakeOutput(cap)
  PROVE  /\ Frame' = Frame /\ out_off' <= Len(out_acc')
         /\ OutPending' = OutPending - Min2(OutPending, cap)
<1> DEFINE n   == Min2(OutPending, cap)
           off == out_off + n
           rem == SubSeq(out_acc, off + 1, Len(out_acc))
<1>1. /\ out_acc \in Seq(Item) /\ taken \in Seq(Item)
      /\ out_off \in 0 .. Len(out_acc) /\ Len(out_acc) \in Nat
  BY LenProperties DEF TypeOK, Counts
<1>2. off \in out_off .. Len(out_acc) /\ n \in Nat
  BY <1>1 DEF OutPending, Min2
<1>3. rem \in Seq(Item) /\ Len(rem) = Len(out_acc) - off
  BY <1>1, <1>2, Suffix
<1>4. taken' = taken \o SubSeq(out_acc, out_off + 1, off)
  BY DEF TakeOutput
<1>5. /\ SubSeq(out_acc', out_off' + 1, Len(out_acc')) = rem
      /\ out_off' <= Len(out_acc') /\ OutPending' = Len(out_acc) - off
  <2>1. CASE off = Len(out_acc)
    <3>1. out_acc' = <<>> /\ out_off' = 0
      BY <1>1, <1>2, <2>1 DEF TakeOutput
    <3>2. Len(out_acc') = 0 /\ SubSeq(out_acc', out_off' + 1, Len(out_acc')) = << >>
      BY <3>1, SubSeqEmpty
    <3>3. rem = << >>
      <4> DEFINE j == off + 1
      <4>1. j \in Int /\ Len(out_acc) \in Int /\ Len(out_acc) < j
        BY <1>1, <1>2, <2>1
      <4> HIDE DEF j
      <4>2. SubSeq(out_acc, j, Len(out_acc)) = << >>
        BY <4>1, SubSeqEmpty
      <4> QED BY <4>2 DEF j
    <3> QED BY <1>1, <2>1, <3>1, <3>2, <3>3 DEF OutPending
  <2>2. CASE off # Len(out_acc) /\ out_off' # 0
    <3>1. out_acc' = out_acc /\ out_off' = off
      BY <1>1, <1>2, <2>2 DEF TakeOutput
    <3> QED BY <1>1, <1>2, <3>1 DEF OutPending
  <2>3. CASE off # Len(out_acc) /\ out_off' = 0
    <3>1. out_acc' = rem \/ (out_acc' = out_acc /\ off = 0)
      BY <1>1, <1>2, <2>3 DEF TakeOutput
    <3>2. CASE out_acc' = rem
      <4> HIDE DEF rem, off
      <4>1. SubSeq(rem, 1, Len(rem)) = rem
        BY <1>3, SubSeqFull
      <4> QED BY <1>1, <1>2, <1>3, <2>3, <3>2, <4>1 DEF OutPending
    <3>3. CASE out_acc' = out_acc /\ off = 0
      <4>1. SubSeq(out_acc', out_off' + 1, Len(out_acc')) = rem
        BY <2>3, <3>3, Zenon
      <4> HIDE DEF rem, off
      <4> QED BY <1>1, <1>2, <2>3, <3>3, <4>1 DEF OutPending
    <3> QED BY <3>1, <3>2, <3>3
  <2> QED BY <2>1, <2>2, <2>3
<1> HIDE DEF off, n
<1>6. (taken \o SubSeq(out_acc, out_off + 1, off)) \o rem = Frame
  BY <1>1, <1>2, FrameTake DEF Frame
<1>7. Frame' = Frame
  BY <1>4, <1>5, <1>6 DEF Frame
<1> QED BY <1>1, <1>2, <1>5, <1>7 DEF OutPending, off, n

LEMMA BlockFits ==
  ASSUME NEW f \in Seq(Item), NEW b \in Item, WellFormed(f), Len(f) > 0,
         b.kind = "block", b.from <= b.to,
         Len(f) = 1 => b.from = 0,
         Len(f) > 1 => /\ f[Len(f)].kind = "block" /\ ~f[Len(f)].last
                       /\ f[Len(f)].to = b.from
  PROVE  WellFormed(Append(f, b))
<1> DEFINE g == Append(f, b)
<1>1. /\ g \in Seq(Item) /\ Len(g) = Len(f) + 1 /\ Len(f) \in Nat
      /\ g[Len(f) + 1] = b
      /\ \A i \in 1 .. Len(f) : g[i] = f[i]
      /\ DOMAIN g = 1 .. Len(f) + 1 /\ DOMAIN f = 1 .. Len(f)
  BY AppendProperties, LenProperties
<1> HIDE DEF g
<1>2. ASSUME NEW i \in 1 .. Len(f)
      PROVE  /\ g[i] = f[i] /\ (i > 1 => g[i-1] = f[i-1])
             /\ f[i].kind # "checksum"
  <2>1. g[i] = f[i] /\ (i > 1 => g[i-1] = f[i-1])
    BY <1>1
  <2>2. f[i].kind = "checksum" => i = Len(f) /\ i > 2
    BY <1>1 DEF WellFormed
  <2>3. ASSUME f[i].kind = "checksum" PROVE FALSE
    <3>1. i = Len(f) /\ Len(f) > 1
      <4>1. i = Len(f) /\ i > 2 /\ i \in Nat
        BY <2>2, <2>3
      <4> QED BY <4>1
    <3>2. f[i].kind = "block"
      BY <3>1
    <3> QED BY <2>3, <3>2
  <2> QED BY <2>1, <2>3
<1>3. WellFormed(g)
  <2> SUFFICES ASSUME NEW i \in 1 .. Len(f) + 1
               PROVE  /\ (i = 1) <=> (g[i].kind = "header")
                      /\ g[i].kind = "block" =>
                           /\ g[i].from <= g[i].to
                           /\ i = 2 => g[i].from = 0
                           /\ i > 2 => /\ g[i-1].kind = "block" /\ ~g[i-1].last
                                       /\ g[i].from = g[i-1].to
                      /\ g[i].kind # "checksum"
    BY <1>1 DEF WellFormed
  <2>1. CASE i \in 1 .. Len(f)
    BY <1>1, <1>2, <2>1 DEF WellFormed
  <2>2. CASE i = Len(f) + 1
    <3>1. g[i] = b /\ i > 1 /\ i - 1 = Len(f) /\ g[i-1] = f[Len(f)]
      BY <1>1, <2>2
    <3> QED BY <1>1, <2>2, <3>1
  <2> QED BY <1>1, <2>1, <2>2
<1> QED BY <1>3 DEF g

LEMMA ChecksumFits ==
  ASSUME NEW f \in Seq(Item), NEW c \in Item, WellFormed(f), Len(f) > 1,
         c.kind = "checksum",
         f[Len(f)].kind = "block", f[Len(f)].last, c.of = f[Len(f)].to
  PROVE  WellFormed(Append(f, c))
<1> DEFINE g == Append(f, c)
<1>1. /\ g \in Seq(Item) /\ Len(g) = Len(f) + 1 /\ Len(f) \in Nat
      /\ g[Len(f) + 1] = c
      /\ \A i \in 1 .. Len(f) : g[i] = f[i]
      /\ DOMAIN g = 1 .. Len(f) + 1 /\ DOMAIN f = 1 .. Len(f)
  BY AppendProperties, LenProperties
<1> HIDE DEF g
<1>2. ASSUME NEW i \in 1 .. Len(f)
      PROVE  /\ g[i] = f[i] /\ (i > 1 => g[i-1] = f[i-1])
             /\ f[i].kind # "checksum"
  <2>1. g[i] = f[i] /\ (i > 1 => g[i-1] = f[i-1])
    BY <1>1
  <2>2. f[i].kind = "checksum" => i = Len(f)
    BY <1>1 DEF WellFormed
  <2> QED BY <1>1, <2>1, <2>2
<1>3. WellFormed(g)
  <2> SUFFICES ASSUME NEW i \in 1 .. Len(f) + 1
               PROVE  /\ (i = 1) <=> (g[i].kind = "header")
                      /\ g[i].kind = "block" =>
                           /\ g[i].from <= g[i].to
                           /\ i = 2 => g[i].from = 0
                           /\ i > 2 => /\ g[i-1].kind = "block" /\ ~g[i-1].last
                                       /\ g[i].from = g[i-1].to
                      /\ g[i].kind = "checksum" =>
                           /\ i = Len(f) + 1 /\ i > 2
                           /\ g[i-1].kind = "block" /\ g[i-1].last
                           /\ g[i].of = g[i-1].to
    BY <1>1 DEF WellFormed
  <2>1. CASE i \in 1 .. Len(f)
    BY <1>1, <1>2, <2>1 DEF WellFormed
  <2>2. CASE i = Len(f) + 1
    <3>1. g[i] = c /\ i > 2 /\ i - 1 = Len(f) /\ g[i-1] = f[Len(f)]
      BY <1>1, <2>2
    <3> QED BY <1>1, <2>2, <3>1
  <2> QED BY <1>1, <2>1, <2>2
<1> QED BY <1>3 DEF g

-----------------------------------------------------------------------------
(* The frame keeps its shape: one lemma for each way a step changes it. *)

LEMMA ShapeKept ==
  ASSUME FrameShape(Frame), Frame' = Frame,
         UNCHANGED <<checksum, pledged, started, ended, produced_in, last_block_written>>
  PROVE  FrameShape(Frame)'
  BY DEF FrameShape

LEMMA ShapeEmpty ==
  ASSUME Frame' = << >>, started' = FALSE, ended' = FALSE
  PROVE  FrameShape(Frame)'
<1>1. DOMAIN Frame' = {} /\ Len(Frame') = 0
  BY EmptySeq
<1> QED BY <1>1 DEF FrameShape, WellFormed

LEMMA ShapeHeader ==
  ASSUME NEW h \in Item, Frame' = <<h>>, h.kind = "header",
         h.size = pledged', h.checksum = checksum',
         started' = TRUE, ended' = FALSE, produced_in' = 0,
         last_block_written' = FALSE
  PROVE  FrameShape(Frame)'
<1>1. DOMAIN Frame' = {1} /\ Len(Frame') = 1 /\ Frame'[1] = h
  OBVIOUS
<1>2. WellFormed(Frame')
  BY <1>1 DEF WellFormed
<1>3. \A i \in DOMAIN Frame' : Frame'[i].kind = "header"
  BY <1>1
<1> QED BY <1>1, <1>2, <1>3 DEF FrameShape

LEMMA ShapeBlock ==
  ASSUME TypeOK, FrameShape(Frame), started, ~ended, ~last_block_written,
         NEW take \in Nat, NEW b \in Item,
         b.kind = "block", b.from = produced_in, b.to = produced_in + take,
         Frame' = Append(Frame, b),
         produced_in' = produced_in + take,
         last_block_written' = b.last,
         UNCHANGED <<checksum, pledged, started, ended>>,
         b.last => pledged \in {None, produced_in + take}
  PROVE  FrameShape(Frame)'
<1> DEFINE f == Frame
           g == Frame'
<1>1. f \in Seq(Item)
  BY FrameTyped
<1>2. Len(f) > 0
  BY DEF FrameShape
<1>3. /\ Len(f) \in Nat /\ Len(g) = Len(f) + 1 /\ g[Len(f) + 1] = b
      /\ \A i \in 1 .. Len(f) : g[i] = f[i]
      /\ DOMAIN g = 1 .. Len(f) + 1 /\ DOMAIN f = 1 .. Len(f)
  <2> HIDE DEF f
  <2>1. g = Append(f, b) /\ g \in Seq(Item)
    BY <1>1, AppendProperties DEF f
  <2> HIDE DEF g
  <2> QED BY <1>1, <2>1, AppendProperties, LenProperties
<1>4. WellFormed(g)
  <2>1. b.from <= b.to
    BY DEF TypeOK
  <2>2. /\ WellFormed(f) /\ (Len(f) = 1 => b.from = 0)
        /\ Len(f) > 1 => /\ f[Len(f)].kind = "block" /\ ~f[Len(f)].last
                         /\ f[Len(f)].to = b.from
    BY DEF FrameShape
  <2> QED BY <1>1, <1>2, <2>1, <2>2, BlockFits
<1>5. g[1] = f[1] /\ f[1].size = pledged /\ f[1].checksum = checksum
  BY <1>2, <1>3 DEF FrameShape
<1>6. ASSUME NEW i \in DOMAIN g, g[i].kind = "block", g[i].last
      PROVE  g[1].size \in {None, g[i].to}
  <2>1. CASE i \in 1 .. Len(f)
    BY <1>3, <1>5, <1>6, <2>1 DEF FrameShape
  <2>2. CASE i = Len(f) + 1
    BY <1>3, <1>5, <1>6, <2>2
  <2> QED BY <1>3, <2>1, <2>2
<1>7. Len(g) > 1 /\ g[Len(g)] = b
  BY <1>2, <1>3
<1>8. started' /\ ~ended' /\ pledged' = pledged /\ checksum' = checksum
  OBVIOUS
<1> QED BY <1>3, <1>4, <1>5, <1>6, <1>7, <1>8 DEF FrameShape

\* The end of a frame: with or without a checksum.
LEMMA ShapeEnd ==
  ASSUME TypeOK, FrameShape(Frame), ~ended, last_block_written, started,
         NEW c \in Item, c.kind = "checksum", c.of = produced_in,
         Frame' = IF checksum THEN Append(Frame, c) ELSE Frame,
         ended' = TRUE,
         UNCHANGED <<checksum, pledged, started, produced_in, last_block_written>>
  PROVE  FrameShape(Frame)'
<1> DEFINE f == Frame
           g == Frame'
<1>1. f \in Seq(Item)
  BY FrameTyped
<1>2. Len(f) > 1
  <2>1. Len(f) \in Nat
    BY <1>1, LenProperties
  <2>2. Len(f) > 0
    BY DEF FrameShape
  <2>3. Len(f) # 1
    BY Zenon DEF FrameShape
  <2>4. \A n \in Nat : n > 0 /\ n # 1 => n > 1
    OBVIOUS
  <2> QED BY <2>1, <2>2, <2>3, <2>4, Zenon
<1>3. CASE ~checksum
  BY <1>2, <1>3 DEF FrameShape
<1>4. CASE checksum
  <2>1. /\ Len(f) \in Nat /\ Len(g) = Len(f) + 1 /\ g[Len(f) + 1] = c
        /\ \A i \in 1 .. Len(f) : g[i] = f[i]
        /\ DOMAIN g = 1 .. Len(f) + 1 /\ DOMAIN f = 1 .. Len(f)
    <3> HIDE DEF f
    <3>1. g = Append(f, c) /\ g \in Seq(Item)
      BY <1>1, <1>4, AppendProperties DEF f
    <3> HIDE DEF g
    <3> QED BY <1>1, <3>1, AppendProperties, LenProperties
  <2>2. WellFormed(g)
    <3>1. /\ WellFormed(f) /\ f[Len(f)].kind = "block" /\ f[Len(f)].last
          /\ f[Len(f)].to = c.of
      BY <1>2, <1>4 DEF FrameShape
    <3> QED BY <1>1, <1>2, <1>4, <3>1, ChecksumFits
  <2>3. g[1] = f[1] /\ f[1].size = pledged /\ f[1].checksum = checksum
    BY <1>2, <2>1 DEF FrameShape
  <2>4. ASSUME NEW i \in DOMAIN g, g[i].kind = "block", g[i].last
        PROVE  g[1].size \in {None, g[i].to}
    <3>1. CASE i \in 1 .. Len(f)
      BY <2>1, <2>3, <2>4, <3>1 DEF FrameShape
    <3>2. CASE i = Len(f) + 1
      BY <2>1, <2>4, <3>2
    <3> QED BY <2>1, <3>1, <3>2
  <2>5. Len(g) > 1 /\ g[Len(g)] = c
    BY <1>2, <2>1
  <2>6. /\ started' /\ ended' /\ pledged' = pledged /\ checksum'
        /\ c.kind = "checksum" /\ c.of = produced_in' /\ checksum' = checksum
    BY <1>4
  <2>7. started' <=> Len(g) > 0
    BY <2>5, <2>6
  <2>8. Len(g) # 1 /\ Len(g) > 1
    BY <2>1, <2>5
  <2>9. g[1].size = pledged' /\ g[1].checksum = checksum'
    BY <2>3, <2>6
  <2>10. g[Len(g)].kind = "checksum" /\ g[Len(g)].of = produced_in'
    BY <2>5, <2>6
  <2> QED
    BY <2>2, <2>4, <2>6, <2>7, <2>8, <2>9, <2>10, Zenon DEF FrameShape
<1> QED BY <1>3, <1>4

-----------------------------------------------------------------------------
(* The inductive invariant. *)

Rest == Counts /\ Control /\ PledgeInv /\ FrameShape(Frame)

LEMMA NothingPending ==
  ASSUME TypeOK', hist_done' = hist_len' PROVE Pending' = 0
<1>1. hist_len' \in Nat
  BY DEF TypeOK
<1>2. \A n \in Nat : n - n = 0
  OBVIOUS
<1> QED BY <1>1, <1>2, Zenon DEF Pending

\* A frame not begun leaves nothing behind: what the next one starts from.
LEMMA Cleared ==
  ASSUME TypeOK', ClearFrame, pc = "idle", rest = 0,
         UNCHANGED <<pc, rest>>, report' = "none",
         hist_done' = hist_len', FramePos(hist_len)' = 0
  PROVE  Rest'
<1>1. /\ err' = None /\ started' = FALSE /\ ended' = FALSE /\ produced_in' = 0
      /\ last_block_written' = FALSE /\ xxh' = 0
      /\ out_acc' = << >> /\ out_off' = 0 /\ taken' = << >> /\ fed' = 0
  BY Zenon DEF ClearFrame
<1>2. Len(out_acc') = 0 /\ Frame' = << >>
  <2>1. SubSeq(<<>>, 1, 0) = << >>
    BY SubSeqEmpty
  <2>2. << >> \o << >> = << >>
    BY EmptySeq, ConcatEmptySeq
  <2>3. Len(<< >>) = 0 /\ 0 + 1 = 1
    BY EmptySeq
  <2>4. Len(out_acc') = 0 /\ out_off' + 1 = 1
    BY <1>1, <2>3, Zenon
  <2>5. SubSeq(out_acc', out_off' + 1, Len(out_acc')) = << >>
    BY <1>1, <2>1, <2>3, <2>4, Zenon
  <2>6. Frame' = << >>
    BY <1>1, <2>2, <2>5, Zenon DEF Frame
  <2> QED BY <2>3, <2>4, <2>6, Zenon
<1>3. FrameShape(Frame)'
  BY <1>1, <1>2, ShapeEmpty
<1>4. Counts'
  BY <1>1, <1>2 DEF Counts, TypeOK
<1>5. Control'
  <2>1. Pending' = 0
    BY NothingPending
  <2> QED BY <1>1, <2>1, Zenon DEF Control
<1>6. PledgeInv'
  BY <1>1 DEF PledgeInv
<1> QED BY <1>3, <1>4, <1>5, <1>6 DEF Rest

LEMMA ReloadCounts ==
  ASSUME TypeOK, ReloadHistory
  PROVE  hist_done' = hist_len' /\ FramePos(hist_len)' = 0
<1>1. CASE dict = None
  BY <1>1 DEF ReloadHistory, ClearHistory, FramePos
<1>2. CASE dict # None
  <2>1. dict.len \in Nat
    BY <1>2, ConstantsOK DEF TypeOK
  <2> QED BY <1>2, <2>1 DEF ReloadHistory, LoadDictionary, FramePos
<1> QED BY <1>1, <1>2

\* Steps that touch no frame and keep the position of the history's end.
LEMMA Quiet ==
  ASSUME IInv, TypeOK', pc = "idle", ~started,
         UNCHANGED <<checksum, err, phase, output, call, fed, report>>,
         hist_done' = hist_len', FramePos(hist_len)' = 0
  PROVE  Rest'
<1> USE DEF phase, output, call
<1>1. Frame' = Frame
  BY DEF Frame
<1>2. Len(Frame) = 0
  <2>1. Frame \in Seq(Item) /\ ~(Len(Frame) > 0)
    BY FrameTyped DEF IInv, FrameShape
  <2> QED BY <2>1, LenProperties
<1>3. FrameShape(Frame)'
  <2>1. Frame = << >>
    BY <1>2, FrameTyped, EmptySeq DEF IInv
  <2>2. ~ended
    BY DEF IInv, Control
  <2>3. started' = FALSE /\ ended' = FALSE
    BY <2>2 DEF IInv, TypeOK
  <2> QED BY <1>1, <2>1, <2>3, ShapeEmpty
<1>4. Counts'
  BY DEF IInv, Counts, Control, TypeOK
<1>5. Control'
  <2>1. pc' = "idle" /\ rest' = 0 /\ started' = FALSE /\ ended' = FALSE
    BY DEF IInv, Control, TypeOK
  <2>2. /\ produced_in' = 0 /\ last_block_written' = FALSE /\ fed' = 0 /\ xxh' = 0
        /\ report' # "done"
    BY DEF IInv, Control, TypeOK
  <2>3. Pending' = 0
    BY NothingPending
  <2> QED BY <2>1, <2>2, <2>3, Zenon DEF Control
<1>6. PledgeInv'
  BY DEF IInv, PledgeInv
<1> QED BY <1>3, <1>4, <1>5, <1>6 DEF Rest

\* A block coded: the cursor, the hash and the frame move together.
LEMMA EmitStep ==
  ASSUME IInv, TypeOK', pc = "run", ~ended, ~last_block_written,
         NEW take \in Nat, NEW last \in BOOLEAN, take <= Pending,
         last => flush = "End" /\ rest = 0 /\ take = Pending,
         EmitBlock(take, last),
         UNCHANGED <<settings, pledged, err, started, ended, out_off, taken,
                     call, fed, lost, report>>
  PROVE  Rest'
<1> USE DEF settings, call
<1>1. /\ TypeOK /\ Counts /\ Control /\ PledgeInv /\ FrameShape(Frame)
      /\ err = None /\ started
  BY DEF IInv, Control
<1>2. /\ Pending' = Pending - take /\ hist_done' <= hist_len'
      /\ FramePos(hist_len)' = FramePos(hist_len)
      /\ FramePos(hist_done)' = produced_in'
      /\ produced_in' = produced_in + take /\ xxh' = produced_in'
  BY <1>1, EmitCounts
<1>3. last_block_written' = last
  BY DEF EmitBlock
<1>4. Pending \in Nat /\ produced_in \in Nat /\ rest \in Nat
  BY <1>1 DEF Counts, Pending, TypeOK
<1>5. PICK b \in Item : /\ b.kind = "block" /\ b.from = produced_in
                        /\ b.to = produced_in + take /\ b.last = last
                        /\ Frame' = Append(Frame, b)
  BY <1>1, EmitFrame
<1>6. FrameShape(Frame)'
  <2>1. b.last => pledged \in {None, produced_in + take}
    <3>1. ASSUME last, pledged # None PROVE pledged = produced_in + take
      <4>1. flush = "End" /\ rest = 0 /\ take = Pending
        BY <3>1
      <4>2. produced_in + Pending + rest = pledged
        BY <1>1, <3>1, <4>1 DEF PledgeInv
      <4> QED BY <1>4, <4>1, <4>2
    <3> QED BY <1>5, <3>1
  <2>2. UNCHANGED <<checksum, pledged, started, ended>>
    OBVIOUS
  <2> QED BY <1>1, <1>2, <1>3, <1>5, <2>1, <2>2, ShapeBlock
<1>7. Counts'
  <2>1. out_off' <= Len(out_acc')
    <3>1. PICK x \in Item : out_acc' = Append(out_acc, x)
      BY <1>1, EmitTyped
    <3>2. out_off <= Len(out_acc) /\ out_off \in Nat /\ out_off' = out_off
      BY <1>1 DEF Counts, TypeOK
    <3>3. Len(out_acc') = Len(out_acc) + 1 /\ Len(out_acc) \in Nat
      BY <1>1, <3>1, AppendProperties, LenProperties DEF TypeOK
    <3> QED BY <3>2, <3>3
  <2>2. FramePos(hist_len)' = fed'
    BY <1>1, <1>2 DEF Counts
  <2> QED BY <1>2, <2>1, <2>2 DEF Counts
<1>8. Control'
  <2>1. started' /\ err' = None /\ pc' = "run" /\ ~ended'
    BY <1>1
  <2>2. last_block_written' => flush' = "End" /\ rest' = 0 /\ Pending' = 0
    <3>1. ASSUME last PROVE flush' = "End" /\ rest' = 0 /\ Pending' = 0
      BY <1>2, <1>4, <3>1
    <3> QED BY <1>3, <3>1
  <2>3. report' # "done"
    BY <1>1 DEF Control
  <2> QED BY <2>1, <2>2, <2>3 DEF Control
<1>9. PledgeInv'
  BY <1>1, <1>2, <1>4 DEF PledgeInv
<1> QED BY <1>6, <1>7, <1>8, <1>9 DEF Rest

\* A coder that fails leaves the frame as it was written.
LEMMA FailStep ==
  ASSUME IInv, TypeOK', pc = "run", ~ended, ~last_block_written,
         NEW take \in Nat, take <= Pending, CoderFails(take)
  PROVE  Rest'
<1> USE DEF settings, output
<1>1. /\ TypeOK /\ Counts /\ Control /\ PledgeInv /\ FrameShape(Frame) /\ started
  BY DEF IInv, Control
<1>2. Frame' = Frame
  BY DEF CoderFails, Frame
<1>3. FrameShape(Frame)'
  <2>1. UNCHANGED <<checksum, pledged, started, ended, produced_in, last_block_written>>
    BY DEF CoderFails
  <2> QED BY <1>1, <1>2, <2>1, ShapeKept
<1>4. err' # None
  <2>1. err' = "Corruption"
    BY DEF CoderFails
  <2> QED BY <2>1, ConstantsOK
<1>5. Counts'
  BY <1>1, <1>4 DEF Counts, CoderFails, FramePos, Pending, TypeOK
<1>6. Control'
  BY <1>1, <1>4 DEF Control, CoderFails
<1>7. PledgeInv'
  BY <1>1 DEF PledgeInv, CoderFails, Pending, TypeOK
<1> QED BY <1>3, <1>5, <1>6, <1>7 DEF Rest

\* Every step keeps the invariant: one step of the proof per action.
LEMMA InvStep == IInv /\ [Next]_vars => IInv'
<1> SUFFICES ASSUME IInv, [Next]_vars PROVE IInv'
  OBVIOUS
<1>t. TypeOK'
  BY TypeStep DEF IInv
<1> SUFFICES Rest'
  BY <1>t DEF IInv, Rest
<1> USE DEF settings, phase, history, output, call
<1>i. TypeOK /\ Counts /\ Control /\ PledgeInv /\ FrameShape(Frame)
  BY DEF IInv
<1>1. ASSUME NEW n \in InputLens, NEW cap \in OutCaps, NEW f \in Flush,
             StreamEnded(n, cap, f)
      PROVE  Rest'
  <2>1. cap \in Nat /\ OutPending \in Nat
    BY <1>i, ConstantsOK, LenProperties DEF Counts, OutPending, TypeOK
  <2>2. Frame' = Frame /\ out_off' <= Len(out_acc')
        /\ OutPending' = OutPending - Min2(OutPending, cap)
    BY <1>1, <1>i, <2>1, KeepFrame DEF StreamEnded
  <2>3. FrameShape(Frame)'
    BY <1>1, <1>i, <2>2, ShapeKept DEF StreamEnded
  <2>4. Counts'
    BY <1>1, <1>i, <2>2 DEF StreamEnded, Counts, FramePos
  <2>5. AllTaken(cap) => OutPending' = 0
    BY <2>1, <2>2 DEF AllTaken, Min2
  <2>6. Control'
    BY <1>1, <1>i, <2>5 DEF StreamEnded, Control, Pending
  <2>7. PledgeInv'
    BY <1>1, <1>i DEF StreamEnded, PledgeInv, Pending
  <2> QED BY <2>3, <2>4, <2>6, <2>7 DEF Rest
<1>2. ASSUME NEW n \in InputLens, NEW cap \in OutCaps, NEW f \in Flush,
             StreamNextFrame(n, cap, f)
      PROVE  Rest'
  <2> DEFINE h == Header(None, IF write_dict_id THEN dict_id' ELSE None, hist_len' > 0)
  <2>1. /\ out_acc' = <<h>> /\ out_off' = 0 /\ taken' = <<>>
        /\ checksum' = checksum /\ pledged' = None /\ err' = None
        /\ started' = TRUE /\ ended' = FALSE /\ last_block_written' = FALSE
        /\ pc' = "run" /\ report' = "none"
    BY <1>2, Zenon DEF StreamNextFrame
  <2>2. produced_in' = 0 /\ xxh' = 0 /\ fed' = 0
    BY <1>2 DEF StreamNextFrame
  <2>3. hist_done' = hist_len' /\ FramePos(hist_len)' = 0
    BY <1>2, <1>i, ReloadCounts DEF StreamNextFrame
  <2>4. h.kind = "header" /\ h.size = None /\ h.checksum = checksum
    BY DEF Header
  <2>5. h \in Item
    <3>1. (IF write_dict_id THEN dict_id' ELSE None) \in Nat \cup {None}
      BY <1>t DEF TypeOK
    <3>2. checksum \in BOOLEAN /\ (hist_len' > 0) \in BOOLEAN
      BY <1>i DEF TypeOK
    <3>3. None \in Nat \cup {None}
      OBVIOUS
    <3> QED BY <3>1, <3>2, <3>3, HeaderTyped
  <2> HIDE DEF h
  <2>6. Frame' = <<h>> /\ Len(out_acc') = 1
    <3>1. Len(<<h>>) = 1 /\ 0 + 1 = 1 /\ <<h>> \in Seq(Item)
      BY <2>5
    <3>2. SubSeq(<<h>>, 1, Len(<<h>>)) = <<h>>
      BY <3>1, SubSeqFull
    <3>3. << >> \o <<h>> = <<h>>
      BY <3>1, ConcatEmptySeq
    <3> QED BY <2>1, <3>1, <3>2, <3>3, Zenon DEF Frame
  <2>7. FrameShape(Frame)'
    BY <2>1, <2>2, <2>4, <2>5, <2>6, ShapeHeader
  <2>8. Counts'
    BY <2>1, <2>2, <2>3, <2>6, <1>t DEF Counts, TypeOK
  <2>9. Pending' = 0
    BY <1>t, <2>3, NothingPending
  <2>10. Control'
    BY <2>1, <2>2, <2>9, Zenon DEF Control
  <2>11. PledgeInv'
    BY <2>1 DEF PledgeInv
  <2> QED BY <2>7, <2>8, <2>10, <2>11 DEF Rest
<1>3. ASSUME NEW n \in InputLens, NEW cap \in OutCaps, NEW f \in Flush,
             StreamBadPledge(n, cap, f)
      PROVE  Rest'
  <2>1. Frame' = Frame
    BY <1>3 DEF StreamBadPledge, Frame
  <2>2. FrameShape(Frame)'
    BY <1>3, <1>i, <2>1, ShapeKept DEF StreamBadPledge
  <2>3. err' # None
    BY <1>3, ConstantsOK DEF StreamBadPledge
  <2>4. Counts' /\ PledgeInv'
    BY <1>3, <1>i, <2>3 DEF StreamBadPledge, Counts, PledgeInv, FramePos, Pending
  <2>5. Control'
    BY <1>3, <1>i DEF StreamBadPledge, Usable, Control, Pending
  <2> QED BY <2>2, <2>4, <2>5 DEF Rest
<1>4. ASSUME NEW n \in InputLens, NEW cap \in OutCaps, NEW f \in Flush,
             StreamBegin(n, cap, f)
      PROVE  Rest'
  <2>1. n \in Nat /\ pc = "idle" /\ err = None /\ ~ended
    BY <1>4, ConstantsOK DEF StreamBegin, Usable
  <2>2. /\ produced_in \in Nat /\ Pending \in Nat /\ rest = 0
        /\ ~last_block_written
    BY <1>i, <2>1 DEF Control, Counts, Pending, TypeOK
  <2>3. /\ started' = TRUE /\ pc' = "run" /\ rest' = n /\ flush' = f
        /\ report' = "none" /\ Pending' = Pending /\ ended' = ended /\ err' = err
        /\ produced_in' = produced_in /\ last_block_written' = last_block_written
        /\ pledged' = pledged /\ checksum' = checksum
    BY <1>4 DEF StreamBegin, Pending
  <2>4. PledgeInv'
    <3>1. ASSUME pledged # None
          PROVE  /\ produced_in + Pending + n <= pledged
                 /\ f = "End" => produced_in + Pending + n = pledged
      <4>1. pledged \in Nat
        BY <1>i, <3>1 DEF TypeOK
      <4> QED BY <1>4, <2>1, <2>2, <3>1, <4>1 DEF StreamBegin, BreaksPledge
    <3> QED BY <2>3, <3>1 DEF PledgeInv
  <2>5. Control'
    BY <2>1, <2>2, <2>3 DEF Control
  <2>6. CASE started
    <3>1. out_acc' = out_acc /\ Frame' = Frame
      BY <1>4, <2>6 DEF StreamBegin, Frame
    <3>2. FrameShape(Frame)'
      BY <1>4, <1>i, <2>3, <2>6, <3>1, ShapeKept DEF TypeOK
    <3>3. Counts'
      BY <1>4, <1>i, <3>1 DEF StreamBegin, Counts, FramePos
    <3> QED BY <2>4, <2>5, <3>2, <3>3 DEF Rest
  <2>7. CASE ~started
    <3> DEFINE h == Header(pledged, IF write_dict_id THEN dict_id ELSE None, hist_len > 0)
    <3>1. out_acc' = Append(out_acc, h) /\ out_off' = out_off /\ taken' = taken
      BY <1>4, <2>7 DEF StreamBegin
    <3>2. h.kind = "header" /\ h.size = pledged /\ h.checksum = checksum
      BY DEF Header
    <3>3. h \in Item
      <4>1. (IF write_dict_id THEN dict_id ELSE None) \in Nat \cup {None}
        BY <1>i DEF TypeOK
      <4>2. /\ checksum \in BOOLEAN /\ (hist_len > 0) \in BOOLEAN
            /\ pledged \in Nat \cup {None}
        BY <1>i DEF TypeOK
      <4> QED BY <4>1, <4>2, HeaderTyped
    <3> HIDE DEF h
    <3>4. out_acc \in Seq(Item) /\ taken \in Seq(Item) /\ out_off \in 0 .. Len(out_acc)
      BY <1>i, LenProperties DEF TypeOK, Counts
    <3>5. Frame' = Append(Frame, h)
      BY <3>1, <3>3, <3>4, FrameAppend DEF Frame
    <3>6. Frame = << >>
      <4>1. Frame \in Seq(Item) /\ ~(Len(Frame) > 0)
        BY <1>i, <2>7, FrameTyped DEF FrameShape
      <4> QED BY <4>1, EmptySeq, LenProperties
    <3>7. Frame' = <<h>>
      BY <3>5, <3>6
    <3>8. produced_in' = 0 /\ last_block_written' = FALSE
      BY <1>i, <2>2, <2>3, <2>7 DEF Control, TypeOK
    <3>h. ended' = FALSE
      BY <1>i, <2>1, <2>3 DEF TypeOK
    <3>9. FrameShape(Frame)'
      BY <2>3, <3>2, <3>3, <3>7, <3>8, <3>h, ShapeHeader
    <3>10. out_off' <= Len(out_acc')
      <4>1. Len(out_acc') = Len(out_acc) + 1 /\ Len(out_acc) \in Nat
        BY <3>1, <3>3, <3>4, AppendProperties, LenProperties
      <4> QED BY <3>1, <3>4, <4>1
    <3>11. Counts'
      BY <1>4, <1>i, <3>10 DEF StreamBegin, Counts, FramePos
    <3> QED BY <2>4, <2>5, <3>9, <3>11 DEF Rest
  <2> QED BY <2>6, <2>7
<1>5. CASE AbsorbAppend
  <2>1. BlockMax \in Nat /\ Lookahead \in Nat
    BY BlockMaxPositive, ConstantsOK
  <2> DEFINE m == Min2(AbsorbLimit - Pending, rest)
  <2>2. m \in Nat /\ m <= rest
    BY <1>5, <1>i, <2>1 DEF AbsorbAppend, BlockReady, AbsorbLimit, Pending, Min2, TypeOK
  <2> HIDE DEF m
  <2>3. /\ hist_len' = hist_len + m /\ rest' = rest - m /\ fed' = fed + m
        /\ hist_done' = hist_done /\ dropped' = dropped /\ ext' = ext
    BY <1>5 DEF AbsorbAppend, m
  <2>4. Frame' = Frame
    BY <1>5 DEF AbsorbAppend, Frame
  <2>5. FrameShape(Frame)'
    BY <1>5, <1>i, <2>4, ShapeKept DEF AbsorbAppend
  <2>6. Counts'
    BY <1>5, <1>i, <2>2, <2>3 DEF AbsorbAppend, Counts, FramePos, TypeOK
  <2>7. Control'
    BY <1>5, <1>i, <2>2, <2>3 DEF AbsorbAppend, Control, Pending, OutPending, TypeOK
  <2>8. PledgeInv'
    <3>1. produced_in + Pending' + rest' = produced_in + Pending + rest
      BY <1>i, <2>2, <2>3 DEF Pending, TypeOK
    <3>2. UNCHANGED <<pledged, started, produced_in, pc, flush>>
      BY <1>5 DEF AbsorbAppend
    <3> QED BY <1>i, <3>1, <3>2 DEF PledgeInv
  <2> QED BY <2>5, <2>6, <2>7, <2>8 DEF Rest
<1>6. CASE AbsorbBlock
  <2>1. BlockMax \in Nat /\ BlockMax <= Pending
    BY <1>6, <1>i, BlockMaxPositive, ConstantsOK
    DEF AbsorbBlock, BlockReady, AbsorbLimit, Pending, TypeOK
  <2>2. pc = "run" /\ ~ended /\ ~last_block_written
    BY <1>6, <1>i DEF AbsorbBlock, Control, TypeOK
  <2> QED BY <1>6, <1>t, <2>1, <2>2, EmitStep, FailStep DEF AbsorbBlock
<1>7. CASE CodePending
  <2> DEFINE take == Min2(Pending, BlockMax)
             last == flush = "End" /\ take = Pending
  <2>1. take \in Nat /\ take <= Pending /\ Pending > 0
    BY <1>7, <1>i, BlockMaxPositive DEF CodePending, MoreToCode, Pending, Min2, TypeOK
  <2>2. pc = "run" /\ rest = 0 /\ ~ended /\ ~last_block_written
    BY <1>7, <1>i, <2>1 DEF CodePending, Control, TypeOK
  <2>3. last \in BOOLEAN /\ (last => flush = "End" /\ rest = 0 /\ take = Pending)
    BY <2>2
  <2>4. \/ /\ EmitBlock(take, last)
           /\ UNCHANGED <<settings, pledged, err, started, ended, out_off, taken,
                          call, fed, lost, report>>
        \/ CoderFails(take)
    BY <1>7 DEF CodePending
  <2> HIDE DEF take, last
  <2> QED BY <1>t, <2>1, <2>2, <2>3, <2>4, EmitStep, FailStep
<1>8. CASE EmptyLastBlock
  <2>1. 0 \in Nat /\ 0 <= Pending /\ 0 = Pending /\ TRUE \in BOOLEAN
    BY <1>8 DEF EmptyLastBlock
  <2>2. pc = "run" /\ rest = 0 /\ ~ended /\ ~last_block_written /\ flush = "End"
    BY <1>8 DEF EmptyLastBlock
  <2> QED BY <1>8, <1>t, <2>1, <2>2, EmitStep DEF EmptyLastBlock
<1>9. CASE EndFrame
  <2>1. /\ pc = "run" /\ ~ended /\ started /\ last_block_written /\ Pending = 0
        /\ rest = 0 /\ err = None
    BY <1>9, <1>i, BlockMaxPositive DEF EndFrame, MoreToCode, Control, Counts, Pending, TypeOK
  <2>2. /\ ended' = TRUE /\ Pending' = Pending
        /\ UNCHANGED <<checksum, pledged, err, started, produced_in,
             last_block_written, xxh, hist_len, hist_done, ext, dropped, out_off,
             taken, pc, rest, flush, fed, report>>
    BY <1>9 DEF EndFrame, Pending
  <2> DEFINE c == Checksum(xxh)
  <2>3. c \in Item /\ c.kind = "checksum" /\ c.of = produced_in
    BY <1>i, <2>1 DEF Checksum, Item, TypeOK, Counts
  <2>4. out_acc' = IF checksum THEN Append(out_acc, c) ELSE out_acc
    BY <1>9 DEF EndFrame
  <2> HIDE DEF c
  <2>5. out_acc \in Seq(Item) /\ taken \in Seq(Item) /\ out_off \in 0 .. Len(out_acc)
    BY <1>i, LenProperties DEF TypeOK, Counts
  <2>6. Frame' = IF checksum THEN Append(Frame, c) ELSE Frame
    <3>1. CASE checksum
      <4>1. out_acc' = Append(out_acc, c) /\ out_off' = out_off /\ taken' = taken
        BY <2>2, <2>4, <3>1
      <4> QED BY <2>3, <2>5, <3>1, <4>1, FrameAppend DEF Frame
    <3>2. CASE ~checksum
      BY <2>2, <2>4, <3>2 DEF Frame
    <3> QED BY <3>1, <3>2
  <2>7. FrameShape(Frame)'
    BY <1>i, <2>1, <2>2, <2>3, <2>6, ShapeEnd
  <2>8. out_off' <= Len(out_acc')
    <3>1. Len(Append(out_acc, c)) = Len(out_acc) + 1 /\ Len(out_acc) \in Nat
      BY <2>3, <2>5, AppendProperties, LenProperties
    <3>2. Len(out_acc') >= Len(out_acc)
      BY <2>4, <3>1
    <3>3. Len(out_acc') \in Nat /\ out_off' = out_off
      BY <2>2, <2>4, <3>1
    <3> QED BY <2>5, <3>1, <3>2, <3>3
  <2>9. Counts'
    BY <1>i, <2>2, <2>8 DEF Counts, FramePos
  <2>10. Control'
    BY <1>i, <2>1, <2>2 DEF Control
  <2>11. PledgeInv'
    BY <1>i, <2>2 DEF PledgeInv
  <2> QED BY <2>7, <2>9, <2>10, <2>11 DEF Rest
<1>10. CASE Return
  <2>1. outcap \in Nat /\ OutPending \in Nat
    BY <1>i, LenProperties DEF Counts, OutPending, TypeOK
  <2>2. /\ Frame' = Frame /\ out_off' <= Len(out_acc')
        /\ OutPending' = OutPending - Min2(OutPending, outcap)
    BY <1>10, <1>i, <2>1, KeepFrame DEF Return
  <2>3. FrameShape(Frame)'
    BY <1>10, <1>i, <2>2, ShapeKept DEF Return
  <2>4. Counts'
    BY <1>10, <1>i, <2>2 DEF Return, Counts, FramePos
  <2>5. AllTaken(outcap) => OutPending' = 0
    BY <2>1, <2>2 DEF AllTaken, Min2
  <2>6. Control'
    BY <1>10, <1>i, <2>5 DEF Return, Control, Pending
  <2>7. PledgeInv'
    BY <1>10, <1>i DEF Return, PledgeInv, Pending
  <2> QED BY <2>3, <2>4, <2>6, <2>7 DEF Rest
<1>11. CASE Reset
  <2>1. hist_done' = hist_len' /\ FramePos(hist_len)' = 0
    BY <1>11, <1>i, ReloadCounts DEF Reset
  <2>2. pc = "idle" /\ rest = 0
    BY <1>11, <1>i DEF Reset, Control
  <2> QED BY <1>11, <1>t, <2>1, <2>2, Cleared DEF Reset
<1>q. ASSUME pc = "idle", ~started PROVE hist_done = hist_len /\ FramePos(hist_len) = 0
  BY <1>i, <1>q DEF Control, Counts, Pending, TypeOK
<1>12. ASSUME NEW n \in Pledges, SetPledgedSrcSize(n) PROVE Rest'
  <2>1. pc = "idle" /\ rest = 0
    BY <1>12, <1>i DEF SetPledgedSrcSize, Control
  <2>2. CASE NextFrameDue
    <3>1. hist_done' = hist_len' /\ FramePos(hist_len)' = 0
      BY <1>12, <1>i, <2>2, ReloadCounts DEF SetPledgedSrcSize
    <3> QED BY <1>12, <1>t, <2>1, <2>2, <3>1, Cleared DEF SetPledgedSrcSize
  <2>3. CASE ~NextFrameDue
    <3>1. ~started
      BY <1>12, <2>3 DEF SetPledgedSrcSize
    <3>2. hist_done' = hist_len' /\ FramePos(hist_len)' = 0
      BY <1>12, <1>q, <2>1, <2>3, <3>1 DEF SetPledgedSrcSize, FramePos
    <3> QED BY <1>12, <1>t, <2>1, <2>3, <3>1, <3>2, Quiet DEF SetPledgedSrcSize
  <2> QED BY <2>2, <2>3
<1>13. ASSUME NEW d \in Dictionary, SetDictionary(d) PROVE Rest'
  <2>1. pc = "idle" /\ rest = 0 /\ d.len \in Nat
    BY <1>13, <1>i, ConstantsOK DEF SetDictionary, Control
  <2>2. CASE NextFrameDue
    <3>1. hist_done' = hist_len' /\ FramePos(hist_len)' = 0
      BY <1>13, <2>1, <2>2 DEF SetDictionary, LoadDictionary, HistoryInTheWay, FramePos
    <3> QED BY <1>13, <1>t, <2>1, <2>2, <3>1, Cleared DEF SetDictionary, StartOver
  <2>3. CASE ~NextFrameDue
    <3>1. ~started
      BY <1>13, <2>3 DEF SetDictionary, StartOver
    <3>2. hist_done' = hist_len' /\ FramePos(hist_len)' = 0
      BY <1>13, <1>i, <1>q, <2>1, <3>1
      DEF SetDictionary, LoadDictionary, FramePos, TypeOK
    <3> QED
      BY <1>13, <1>t, <2>1, <2>3, <3>1, <3>2, Quiet DEF SetDictionary, StartOver
  <2> QED BY <2>2, <2>3
<1>14. ASSUME NEW n \in PrefixLens, SetPrefix(n) PROVE Rest'
  <2>1. pc = "idle" /\ rest = 0 /\ n \in Nat
    BY <1>14, <1>i, ConstantsOK DEF SetPrefix, Control
  <2>2. CASE NextFrameDue
    <3>1. hist_done' = hist_len' /\ FramePos(hist_len)' = 0
      BY <1>14, <2>1, <2>2 DEF SetPrefix, HistoryInTheWay, FramePos
    <3> QED BY <1>14, <1>t, <2>1, <2>2, <3>1, Cleared DEF SetPrefix, StartOver
  <2>3. CASE ~NextFrameDue
    <3>1. ~started
      BY <1>14, <2>3 DEF SetPrefix, StartOver
    <3>2. hist_done' = hist_len' /\ FramePos(hist_len)' = 0
      BY <1>14, <1>i, <1>q, <2>1, <3>1 DEF SetPrefix, FramePos, TypeOK
    <3> QED
      BY <1>14, <1>t, <2>1, <2>3, <3>1, <3>2, Quiet DEF SetPrefix, StartOver
  <2> QED BY <2>2, <2>3
<1>15. ASSUME NEW b \in BOOLEAN, SetWriteDictId(b) PROVE Rest'
  <2>1. pc = "idle" /\ rest = 0
    BY <1>15, <1>i DEF SetWriteDictId, Control
  <2>2. CASE NextFrameDue
    <3>1. hist_done' = hist_len' /\ FramePos(hist_len)' = 0
      BY <1>15, <1>i, <2>2, ReloadCounts DEF SetWriteDictId
    <3> QED BY <1>15, <1>t, <2>1, <2>2, <3>1, Cleared DEF SetWriteDictId
  <2>3. CASE ~NextFrameDue
    <3>1. ~started
      BY <1>15, <2>3 DEF SetWriteDictId
    <3>2. hist_done' = hist_len' /\ FramePos(hist_len)' = 0
      BY <1>15, <1>q, <2>1, <2>3, <3>1 DEF SetWriteDictId, FramePos
    <3> QED BY <1>15, <1>t, <2>1, <2>3, <3>1, <3>2, Quiet DEF SetWriteDictId
  <2> QED BY <2>2, <2>3
<1>u. ASSUME UNCHANGED <<checksum, pledged, err, phase, history, output, call, fed, report>>
      PROVE  Rest'
  <2>1. Frame' = Frame
    BY <1>u DEF Frame
  <2>2. FrameShape(Frame)'
    BY <1>u, <1>i, <2>1, ShapeKept
  <2>3. Counts' /\ PledgeInv'
    BY <1>u, <1>i DEF Counts, PledgeInv, FramePos, Pending
  <2>4. Control'
    BY <1>u, <1>i DEF Control, Pending, OutPending
  <2> QED BY <2>2, <2>3, <2>4 DEF Rest
<1>16. ASSUME NEW k \in SlideMuls, SetSlideMul(k) PROVE Rest'
  BY <1>16, <1>u DEF SetSlideMul
<1>17. CASE UNCHANGED vars
  BY <1>17, <1>u DEF vars
<1> QED
  BY <1>1, <1>2, <1>3, <1>4, <1>5, <1>6, <1>7, <1>8, <1>9, <1>10, <1>11, <1>12,
     <1>13, <1>14, <1>15, <1>16, <1>17
  DEF Next, Running, Stream

LEMMA InvInit == Init => IInv
<1> SUFFICES ASSUME Init PROVE IInv
  OBVIOUS
<1>1. TypeOK
  BY InitTyped
<1>2. /\ Len(<< >>) = 0 /\ out_acc = << >> /\ out_off = 0 /\ taken = << >>
      /\ started = FALSE /\ ended = FALSE
  BY EmptySeq, Zenon DEF Init
<1>3. Frame = << >>
  <2>1. SubSeq(<<>>, 1, 0) = << >>
    BY SubSeqEmpty
  <2>2. << >> \o << >> = << >>
    BY EmptySeq, ConcatEmptySeq
  <2>3. 0 + 1 = 1
    OBVIOUS
  <2>4. SubSeq(out_acc, out_off + 1, Len(out_acc)) = << >>
    BY <1>2, <2>1, <2>3, Zenon
  <2> QED BY <1>2, <2>2, <2>4, Zenon DEF Frame
<1>4. FrameShape(Frame)
  <2>1. DOMAIN Frame = {} /\ Len(Frame) = 0
    BY <1>3, EmptySeq
  <2> QED BY <1>2, <2>1 DEF FrameShape, WellFormed
<1>5. out_off <= Len(out_acc)
  BY <1>2
<1>6. Counts
  BY <1>5 DEF Init, Counts, FramePos
<1>7. Control /\ PledgeInv
  BY DEF Init, Control, PledgeInv, Pending
<1> QED BY <1>1, <1>4, <1>6, <1>7 DEF IInv

\* The inductive invariant holds in every state.
THEOREM Invariant == Spec => []IInv
<1>1. IInv /\ [Next]_vars => IInv'
  BY InvStep
<1> QED BY <1>1, InvInit, PTL DEF Spec

\* Everything ever written for a frame, wherever the caller's output cursor
\* stands and however input arrived, is a legal beginning of a frame.
THEOREM FrameWellFormedHolds == Spec => []FrameWellFormed
<1>1. IInv => FrameWellFormed
  BY DEF IInv, FrameShape, FrameWellFormed
<1> QED BY <1>1, Invariant, PTL

\* No frame is closed with a content size its header contradicts.
THEOREM PledgeKeptHolds == Spec => []PledgeKept
<1>1. IInv => PledgeKept
  BY DEF IInv, FrameShape, PledgeKept
<1> QED BY <1>1, Invariant, PTL

\* Slides and flushes lose no byte the caller fed.
THEOREM NoInputLostHolds == Spec => []NoInputLost
<1>1. IInv => NoInputLost
  BY DEF IInv, Counts, FramePos, NoInputLost, TypeOK
<1> QED BY <1>1, Invariant, PTL

\* A frame that ended is whole.
LEMMA EndedComplete ==
  ASSUME IInv, ended
  PROVE  CompleteFrame(Frame, fed)
<1> DEFINE f == Frame
<1>1. f \in Seq(Item) /\ Len(f) \in Nat
  BY FrameTyped, LenProperties DEF IInv
<1>2. WellFormed(f) /\ Len(f) > 1 /\ started /\ last_block_written
  BY DEF IInv, FrameShape, Control
<1>3. f[1].size = pledged /\ f[1].checksum = checksum /\ checksum \in BOOLEAN
  BY <1>2 DEF IInv, FrameShape, TypeOK
<1>4. fed = produced_in
  BY DEF IInv, Counts, Control, Pending, FramePos, TypeOK
<1>5. \A i \in DOMAIN f : f[i].kind = "block" /\ f[i].last => f[1].size \in {None, f[i].to}
  BY DEF IInv, FrameShape
<1>6. DOMAIN f = 1 .. Len(f)
  BY <1>1, LenProperties
<1>7. CASE checksum
  <2>1. f[Len(f)].kind = "checksum" /\ f[Len(f)].of = produced_in
    BY <1>7 DEF IInv, FrameShape
  <2>2. Len(f) \in DOMAIN f /\ Len(f) - 1 \in DOMAIN f
    BY <1>1, <1>2, <1>6
  <2>3. /\ f[Len(f)-1].kind = "block" /\ f[Len(f)-1].last
        /\ f[Len(f)-1].to = produced_in
    BY <1>2, <2>1, <2>2 DEF WellFormed
  <2>4. f[1].size \in {None, produced_in}
    BY <1>5, <2>2, <2>3
  <2> QED BY <1>2, <1>3, <1>4, <1>7, <2>1, <2>3, <2>4 DEF CompleteFrame
<1>8. CASE ~checksum
  <2>1. /\ f[Len(f)].kind = "block" /\ f[Len(f)].to = produced_in
        /\ f[Len(f)].last
    BY <1>2, <1>8 DEF IInv, FrameShape
  <2>2. Len(f) \in DOMAIN f
    BY <1>1, <1>2, <1>6
  <2>3. f[1].size \in {None, produced_in}
    BY <1>5, <2>1, <2>2
  <2> QED BY <1>2, <1>3, <1>4, <1>8, <2>1, <2>3 DEF CompleteFrame
<1> QED BY <1>7, <1>8

\* Done is reported only over a whole frame, in the caller's hands.
THEOREM DoneMeansCompleteHolds == Spec => []DoneMeansComplete
<1>1. ASSUME IInv, report = "done" PROVE CompleteFrame(taken, fed)
  <2>1. ended /\ OutPending = 0
    BY <1>1 DEF IInv, Control
  <2>2. /\ out_acc \in Seq(Item) /\ taken \in Seq(Item) /\ Len(out_acc) \in Nat
        /\ out_off \in Nat
    BY <1>1, LenProperties DEF IInv, TypeOK
  <2>3. out_off = Len(out_acc)
    BY <2>1, <2>2 DEF OutPending
  <2>4. SubSeq(out_acc, out_off + 1, Len(out_acc)) = << >>
    <3> DEFINE j == out_off + 1
    <3>1. j \in Int /\ Len(out_acc) \in Int /\ Len(out_acc) < j
      BY <2>2, <2>3
    <3> HIDE DEF j
    <3>2. SubSeq(out_acc, j, Len(out_acc)) = << >>
      BY <3>1, SubSeqEmpty
    <3> QED BY <3>2 DEF j
  <2>5. Frame = taken
    BY <2>2, <2>4, ConcatEmptySeq DEF Frame
  <2> QED BY <1>1, <2>1, <2>5, EndedComplete
<1>2. IInv => DoneMeansComplete
  BY <1>1 DEF DoneMeansComplete
<1> QED BY <1>2, Invariant, PTL

\* A frame left behind for the next one was handed over to the last item.
THEOREM FinishedFramesHandedOverHolds == Spec => []FinishedFramesHandedOver
<1>1. Init => lost = 0
  BY DEF Init
<1>2. IInv /\ lost = 0 /\ [Next]_vars => lost' = 0
  <2> SUFFICES ASSUME IInv, lost = 0, [Next]_vars PROVE lost' = 0
    OBVIOUS
  <2>1. ASSUME NextFrameDue, MoveOn(OutPending) PROVE lost' = 0
    BY <2>1 DEF NextFrameDue, MoveOn
  <2>2. ASSUME NEW n \in InputLens, NEW cap \in OutCaps, NEW f \in Flush,
               StreamNextFrame(n, cap, f)
        PROVE  lost' = 0
    <3>1. OutPending \in Nat /\ cap \in Nat
      BY ConstantsOK, LenProperties DEF IInv, Counts, TypeOK, OutPending
    <3> QED BY <2>2, <3>1 DEF StreamNextFrame, AllTaken, MoveOn, Min2
  <2>3. ASSUME StartOver PROVE lost' = 0
    BY <2>1, <2>3 DEF StartOver
  <2>4. ASSUME NEW n \in Pledges, SetPledgedSrcSize(n) PROVE lost' = 0
    BY <2>1, <2>4 DEF SetPledgedSrcSize
  <2>5. ASSUME NEW b \in BOOLEAN, SetWriteDictId(b) PROVE lost' = 0
    BY <2>1, <2>5 DEF SetWriteDictId
  <2>6. CASE UNCHANGED lost
    BY <2>6
  <2> QED
    BY <2>2, <2>3, <2>4, <2>5, <2>6
    DEF Next, Running, Stream, vars, StreamEnded, StreamBadPledge, StreamBegin,
        AbsorbAppend, AbsorbBlock, CodePending, EmptyLastBlock, EndFrame, Return,
        CoderFails, Reset, SetDictionary, SetPrefix, SetSlideMul
<1>3. IInv /\ lost = 0 => FinishedFramesHandedOver
  BY EndedComplete DEF FinishedFramesHandedOver
<1> DEFINE Kept == lost = 0
<1>4. /\ (Init => Kept) /\ (IInv /\ Kept /\ [Next]_vars => Kept')
      /\ (IInv /\ Kept => FinishedFramesHandedOver)
  BY <1>1, <1>2, <1>3
<1> HIDE DEF Kept
<1> QED BY <1>4, Invariant, PTL DEF Spec

-----------------------------------------------------------------------------
(***************************************************************************)
(* The history buffer: what a frame starts from, how much of the input a   *)
(* block can look back at, how much memory the history takes, and that the *)
(* blocks are those of the compressor that appends a call's whole input    *)
(* (WholeAppend).                                                          *)
(*                                                                         *)
(* The argument.  A step either starts the compressor over (StartsOver),   *)
(* and then the history is what the settings alone decide, or it is a      *)
(* call's, and then the cursor hist_done moves by a block, and back to one *)
(* window when it has reached the threshold (BlockMoves).  HistInv says    *)
(* what lies between: no history was dropped unless a full window of it is *)
(* left, the coded history is below every threshold unless it is all       *)
(* external, and what is pending fits a block and its lookahead.           *)
(***************************************************************************)

\* The history a frame starts with.
FreshHistory ==
  /\ dropped = 0 /\ hist_len = hist_done /\ hist_len = ext
  /\ dict # None => /\ hist_len = dict.len
                    /\ dict_id = IF dict.id # 0 THEN dict.id ELSE None
                    /\ coder = IF dict.trained THEN "dict" ELSE "fresh"
                    /\ tables = "primed"
  /\ dict = None => /\ dict_id = None /\ coder = "fresh"
                    /\ hist_len > 0 => tables = "primed"
                    /\ tables # "touched"

\* The compressor is between frames: nothing written, nothing fed.
StartsOver ==
  /\ pc = "idle" /\ pc' = "idle" /\ rest = 0 /\ rest' = 0
  /\ flush' = flush /\ slide_mul' = slide_mul
  /\ err' \in {None, err}
  /\ started' = FALSE /\ ended' = FALSE /\ produced_in' = 0
  /\ last_block_written' = FALSE /\ xxh' = 0
  /\ out_acc' = <<>> /\ out_off' = 0
  /\ Frame' = <<>>
  /\ FreshHistory'

\* What every block is coded against, and what is pending, while no call has
\* failed.
Reach ==
  err = None =>
    /\ hist_done < 2 * Window + SlideExtraMax \/ hist_done <= ext
    /\ Pending <= AbsorbLimit
    /\ dropped = 0 \/ hist_done >= Window

HistInv == FreshStart /\ NothingHeldBack /\ BoundedHistory /\ Reach /\ FullWindow

-----------------------------------------------------------------------------
(* Steps that start the compressor over. *)

LEMMA Reloaded ==
  ASSUME TypeOK, ReloadHistory, dict' = dict
  PROVE  FreshHistory'
<1>1. CASE dict = None
  BY <1>1 DEF ReloadHistory, ClearHistory, FreshHistory
<1>2. CASE dict # None
  <2>1. dict.len \in Nat
    BY <1>2, ConstantsOK DEF TypeOK
  <2>2. /\ hist_len' = dict.len /\ hist_done' = dict.len /\ ext' = dict.len
        /\ dropped' = 0
    BY <1>2, <2>1 DEF ReloadHistory, LoadDictionary
  <2>3. /\ dict_id' = IF dict.id # 0 THEN dict.id ELSE None
        /\ tables' = "primed"
        /\ coder' = IF dict.trained THEN "dict" ELSE "fresh"
    BY <1>2, Zenon DEF ReloadHistory, LoadDictionary
  <2> QED BY <1>2, <2>2, <2>3 DEF FreshHistory
<1> QED BY <1>1, <1>2

LEMMA Written ==
  ASSUME NEW t \in Seq(Item), NEW o \in Seq(Item), NEW k \in Nat
  PROVE  t \o SubSeq(o, k + 1, Len(o)) \in Seq(Item)
<1> DEFINE s == SubSeq(o, k + 1, Len(o))
<1>1. s \in Seq(Item)
  BY ElementOfSeq, LenProperties, SubSeqProperties
<1> HIDE DEF s
<1>2. t \o s \in Seq(Item)
  BY <1>1, ConcatProperties
<1> QED BY <1>2 DEF s

LEMMA NoFrame ==
  ASSUME TypeOK', FrameShape(Frame)', started' = FALSE
  PROVE  Frame' = <<>>
<1>1. Frame' \in Seq(Item)
  BY Written DEF TypeOK, Frame
<1>2. ~(Len(Frame') > 0)
  BY DEF FrameShape
<1> QED BY <1>1, <1>2, LenProperties, EmptySeq

\* Whatever starts over, a reset, a setting made on a finished frame or before
\* the first call, leaves the same state behind.
LEMMA Over ==
  ASSUME IInv, IInv', FreshStart, pc = "idle", call' = call,
         slide_mul' = slide_mul, FreshHistory',
         ClearFrame \/ (~started /\ UNCHANGED <<err, phase, output>>)
  PROVE  StartsOver
<1> USE DEF call, phase, output
<1>1. rest = 0
  BY DEF IInv, Control
<1>2. /\ err' \in {None, err}
      /\ started' = FALSE /\ ended' = FALSE /\ produced_in' = 0
      /\ last_block_written' = FALSE /\ xxh' = 0
      /\ out_acc' = <<>> /\ out_off' = 0
  <2>1. CASE ClearFrame
    BY <2>1, Zenon DEF ClearFrame
  <2>2. CASE ~started /\ UNCHANGED <<err, phase, output>>
    <3>1. /\ started = FALSE /\ ended = FALSE /\ produced_in = 0
          /\ last_block_written = FALSE /\ xxh = 0
          /\ out_acc = <<>> /\ out_off = 0
      BY <2>2 DEF FreshStart, IInv, TypeOK
    <3> QED BY <2>2, <3>1, Zenon
  <2> QED BY <2>1, <2>2
<1>3. Frame' = <<>>
  BY <1>2, NoFrame DEF IInv
<1> QED BY <1>1, <1>2, <1>3 DEF StartsOver

LEMMA ResetStartsOver ==
  ASSUME IInv, IInv', FreshStart, Reset
  PROVE  StartsOver
<1>1. FreshHistory'
  BY Reloaded DEF Reset, settings, IInv
<1> QED BY <1>1, Over DEF Reset, settings

LEMMA PledgeStartsOver ==
  ASSUME IInv, IInv', FreshStart, NEW n \in Pledges, SetPledgedSrcSize(n)
  PROVE  StartsOver
<1>1. pc = "idle" /\ UNCHANGED <<settings, call>>
  BY DEF SetPledgedSrcSize
<1>2. CASE NextFrameDue
  <2>1. FreshHistory'
    BY <1>1, <1>2, Reloaded DEF SetPledgedSrcSize, settings, IInv
  <2> QED BY <1>1, <1>2, <2>1, Over DEF SetPledgedSrcSize, settings
<1>3. CASE ~NextFrameDue
  <2>1. ~started /\ UNCHANGED <<err, phase, history, output>>
    BY <1>3 DEF SetPledgedSrcSize
  <2>2. FreshHistory'
    BY <1>1, <2>1 DEF FreshStart, FreshHistory, history, settings
  <2> QED BY <1>1, <2>1, <2>2, Over DEF settings
<1> QED BY <1>2, <1>3

LEMMA DictIdStartsOver ==
  ASSUME IInv, IInv', FreshStart, NEW b \in BOOLEAN, SetWriteDictId(b)
  PROVE  StartsOver
<1>1. pc = "idle" /\ UNCHANGED <<slide_mul, dict, call>>
  BY DEF SetWriteDictId
<1>2. CASE NextFrameDue
  <2>1. FreshHistory'
    BY <1>1, <1>2, Reloaded DEF SetWriteDictId, IInv
  <2> QED BY <1>1, <1>2, <2>1, Over DEF SetWriteDictId
<1>3. CASE ~NextFrameDue
  <2>1. ~started /\ UNCHANGED <<err, phase, history, output>>
    BY <1>3 DEF SetWriteDictId
  <2>2. FreshHistory'
    BY <1>1, <2>1 DEF FreshStart, FreshHistory, history
  <2> QED BY <1>1, <2>1, <2>2, Over
<1> QED BY <1>2, <1>3

LEMMA StartOverFrame ==
  ASSUME StartOver
  PROVE  ClearFrame \/ (~started /\ UNCHANGED <<err, phase, output>>)
  BY DEF StartOver

\* A dictionary is loaded over what is left of the last frame only when there
\* is nothing left: the history is empty and the coder fresh.
LEMMA NothingInTheWay ==
  ASSUME IInv, FreshStart, StartOver, ~HistoryInTheWay
  PROVE  /\ hist_len = 0 /\ hist_done = 0 /\ ext = 0 /\ dropped = 0
         /\ dict = None /\ dict_id = None /\ coder = "fresh"
<1>1. ~started /\ dict = None /\ hist_len = 0
  BY DEF StartOver, HistoryInTheWay, IInv, TypeOK
<1> QED BY <1>1 DEF FreshStart

LEMMA DictionaryStartsOver ==
  ASSUME IInv, IInv', FreshStart, NEW d \in Dictionary, SetDictionary(d)
  PROVE  StartsOver
<1>1. /\ pc = "idle" /\ StartOver /\ UNCHANGED <<slide_mul, call>>
      /\ dict' = d /\ d # None /\ d.len \in Nat
      /\ LoadDictionary(d, HistoryInTheWay)
  BY ConstantsOK DEF SetDictionary
<1>2. /\ hist_len' = d.len /\ hist_done' = d.len /\ ext' = d.len /\ dropped' = 0
      /\ coder' = IF d.trained THEN "dict" ELSE "fresh"
  <2>1. CASE HistoryInTheWay
    BY <1>1, <2>1 DEF LoadDictionary
  <2>2. CASE ~HistoryInTheWay
    BY <1>1, <2>2, NothingInTheWay DEF LoadDictionary
  <2> QED BY <2>1, <2>2
<1>3. dict_id' = (IF d.id # 0 THEN d.id ELSE None) /\ tables' = "primed"
  BY <1>1 DEF LoadDictionary
<1>4. FreshHistory'
  BY <1>1, <1>2, <1>3 DEF FreshHistory
<1> QED BY <1>1, <1>4, StartOverFrame, Over

LEMMA PrefixStartsOver ==
  ASSUME IInv, IInv', FreshStart, NEW n \in PrefixLens, SetPrefix(n)
  PROVE  StartsOver
<1>1. /\ pc = "idle" /\ StartOver /\ UNCHANGED <<slide_mul, call>>
      /\ dict' = None /\ n \in Nat /\ tables' = "primed"
  BY ConstantsOK DEF SetPrefix
<1>2. /\ hist_len' = n /\ hist_done' = n /\ ext' = n /\ dropped' = 0
      /\ coder' = "fresh" /\ dict_id' = None
  <2>1. CASE HistoryInTheWay
    BY <1>1, <2>1 DEF SetPrefix
  <2>2. CASE ~HistoryInTheWay
    BY <1>1, <2>2, NothingInTheWay DEF SetPrefix
  <2> QED BY <2>1, <2>2
<1>3. FreshHistory'
  BY <1>1, <1>2 DEF FreshHistory
<1> QED BY <1>1, <1>3, StartOverFrame, Over

-----------------------------------------------------------------------------
(* Steps of a call. *)

\* The cursor after a block, and the block: coded at the cursor, against all
\* the history before it, and the window slides back when it is time.
BlockMoves(take, last) ==
  LET end  == hist_done + take
      drop == IF end >= SlideThreshold(slide_mul) THEN end - Window ELSE 0
  IN
  /\ Frame' = Append(Frame,
       Block(produced_in, produced_in + take, last, hist_done,
             Min2(Lookahead, hist_len - end), produced_in + take <= Window))
  /\ hist_len' = hist_len - drop /\ hist_done' = end - drop
  /\ dropped' = dropped + drop
  /\ produced_in' = produced_in + take
  /\ UNCHANGED <<settings, pledged, err, started, ended, call, ext, fed>>

LEMMA Emits ==
  ASSUME IInv, pc = "run", NEW take \in Nat, NEW last \in BOOLEAN, take <= Pending,
         EmitBlock(take, last),
         UNCHANGED <<settings, pledged, err, started, ended, out_off, taken,
                     call, fed, lost, report>>
  PROVE  BlockMoves(take, last)
<1>1. TypeOK /\ Counts /\ err = None
  BY DEF IInv, Control
<1>2. Frame' = Append(Frame,
        Block(produced_in, produced_in + take, last, hist_done,
              Min2(Lookahead, hist_len - (hist_done + take)),
              produced_in + take <= Window))
  BY <1>1, EmitFrame
<1>3. produced_in' = produced_in + take /\ ext' = ext
  BY DEF EmitBlock
<1> DEFINE end  == hist_done + take
           drop == IF end >= SlideThreshold(slide_mul) THEN end - Window ELSE 0
<1>4. /\ hist_len' = hist_len - drop /\ hist_done' = end - drop
      /\ dropped' = dropped + drop
  <2>1. CASE end >= SlideThreshold(slide_mul)
    BY <2>1 DEF EmitBlock, Slide
  <2>2. CASE ~(end >= SlideThreshold(slide_mul))
    <3>1. hist_len' = hist_len /\ hist_done' = end /\ dropped' = dropped
      BY <2>2 DEF EmitBlock
    <3> QED BY <1>1, <2>2, <3>1 DEF TypeOK
  <2> QED BY <2>1, <2>2
<1> QED BY <1>2, <1>3, <1>4 DEF BlockMoves

\* A call codes a block, or the coder fails.
LEMMA AbsorbBlockMoves ==
  ASSUME IInv, AbsorbBlock
  PROVE  /\ BlockMax \in Nat \ {0} /\ Pending >= AbsorbLimit
         /\ BlockMax <= Pending /\ ~ended
         /\ BlockMoves(BlockMax, FALSE) \/ CoderFails(BlockMax)
<1>1. BlockMax \in Nat \ {0} /\ Lookahead \in Nat
  BY BlockMaxPositive, ConstantsOK
<1>2. Pending \in Nat /\ Pending >= BlockMax + Lookahead /\ pc = "run" /\ rest > 0
  BY DEF AbsorbBlock, BlockReady, AbsorbLimit, IInv, Counts, Pending, TypeOK
<1>3. BlockMax <= Pending
  BY <1>1, <1>2
<1>4. ~ended
  BY <1>2 DEF IInv, Control, TypeOK
<1>5. BlockMoves(BlockMax, FALSE) \/ CoderFails(BlockMax)
  BY <1>1, <1>2, <1>3, Emits DEF AbsorbBlock
<1> QED BY <1>1, <1>2, <1>3, <1>4, <1>5 DEF AbsorbLimit

LEMMA CodePendingMoves ==
  ASSUME IInv, CodePending
  PROVE  LET take == Min2(Pending, BlockMax) IN
         /\ BlockMax \in Nat \ {0} /\ Pending \in Nat /\ rest = 0 /\ ~ended
         /\ take \in Nat /\ take <= Pending /\ take <= BlockMax
         /\ BlockMoves(take, flush = "End" /\ take = Pending) \/ CoderFails(take)
<1> DEFINE take == Min2(Pending, BlockMax)
           last == flush = "End" /\ take = Pending
<1>1. BlockMax \in Nat \ {0}
  BY BlockMaxPositive
<1>2. pc = "run" /\ rest = 0 /\ MoreToCode
  BY DEF CodePending
<1>3. Pending \in Nat /\ Pending > 0
  BY <1>1, <1>2 DEF MoreToCode, IInv, Counts, Pending, TypeOK
<1>4. take \in Nat /\ take <= Pending /\ take <= BlockMax
  BY <1>1, <1>3 DEF Min2
<1>5. ~ended
  BY <1>3 DEF IInv, Control
<1>6. last \in BOOLEAN
  OBVIOUS
<1>7. \/ /\ EmitBlock(take, last)
         /\ UNCHANGED <<settings, pledged, err, started, ended, out_off, taken,
                        call, fed, lost, report>>
      \/ CoderFails(take)
  BY DEF CodePending
<1> HIDE DEF take, last
<1>8. BlockMoves(take, last) \/ CoderFails(take)
  BY <1>2, <1>4, <1>6, <1>7, Emits
<1> QED BY <1>1, <1>2, <1>3, <1>4, <1>5, <1>8 DEF take, last

LEMMA EmptyLastMoves ==
  ASSUME IInv, EmptyLastBlock
  PROVE  BlockMoves(0, TRUE) /\ Pending = 0
<1>1. 0 \in Nat /\ TRUE \in BOOLEAN
  OBVIOUS
<1>2. /\ pc = "run" /\ Pending = 0 /\ EmitBlock(0, TRUE)
      /\ UNCHANGED <<settings, pledged, err, started, ended, out_off, taken,
                     call, fed, lost, report>>
  BY DEF EmptyLastBlock
<1>3. 0 <= Pending
  BY <1>2
<1> QED BY <1>1, <1>2, <1>3, Emits

\* The header of a frame: the first call's, and the next frame's.
LEMMA BeginFrame ==
  ASSUME IInv, NEW n \in InputLens, NEW cap \in OutCaps, NEW f \in Flush,
         StreamBegin(n, cap, f)
  PROVE  IF started THEN Frame' = Frame
         ELSE /\ Frame = <<>>
              /\ \E h \in Item : h.kind = "header" /\ Frame' = <<h>>
<1>1. TypeOK /\ Counts /\ FrameShape(Frame)
  BY DEF IInv
<1>2. CASE started
  BY <1>2 DEF StreamBegin, Frame
<1>3. CASE ~started
  <2> DEFINE h == Header(pledged, IF write_dict_id THEN dict_id ELSE None, hist_len > 0)
  <2>1. out_acc' = Append(out_acc, h) /\ out_off' = out_off /\ taken' = taken
    BY <1>3 DEF StreamBegin
  <2>2. h.kind = "header"
    BY DEF Header
  <2>3. h \in Item
    <3>1. (IF write_dict_id THEN dict_id ELSE None) \in Nat \cup {None}
      BY <1>1 DEF TypeOK
    <3>2. /\ checksum \in BOOLEAN /\ (hist_len > 0) \in BOOLEAN
          /\ pledged \in Nat \cup {None}
      BY <1>1 DEF TypeOK
    <3> QED BY <3>1, <3>2, HeaderTyped
  <2> HIDE DEF h
  <2>4. out_acc \in Seq(Item) /\ taken \in Seq(Item) /\ out_off \in 0 .. Len(out_acc)
    BY <1>1, LenProperties DEF TypeOK, Counts
  <2>5. Frame' = Append(Frame, h)
    BY <2>1, <2>3, <2>4, FrameAppend DEF Frame
  <2>6. Frame = <<>>
    <3>1. Frame \in Seq(Item) /\ ~(Len(Frame) > 0)
      BY <1>1, <1>3, FrameTyped DEF FrameShape
    <3> QED BY <3>1, EmptySeq, LenProperties
  <2>7. Frame' = <<h>>
    BY <2>5, <2>6
  <2> QED BY <1>3, <2>2, <2>3, <2>6, <2>7
<1> QED BY <1>2, <1>3

LEMMA NextFrameBegins ==
  ASSUME IInv, IInv', NEW n \in InputLens, NEW cap \in OutCaps, NEW f \in Flush,
         StreamNextFrame(n, cap, f)
  PROVE  /\ FreshHistory'
         /\ \E h \in Item : h.kind = "header" /\ Frame' = <<h>>
<1> DEFINE h == Header(None, IF write_dict_id THEN dict_id' ELSE None, hist_len' > 0)
<1>1. FreshHistory'
  BY Reloaded DEF StreamNextFrame, IInv, settings
<1>2. out_acc' = <<h>> /\ out_off' = 0 /\ taken' = <<>>
  BY DEF StreamNextFrame
<1>3. h.kind = "header"
  BY DEF Header
<1>4. h \in Item
  <2>1. (IF write_dict_id THEN dict_id' ELSE None) \in Nat \cup {None}
    BY DEF IInv, TypeOK
  <2>2. checksum \in BOOLEAN /\ (hist_len' > 0) \in BOOLEAN
    BY DEF IInv, TypeOK
  <2>3. None \in Nat \cup {None}
    OBVIOUS
  <2> QED BY <2>1, <2>2, <2>3, HeaderTyped
<1> HIDE DEF h
<1>5. Frame' = <<h>>
  <2>1. Len(<<h>>) = 1 /\ 0 + 1 = 1 /\ <<h>> \in Seq(Item)
    BY <1>4
  <2>2. SubSeq(<<h>>, 1, Len(<<h>>)) = <<h>>
    BY <2>1, SubSeqFull
  <2>3. <<>> \o <<h>> = <<h>>
    BY <2>1, ConcatEmptySeq
  <2> QED BY <1>2, <2>1, <2>2, <2>3, Zenon DEF Frame
<1> QED BY <1>1, <1>3, <1>4, <1>5

\* The end of the frame.
LEMMA EndAppends ==
  ASSUME IInv, EndFrame
  PROVE  /\ started /\ last_block_written /\ Pending = 0 /\ err = None
         /\ xxh = produced_in /\ Checksum(xxh) \in Item
         /\ Frame' = IF checksum THEN Append(Frame, Checksum(xxh)) ELSE Frame
<1>1. TypeOK /\ Counts /\ Control
  BY DEF IInv
<1>2. pc = "run" /\ rest = 0 /\ flush = "End" /\ ~MoreToCode /\ ~ended
  BY DEF EndFrame
<1>3. started /\ err = None
  BY <1>1, <1>2 DEF Control
<1>4. Pending = 0
  BY <1>1, <1>2, BlockMaxPositive DEF MoreToCode, Counts, Pending, TypeOK
<1>5. last_block_written
  BY <1>4 DEF EndFrame
<1>6. xxh = produced_in /\ Checksum(xxh) \in Item
  BY <1>1, <1>3 DEF Counts, Checksum, Item, TypeOK
<1> DEFINE c == Checksum(xxh)
<1>7. /\ out_acc' = (IF checksum THEN Append(out_acc, c) ELSE out_acc)
      /\ out_off' = out_off /\ taken' = taken
  BY DEF EndFrame
<1>8. out_acc \in Seq(Item) /\ taken \in Seq(Item) /\ out_off \in 0 .. Len(out_acc)
  BY <1>1, LenProperties DEF TypeOK, Counts
<1>9. c \in Item
  BY <1>6
<1> HIDE DEF c
<1>10. Frame' = IF checksum THEN Append(Frame, c) ELSE Frame
  <2>1. CASE checksum
    BY <1>7, <1>8, <1>9, <2>1, FrameAppend DEF Frame
  <2>2. CASE ~checksum
    BY <1>7, <2>2 DEF Frame
  <2> QED BY <2>1, <2>2
<1> QED BY <1>3, <1>4, <1>5, <1>6, <1>10 DEF c

\* Handing output over, between calls or at the end of one.
LEMMA TakeKeeps ==
  ASSUME IInv, NEW cap \in Nat, TakeOutput(cap)
  PROVE  Frame' = Frame
  BY KeepFrame DEF IInv

-----------------------------------------------------------------------------
(* The invariant, part by part. *)

\* A step either starts over or leaves started as it is or set.
LEMMA FreshStep ==
  ASSUME IInv, IInv', FreshStart, [Next]_vars
  PROVE  FreshStart'
<1>1. StartsOver => FreshStart'
  <2>1. ASSUME StartsOver PROVE FreshStart'
    BY <2>1, Zenon DEF StartsOver, FreshStart, FreshHistory
  <2> QED BY <2>1
<1>2. started' => FreshStart'
  BY DEF FreshStart
<1>3. ASSUME UNCHANGED <<phase, history, output, dict>>
      PROVE  FreshStart'
  BY <1>3 DEF phase, history, output, FreshStart
<1>4. pc = "run" \/ ended => started
  BY DEF IInv, Control
<1>5. ASSUME NEW n \in InputLens, NEW cap \in OutCaps, NEW f \in Flush,
             Stream(n, cap, f)
      PROVE  FreshStart'
  <2>1. CASE StreamEnded(n, cap, f)
    BY <1>2, <1>4, <2>1 DEF StreamEnded, phase
  <2>2. CASE StreamNextFrame(n, cap, f)
    BY <1>2, <2>2 DEF StreamNextFrame
  <2>3. CASE StreamBadPledge(n, cap, f)
    BY <1>3, <2>3 DEF StreamBadPledge, settings
  <2>4. CASE StreamBegin(n, cap, f)
    BY <1>2, <2>4 DEF StreamBegin
  <2> QED BY <1>5, <2>1, <2>2, <2>3, <2>4 DEF Stream
<1>6. CASE Running
  <2>1. pc = "run"
    BY <1>6 DEF Running, AbsorbAppend, AbsorbBlock, CodePending, EmptyLastBlock,
                EndFrame, Return
  <2>2. started' = started
    BY <1>6 DEF Running, AbsorbAppend, AbsorbBlock, CodePending, EmptyLastBlock,
                EndFrame, Return, CoderFails, phase
  <2> QED BY <1>2, <1>4, <2>1, <2>2
<1>7. CASE \E k \in SlideMuls : SetSlideMul(k)
  BY <1>3, <1>7 DEF SetSlideMul
<1>8. CASE UNCHANGED vars
  BY <1>3, <1>8 DEF vars, settings
<1>9. CASE Reset \/ (\E n \in Pledges : SetPledgedSrcSize(n))
            \/ (\E b \in BOOLEAN : SetWriteDictId(b))
  BY <1>1, <1>9, ResetStartsOver, PledgeStartsOver, DictIdStartsOver
<1>10. CASE (\E d \in Dictionary : SetDictionary(d)) \/ (\E n \in PrefixLens : SetPrefix(n))
  BY <1>1, <1>10, DictionaryStartsOver, PrefixStartsOver
<1> QED BY <1>5, <1>6, <1>7, <1>8, <1>9, <1>10 DEF Next

\* Nothing is held back: only the end of a call, and an error, leave a frame
\* open between calls.
LEMMA HeldBackStep ==
  ASSUME IInv, IInv', FreshStart, NothingHeldBack, [Next]_vars
  PROVE  NothingHeldBack'
<1>1. StartsOver => NothingHeldBack'
  BY DEF StartsOver, NothingHeldBack
<1>2. pc' = "run" => NothingHeldBack'
  BY DEF NothingHeldBack
<1>3. err' # None => NothingHeldBack'
  BY DEF NothingHeldBack
<1>4. ASSUME UNCHANGED <<pc, started, err, hist_len, hist_done, flush>>
      PROVE  NothingHeldBack'
  BY <1>4 DEF NothingHeldBack, Pending
<1>5. ASSUME NEW n \in InputLens, NEW cap \in OutCaps, NEW f \in Flush,
             Stream(n, cap, f)
      PROVE  NothingHeldBack'
  <2>1. CASE StreamEnded(n, cap, f)
    BY <1>4, <2>1 DEF StreamEnded, phase, history, call
  <2>2. CASE StreamNextFrame(n, cap, f) \/ StreamBegin(n, cap, f)
    BY <1>2, <2>2 DEF StreamNextFrame, StreamBegin
  <2>3. CASE StreamBadPledge(n, cap, f)
    <3>1. err' = "ContentSizeMismatch"
      BY <2>3 DEF StreamBadPledge
    <3> QED BY <1>3, <3>1, ConstantsOK
  <2> QED BY <1>5, <2>1, <2>2, <2>3 DEF Stream
<1>6. CASE AbsorbAppend \/ EndFrame
  BY <1>2, <1>6 DEF AbsorbAppend, EndFrame, call
<1>7. ASSUME NEW take \in Nat, CoderFails(take) PROVE NothingHeldBack'
  <2>1. err' = "Corruption"
    BY <1>7 DEF CoderFails
  <2> QED BY <1>3, <2>1, ConstantsOK
<1>8. ASSUME pc = "run", NEW take, NEW last, BlockMoves(take, last) PROVE NothingHeldBack'
  BY <1>2, <1>8 DEF BlockMoves, call
<1>9. CASE AbsorbBlock
  BY <1>7, <1>8, <1>9, AbsorbBlockMoves DEF AbsorbBlock
<1>10. CASE CodePending
  <2>1. pc = "run"
    BY <1>10 DEF CodePending
  <2> DEFINE take == Min2(Pending, BlockMax)
  <2>2. take \in Nat /\ (BlockMoves(take, flush = "End" /\ take = Pending) \/ CoderFails(take))
    BY <1>10, CodePendingMoves
  <2> HIDE DEF take
  <2> QED BY <1>7, <1>8, <2>1, <2>2
<1>11. CASE EmptyLastBlock
  BY <1>8, <1>11, EmptyLastMoves DEF EmptyLastBlock
<1>12. CASE Return
  <2>1. Pending \in Nat /\ BlockMax \in Nat
    BY BlockMaxPositive DEF IInv, Counts, Pending, TypeOK
  <2>2. Pending' = Pending /\ flush' = flush /\ ~MoreToCode
    BY <1>12 DEF Return, history, Pending
  <2>3. ~(Pending >= BlockMax) /\ (flush # "Continue" => ~(Pending > 0))
    BY <2>2 DEF MoreToCode
  <2> QED BY <2>1, <2>2, <2>3 DEF NothingHeldBack
<1>13. CASE \E k \in SlideMuls : SetSlideMul(k)
  BY <1>4, <1>13 DEF SetSlideMul, phase, history, call
<1>14. CASE UNCHANGED vars
  BY <1>4, <1>14 DEF vars, phase, history, call
<1>15. CASE Reset \/ (\E n \in Pledges : SetPledgedSrcSize(n))
             \/ (\E b \in BOOLEAN : SetWriteDictId(b))
  BY <1>1, <1>15, ResetStartsOver, PledgeStartsOver, DictIdStartsOver
<1>16. CASE (\E d \in Dictionary : SetDictionary(d)) \/ (\E n \in PrefixLens : SetPrefix(n))
  BY <1>1, <1>16, DictionaryStartsOver, PrefixStartsOver
<1> QED
  BY <1>5, <1>6, <1>9, <1>10, <1>11, <1>12, <1>13, <1>14, <1>15, <1>16
  DEF Next, Running

\* What Reach and BoundedHistory are about.
Numbers ==
  /\ Window \in Nat /\ Window > 0 /\ SlideExtraMax \in Nat /\ Lookahead \in Nat
  /\ BlockMax \in Nat /\ BlockMax > 0 /\ AbsorbLimit = BlockMax + Lookahead
  /\ hist_len \in Nat /\ hist_done \in Nat /\ ext \in Nat /\ dropped \in Nat

LEMMA NumbersOK == TypeOK => Numbers
  BY ConstantsOK, BlockMaxPositive DEF TypeOK, Numbers, AbsorbLimit

LEMMA SameLimits == AbsorbLimit' = AbsorbLimit /\ BlockMax' = BlockMax
  BY DEF AbsorbLimit, BlockMax, Min2

\* The threshold lies between two windows and the bound.
LEMMA ThresholdBound ==
  ASSUME TypeOK
  PROVE  /\ SlideThreshold(slide_mul) \in Nat
         /\ SlideThreshold(slide_mul) >= 2 * Window
         /\ SlideThreshold(slide_mul) <= 2 * Window + SlideExtraMax
<1> DEFINE extra == (slide_mul - 2) * Window
<1>1. slide_mul - 2 \in Nat /\ Window \in Nat /\ SlideExtraMax \in Nat
  BY ConstantsOK DEF TypeOK
<1>2. extra \in Nat
  BY <1>1, SMT
<1>3. Min2(extra, SlideExtraMax) \in Nat /\ Min2(extra, SlideExtraMax) <= SlideExtraMax
  BY <1>1, <1>2 DEF Min2
<1> HIDE DEF extra
<1>4. SlideThreshold(slide_mul) = 2 * Window + Min2(extra, SlideExtraMax)
  BY DEF SlideThreshold, extra
<1> QED BY <1>1, <1>3, <1>4

\* The blocks of a call keep the history within its bounds.
LEMMA BlockReach ==
  ASSUME IInv, Reach, BoundedHistory, err = None, NEW take \in Nat, NEW last,
         take <= Pending, BlockMoves(take, last)
  PROVE  Reach' /\ BoundedHistory'
<1> DEFINE end  == hist_done + take
           drop == IF end >= SlideThreshold(slide_mul) THEN end - Window ELSE 0
<1>1. Numbers /\ hist_done <= hist_len
  BY NumbersOK DEF IInv, Counts
<1>2. /\ hist_done < 2 * Window + SlideExtraMax \/ hist_done <= ext
      /\ hist_len - hist_done <= BlockMax + Lookahead
      /\ dropped = 0 \/ hist_done >= Window
  BY <1>1 DEF Reach, Pending, Numbers
<1>3. /\ hist_len' = hist_len - drop /\ hist_done' = end - drop
      /\ dropped' = dropped + drop /\ ext' = ext
  BY DEF BlockMoves
<1>4. end \in Nat /\ end <= hist_len
  BY <1>1 DEF Pending, Numbers
<1>5. /\ SlideThreshold(slide_mul) \in Nat
      /\ SlideThreshold(slide_mul) >= 2 * Window
      /\ SlideThreshold(slide_mul) <= 2 * Window + SlideExtraMax
  BY ThresholdBound DEF IInv
<1>6. CASE end >= SlideThreshold(slide_mul)
  <2>1. drop = end - Window /\ end = hist_done + take
    BY <1>6
  <2> HIDE DEF end, drop
  <2>2. /\ hist_done' = Window /\ hist_len' <= hist_len /\ hist_len' \in Nat
        /\ hist_len' - hist_done' <= BlockMax + Lookahead
    BY <1>1, <1>2, <1>3, <1>4, <1>5, <1>6, <2>1 DEF Numbers
  <2>3. Reach'
    <3>1. Pending' <= AbsorbLimit'
      BY <1>1, <2>2, SameLimits, Zenon DEF Pending, Numbers
    <3>2. Window < 2 * Window + SlideExtraMax /\ Window >= Window
      BY <1>1 DEF Numbers
    <3> QED BY <2>2, <3>1, <3>2, Zenon DEF Reach
  <2>4. BoundedHistory'
    <3>1. \A x \in Nat : x - Window <= BlockMax + Lookahead
                          => x < 2 * Window + SlideExtraMax + BlockMax + Lookahead
      BY <1>1 DEF Numbers
    <3>2. hist_len' \in Nat /\ hist_len' - Window <= BlockMax + Lookahead
      BY <2>2
    <3>3. hist_len' < 2 * Window + SlideExtraMax + BlockMax + Lookahead
      BY <3>1, <3>2, Zenon
    <3> QED BY <3>3, SameLimits DEF BoundedHistory
  <2> QED BY <2>3, <2>4
<1>7. CASE ~(end >= SlideThreshold(slide_mul))
  <2>1. hist_len' = hist_len /\ hist_done' = end /\ dropped' = dropped
    BY <1>1, <1>3, <1>4, <1>7 DEF Numbers
  <2>2. end < 2 * Window + SlideExtraMax
    BY <1>1, <1>4, <1>5, <1>7 DEF Numbers
  <2>3. hist_len - end <= BlockMax + Lookahead
    BY <1>1, <1>2, <1>4 DEF Numbers
  <2>4. dropped = 0 \/ end >= Window
    BY <1>1, <1>2, <1>4 DEF Numbers
  <2>5. Reach'
    BY <1>1, <2>1, <2>2, <2>3, <2>4, SameLimits DEF Reach, Pending, Numbers
  <2>6. BoundedHistory'
    BY <1>3, <2>1 DEF BoundedHistory
  <2> QED BY <2>5, <2>6
<1> QED BY <1>6, <1>7

LEMMA ReachStep ==
  ASSUME IInv, IInv', FreshStart, Reach, BoundedHistory, [Next]_vars
  PROVE  Reach' /\ BoundedHistory'
<1>n. Numbers /\ hist_done <= hist_len /\ hist_len' \in Nat /\ hist_done' \in Nat
  BY NumbersOK DEF IInv, Counts, TypeOK
<1>1. ASSUME FreshHistory' PROVE Reach' /\ BoundedHistory'
  <2>1. dropped' = 0 /\ hist_len' = hist_done' /\ hist_len' = ext'
    BY <1>1 DEF FreshHistory
  <2>2. Pending' = 0
    BY <2>1, NothingPending DEF IInv
  <2>3. 0 <= AbsorbLimit'
    BY <1>n, SameLimits DEF Numbers
  <2>4. hist_done' <= ext'
    BY <1>n, <2>1
  <2>5. Reach'
    BY <2>1, <2>2, <2>3, <2>4 DEF Reach
  <2>6. hist_len' <= ext' + BlockMax + Lookahead
    <3>1. \A x \in Nat : x <= x + BlockMax + Lookahead
      BY <1>n DEF Numbers
    <3> QED BY <1>n, <2>1, <3>1, Zenon
  <2>7. BoundedHistory'
    BY <2>6, SameLimits DEF BoundedHistory
  <2> QED BY <2>5, <2>7
<1>2. ASSUME UNCHANGED <<hist_len, ext>>, err' # None
      PROVE  Reach' /\ BoundedHistory'
  BY <1>2 DEF Reach, BoundedHistory
<1>3. ASSUME UNCHANGED <<hist_len, ext, hist_done, dropped, err>>
      PROVE  Reach' /\ BoundedHistory'
  BY <1>3 DEF Reach, BoundedHistory, Pending
<1>4. pc = "run" => err = None
  BY DEF IInv, Control
<1>5. ASSUME NEW n \in InputLens, NEW cap \in OutCaps, NEW f \in Flush,
             Stream(n, cap, f)
      PROVE  Reach' /\ BoundedHistory'
  <2>1. CASE StreamEnded(n, cap, f) \/ StreamBegin(n, cap, f)
    BY <1>3, <2>1 DEF StreamEnded, StreamBegin, history
  <2>2. CASE StreamNextFrame(n, cap, f)
    BY <1>1, <2>2, NextFrameBegins
  <2>3. CASE StreamBadPledge(n, cap, f)
    <3>1. err' = "ContentSizeMismatch" /\ UNCHANGED <<hist_len, ext>>
      BY <2>3 DEF StreamBadPledge, history
    <3> QED BY <1>2, <3>1, ConstantsOK
  <2> QED BY <1>5, <2>1, <2>2, <2>3 DEF Stream
<1>6. CASE AbsorbAppend
  <2> DEFINE m == Min2(AbsorbLimit - Pending, rest)
  <2>1. err = None /\ ~(Pending >= AbsorbLimit) /\ rest \in Nat
    BY <1>4, <1>6 DEF AbsorbAppend, BlockReady, IInv, TypeOK
  <2>2. m \in Nat /\ Pending + m <= BlockMax + Lookahead
    BY <1>n, <2>1 DEF Pending, Min2, Numbers
  <2> HIDE DEF m
  <2>3. /\ hist_len' = hist_len + m
        /\ UNCHANGED <<hist_done, ext, dropped, err>>
    BY <1>6 DEF AbsorbAppend, m
  <2>4. hist_done < 2 * Window + SlideExtraMax \/ hist_done <= ext
    BY <2>1 DEF Reach
  <2>5. hist_len' - hist_done <= BlockMax + Lookahead
    BY <1>n, <2>2, <2>3 DEF Pending, Numbers
  <2>6. Reach'
    BY <1>n, <2>1, <2>3, <2>5 DEF Reach, Pending, Numbers, AbsorbLimit
  <2>7. BoundedHistory'
    BY <1>n, <2>3, <2>4, <2>5 DEF BoundedHistory, Numbers
  <2> QED BY <2>6, <2>7
<1>7. ASSUME NEW take \in Nat, CoderFails(take) PROVE Reach' /\ BoundedHistory'
  <2>1. err' = "Corruption" /\ UNCHANGED <<hist_len, ext>>
    BY <1>7 DEF CoderFails
  <2> QED BY <1>2, <2>1, ConstantsOK
<1>9. CASE AbsorbBlock
  <2>1. pc = "run"
    BY <1>9 DEF AbsorbBlock
  <2> QED BY <1>4, <1>7, <1>9, <2>1, AbsorbBlockMoves, BlockReach
<1>10. CASE CodePending
  <2> DEFINE take == Min2(Pending, BlockMax)
  <2>1. pc = "run"
    BY <1>10 DEF CodePending
  <2>2. /\ take \in Nat /\ take <= Pending
        /\ BlockMoves(take, flush = "End" /\ take = Pending) \/ CoderFails(take)
    BY <1>10, CodePendingMoves
  <2> HIDE DEF take
  <2> QED BY <1>4, <1>7, <2>1, <2>2, BlockReach
<1>11. CASE EmptyLastBlock
  <2>1. pc = "run" /\ 0 \in Nat /\ 0 <= Pending
    BY <1>11 DEF EmptyLastBlock
  <2> QED BY <1>4, <1>11, <2>1, EmptyLastMoves, BlockReach
<1>12. CASE EndFrame \/ Return
  BY <1>3, <1>12 DEF EndFrame, Return, history
<1>13. CASE \E k \in SlideMuls : SetSlideMul(k)
  BY <1>3, <1>13 DEF SetSlideMul, history
<1>14. CASE UNCHANGED vars
  BY <1>3, <1>14 DEF vars, history
<1>15. CASE Reset \/ (\E n \in Pledges : SetPledgedSrcSize(n))
             \/ (\E b \in BOOLEAN : SetWriteDictId(b))
  BY <1>1, <1>15, ResetStartsOver, PledgeStartsOver, DictIdStartsOver DEF StartsOver
<1>16. CASE (\E d \in Dictionary : SetDictionary(d)) \/ (\E n \in PrefixLens : SetPrefix(n))
  BY <1>1, <1>16, DictionaryStartsOver, PrefixStartsOver DEF StartsOver
<1> QED
  BY <1>5, <1>6, <1>9, <1>10, <1>11, <1>12, <1>13, <1>14, <1>15, <1>16
  DEF Next, Running

\* A block has a window behind it.
LEMMA BlockHasWindow ==
  ASSUME IInv, Reach, FullWindow, err = None, NEW take \in Nat, NEW last \in BOOLEAN,
         take <= Pending, BlockMoves(take, last)
  PROVE  FullWindow'
<1> DEFINE b == Block(produced_in, produced_in + take, last, hist_done,
                      Min2(Lookahead, hist_len - (hist_done + take)),
                      produced_in + take <= Window)
<1>1. Frame' = Append(Frame, b) /\ ext' = ext
  BY DEF BlockMoves
<1>2. Numbers /\ dropped + hist_done - ext = produced_in
  BY NumbersOK DEF IInv, Counts, FramePos
<1>3. b.avail = hist_done /\ b.from = produced_in
  BY DEF Block
<1>4. hist_done >= Min2(Window, ext + produced_in)
  <2>1. dropped = 0 \/ hist_done >= Window
    BY DEF Reach
  <2>2. ext + produced_in = dropped + hist_done
    BY <1>2 DEF Numbers
  <2> QED BY <1>2, <2>1, <2>2 DEF Min2, Numbers
<1> HIDE DEF b
<1>5. Frame \in Seq(Item) /\ Len(Frame) \in Nat
  BY FrameTyped, LenProperties DEF IInv
<1>6. /\ DOMAIN Frame' = 1 .. Len(Frame) + 1 /\ DOMAIN Frame = 1 .. Len(Frame)
      /\ \A i \in 1 .. Len(Frame) : Frame'[i] = Frame[i]
      /\ Frame'[Len(Frame) + 1] = b
  <2> DEFINE f == Frame
             g == Append(f, b)
  <2>1. Frame' = g
    BY <1>1
  <2>2. f \in Seq(Item)
    BY <1>5
  <2> HIDE DEF f
  <2>3. /\ DOMAIN g = 1 .. Len(f) + 1 /\ DOMAIN f = 1 .. Len(f)
        /\ \A i \in 1 .. Len(f) : g[i] = f[i]
        /\ g[Len(f) + 1] = b
    BY <2>2
  <2> QED BY <2>1, <2>3 DEF f
<1>7. ASSUME NEW i \in 1 .. Len(Frame) + 1, Frame'[i].kind = "block"
      PROVE  Frame'[i].avail >= Min2(Window, ext + Frame'[i].from)
  <2>1. CASE i \in 1 .. Len(Frame)
    BY <1>6, <1>7, <2>1 DEF FullWindow
  <2>2. CASE i = Len(Frame) + 1
    BY <1>3, <1>4, <1>6, <2>2
  <2> QED BY <1>5, <2>1, <2>2
<1> QED BY <1>1, <1>6, <1>7 DEF FullWindow

LEMMA WindowStep ==
  ASSUME IInv, IInv', FreshStart, Reach, FullWindow, [Next]_vars
  PROVE  FullWindow'
<1>1. ASSUME Frame' = <<>> PROVE FullWindow'
  <2>1. DOMAIN Frame' = {}
    BY <1>1, EmptySeq
  <2> QED BY <2>1 DEF FullWindow
<1>2. ASSUME Frame' = Frame, ext' = ext PROVE FullWindow'
  BY <1>2 DEF FullWindow
<1>3. ASSUME NEW h \in Item, h.kind = "header", Frame' = <<h>> PROVE FullWindow'
  <2>1. DOMAIN Frame' = {1} /\ Frame'[1] = h
    BY <1>3
  <2> QED BY <1>3, <2>1 DEF FullWindow
<1>4. pc = "run" => err = None
  BY DEF IInv, Control
<1>5. ASSUME NEW n \in InputLens, NEW cap \in OutCaps, NEW f \in Flush,
             Stream(n, cap, f)
      PROVE  FullWindow'
  <2>0. cap \in Nat
    BY ConstantsOK
  <2>1. CASE StreamEnded(n, cap, f)
    BY <1>2, <2>0, <2>1, TakeKeeps DEF StreamEnded, history
  <2>2. CASE StreamNextFrame(n, cap, f)
    BY <1>3, <2>2, NextFrameBegins
  <2>3. CASE StreamBadPledge(n, cap, f)
    BY <1>2, <2>3 DEF StreamBadPledge, history, output, Frame
  <2>4. CASE StreamBegin(n, cap, f)
    <3>1. ext' = ext
      BY <2>4 DEF StreamBegin, history
    <3> QED BY <1>2, <1>3, <2>4, <3>1, BeginFrame
  <2> QED BY <1>5, <2>1, <2>2, <2>3, <2>4 DEF Stream
<1>6. CASE AbsorbAppend
  BY <1>2, <1>6 DEF AbsorbAppend, output, Frame
<1>7. ASSUME NEW take \in Nat, CoderFails(take) PROVE FullWindow'
  BY <1>2, <1>7 DEF CoderFails, output, Frame
<1>9. CASE AbsorbBlock
  <2>1. pc = "run" /\ FALSE \in BOOLEAN
    BY <1>9 DEF AbsorbBlock
  <2> QED BY <1>4, <1>7, <1>9, <2>1, AbsorbBlockMoves, BlockHasWindow
<1>10. CASE CodePending
  <2> DEFINE take == Min2(Pending, BlockMax)
             last == flush = "End" /\ take = Pending
  <2>1. pc = "run" /\ last \in BOOLEAN
    BY <1>10 DEF CodePending
  <2>2. take \in Nat /\ take <= Pending /\ (BlockMoves(take, last) \/ CoderFails(take))
    BY <1>10, CodePendingMoves
  <2> HIDE DEF take, last
  <2> QED BY <1>4, <1>7, <2>1, <2>2, BlockHasWindow
<1>11. CASE EmptyLastBlock
  <2>1. pc = "run" /\ 0 \in Nat /\ 0 <= Pending /\ TRUE \in BOOLEAN
    BY <1>11 DEF EmptyLastBlock
  <2> QED BY <1>4, <1>11, <2>1, EmptyLastMoves, BlockHasWindow
<1>12. CASE EndFrame
  <2> DEFINE c == Checksum(xxh)
             f == Frame
             g == Frame'
  <2>1. c \in Item /\ c.kind = "checksum" /\ f \in Seq(Item) /\ ext' = ext
    BY <1>12, EndAppends, FrameTyped DEF Checksum, IInv, EndFrame, history
  <2>2. g = f \/ g = Append(f, c)
    BY <1>12, EndAppends
  <2>3. CASE g = f
    BY <1>2, <2>1, <2>3
  <2>4. CASE g = Append(f, c)
    <3> HIDE DEF c, f, g
    <3>1. /\ DOMAIN g = 1 .. Len(f) + 1 /\ DOMAIN f = 1 .. Len(f) /\ Len(f) \in Nat
          /\ \A i \in 1 .. Len(f) : g[i] = f[i]
          /\ g[Len(f) + 1] = c
      BY <2>1, <2>4
    <3>2. ASSUME NEW i \in DOMAIN g, g[i].kind = "block"
          PROVE  i \in DOMAIN f /\ g[i] = f[i]
      BY <2>1, <3>1, <3>2
    <3> QED BY <2>1, <3>2 DEF f, g, FullWindow
  <2> QED BY <2>2, <2>3, <2>4
<1>13. CASE Return
  <2>1. outcap \in Nat
    BY DEF IInv, TypeOK
  <2> QED BY <1>2, <1>13, <2>1, TakeKeeps DEF Return, history
<1>14. CASE \E k \in SlideMuls : SetSlideMul(k)
  BY <1>2, <1>14 DEF SetSlideMul, history, output, Frame
<1>15. CASE UNCHANGED vars
  BY <1>2, <1>15 DEF vars, history, output, Frame
<1>16. CASE Reset \/ (\E n \in Pledges : SetPledgedSrcSize(n))
             \/ (\E b \in BOOLEAN : SetWriteDictId(b))
  BY <1>1, <1>16, ResetStartsOver, PledgeStartsOver, DictIdStartsOver DEF StartsOver
<1>17. CASE (\E d \in Dictionary : SetDictionary(d)) \/ (\E n \in PrefixLens : SetPrefix(n))
  BY <1>1, <1>17, DictionaryStartsOver, PrefixStartsOver DEF StartsOver
<1> QED
  BY <1>5, <1>6, <1>9, <1>10, <1>11, <1>12, <1>13, <1>14, <1>15, <1>16, <1>17
  DEF Next, Running

-----------------------------------------------------------------------------
LEMMA HistInit == Init => HistInv
<1> SUFFICES ASSUME Init PROVE HistInv
  OBVIOUS
<1>1. IInv /\ Numbers
  BY InvInit, NumbersOK DEF IInv
<1>2. /\ dict = None /\ err = None /\ started = FALSE /\ ended = FALSE
      /\ last_block_written = FALSE /\ coder = "fresh" /\ tables = "fresh"
      /\ dict_id = None /\ out_acc = <<>>
  BY Zenon DEF Init
<1>3. /\ produced_in = 0 /\ xxh = 0 /\ out_off = 0 /\ dropped = 0
      /\ hist_len = 0 /\ hist_done = 0 /\ ext = 0
  BY DEF Init
<1>4. FreshStart
  BY <1>2, <1>3 DEF FreshStart
<1>5. NothingHeldBack
  BY <1>2 DEF NothingHeldBack
<1>6. Reach /\ BoundedHistory
  BY <1>1, <1>3 DEF Reach, BoundedHistory, Numbers, Pending
<1>7. Frame = <<>>
  <2>1. Frame \in Seq(Item) /\ ~(Len(Frame) > 0)
    BY <1>1, <1>2, FrameTyped DEF IInv, FrameShape
  <2> QED BY <2>1, EmptySeq, LenProperties
<1>8. FullWindow
  <2>1. DOMAIN Frame = {}
    BY <1>7, EmptySeq
  <2> QED BY <2>1 DEF FullWindow
<1> QED BY <1>4, <1>5, <1>6, <1>8 DEF HistInv

\* The history invariant holds in every state.
THEOREM HistoryInvariant == Spec => [](IInv /\ HistInv)
<1>1. IInv /\ HistInv /\ [Next]_vars => IInv' /\ HistInv'
  <2>1. IInv /\ [Next]_vars => IInv'
    BY InvStep
  <2> QED BY <2>1, FreshStep, HeldBackStep, ReachStep, WindowStep DEF HistInv
<1>2. Init => IInv /\ HistInv
  BY InvInit, HistInit
<1> QED BY <1>1, <1>2, PTL DEF Spec

\* Every block is coded against a full window, or against all there has been.
THEOREM FullWindowHolds == Spec => []FullWindow
<1>1. HistInv => FullWindow
  BY DEF HistInv
<1> QED BY <1>1, HistoryInvariant, PTL

\* The history buffer stays within two windows, the slide's extra room and a
\* block with its lookahead, however much input a call brings.
THEOREM BoundedHistoryHolds == Spec => []BoundedHistory
<1>1. HistInv => BoundedHistory
  BY DEF HistInv
<1> QED BY <1>1, HistoryInvariant, PTL

\* What a frame starts from is decided by the settings alone.
THEOREM FreshStartHolds == Spec => []FreshStart
<1>1. HistInv => FreshStart
  BY DEF HistInv
<1> QED BY <1>1, HistoryInvariant, PTL

\* Between calls no full block waits, and none at all after a flush.
THEOREM NothingHeldBackHolds == Spec => []NothingHeldBack
<1>1. HistInv => NothingHeldBack
  BY DEF HistInv
<1> QED BY <1>1, HistoryInvariant, PTL

-----------------------------------------------------------------------------
(* The refinement: the input a running call has yet to absorb counts as      *)
(* appended already.  Absorbing is then a stutter, and everything else a     *)
(* step of WholeAppend.                                                      *)

LEMMA RefinesInit == Init => WA!Init
<1> SUFFICES ASSUME Init PROVE WA!Init
  OBVIOUS
<1>1. Frame = <<>>
  <2>1. Frame \in Seq(Item) /\ ~(Len(Frame) > 0)
    BY InvInit, FrameTyped DEF IInv, FrameShape, Init
  <2> QED BY <2>1, EmptySeq, LenProperties
<1>2. /\ hist_len + rest = 0 /\ hist_done = 0 /\ ext = 0 /\ dropped = 0
      /\ slide_mul \in 2 .. 8
  BY ConstantsOK DEF Init
<1>3. flush = "Continue" /\ (pc = "run") = FALSE /\ ended = FALSE /\ (err # None) = FALSE
  BY DEF Init
<1> QED BY <1>1, <1>2, <1>3, Zenon DEF WA!Init

LEMMA SameThreshold == WA!SlideThreshold = SlideThreshold(slide_mul)
  BY DEF WA!SlideThreshold, SlideThreshold, WA!Min2, Min2

LEMMA SameBlockMax == WA!BlockMax = BlockMax
  BY DEF WA!BlockMax, BlockMax, WA!Min2, Min2

\* A block of the compressor is the block of the other one, which sees all of
\* the call's input behind it: a full block has its lookahead absorbed.
LEMMA RefinesCode ==
  ASSUME IInv, pc = "run", NEW take \in Nat, NEW last \in BOOLEAN, take <= Pending,
         BlockMoves(take, last),
         rest > 0 => hist_len - (hist_done + take) >= Lookahead
  PROVE  WA!Code(take, last)
<1>1. Numbers /\ rest \in Nat /\ produced_in \in Nat
  BY NumbersOK DEF IInv, TypeOK
<1>2. PICK end \in Nat : end = hist_done + take
  BY <1>1 DEF Numbers
<1>3. PICK drop \in Int : drop = IF end >= SlideThreshold(slide_mul) THEN end - Window ELSE 0
  <2>1. end - Window \in Int /\ 0 \in Int
    BY <1>1 DEF Numbers
  <2> QED BY <2>1, Zenon
<1>4. /\ Frame' = Append(Frame,
           Block(produced_in, produced_in + take, last, hist_done,
                 Min2(Lookahead, hist_len - end), produced_in + take <= Window))
      /\ hist_len' = hist_len - drop /\ hist_done' = end - drop
      /\ dropped' = dropped + drop
  BY <1>2, <1>3 DEF BlockMoves
<1>5. UNCHANGED <<ext, slide_mul, flush, pc, rest, ended, err>>
  BY DEF BlockMoves, settings, call
<1>6. WA!FramePos(hist_done) = produced_in /\ WA!FramePos(end) = produced_in + take
  <2>1. dropped + hist_done - ext = produced_in
    BY DEF IInv, Counts, Control, FramePos
  <2> QED BY <1>1, <1>2, <2>1 DEF WA!FramePos, Numbers
<1>7. Min2(Lookahead, hist_len - end) = WA!Min2(Lookahead, (hist_len + rest) - end)
  <2>1. CASE rest = 0
    BY <1>1, <2>1 DEF Min2, WA!Min2, Numbers
  <2>2. CASE rest > 0
    <3>1. hist_len - end >= Lookahead
      BY <1>2, <2>2
    <3>2. (hist_len + rest) - end >= Lookahead
      BY <1>1, <3>1 DEF Numbers
    <3>3. hist_len - end \in Int /\ (hist_len + rest) - end \in Int
      BY <1>1 DEF Numbers
    <3> QED BY <1>1, <3>1, <3>2, <3>3 DEF Min2, WA!Min2, Numbers
  <2> QED BY <1>1, <2>1, <2>2
<1>8. Frame' = Append(Frame,
        [kind |-> "block", from |-> WA!FramePos(hist_done), to |-> WA!FramePos(end),
         last |-> last, avail |-> hist_done,
         ahead |-> WA!Min2(Lookahead, (hist_len + rest) - end),
         far |-> WA!FramePos(end) <= Window])
  BY <1>4, <1>6, <1>7, Zenon DEF Block
<1>9. hist_len' + rest' = (hist_len + rest) - drop
  <2>1. (hist_len - drop) + rest = (hist_len + rest) - drop
    BY <1>1 DEF Numbers
  <2> QED BY <1>4, <1>5, <2>1, Zenon
<1>10. CASE end >= WA!SlideThreshold
  <2>1. drop = end - Window
    BY <1>3, <1>10, SameThreshold
  <2> QED
    BY <1>2, <1>4, <1>5, <1>8, <1>9, <1>10, <2>1, Zenon DEF WA!Code
<1>11. CASE ~(end >= WA!SlideThreshold)
  <2>1. drop = 0
    BY <1>3, <1>11, SameThreshold
  <2> QED
    BY <1>2, <1>4, <1>5, <1>8, <1>9, <1>11, <2>1, Zenon DEF WA!Code
<1> QED BY <1>10, <1>11

LEMMA RefinesFail ==
  ASSUME IInv, IInv', ~ended, NEW take \in Nat, CoderFails(take)
  PROVE  WA!Next
<1>1. err' # None /\ pc' = "idle"
  <2>1. err' = "Corruption" /\ pc' = "idle"
    BY DEF CoderFails
  <2> QED BY <2>1, ConstantsOK
<1>2. hist_len' + rest' \in Nat /\ hist_done' \in Nat
  <2>1. hist_len' \in Nat /\ rest' \in Nat /\ hist_done' \in Nat
    BY DEF IInv, TypeOK
  <2>2. \A a, b \in Nat : a + b \in Nat
    OBVIOUS
  <2> QED BY <2>1, <2>2
<1>3. Frame' = Frame /\ UNCHANGED <<ext, dropped, slide_mul, flush, ended>>
  BY DEF CoderFails, output, settings, Frame
<1>4. (err' # None) = TRUE /\ (pc' = "run") = FALSE
  BY <1>1
<1>5. WA!Fail
  BY <1>2, <1>3, <1>4, Zenon DEF WA!Fail
<1> QED BY <1>5 DEF WA!Next

LEMMA RefinesAbsorbBlock ==
  ASSUME IInv, IInv', AbsorbBlock
  PROVE  WA!Next
<1>1. pc = "run" /\ rest > 0 /\ err = None
  BY DEF AbsorbBlock, IInv, Control
<1>2. /\ BlockMax \in Nat \ {0} /\ Pending >= AbsorbLimit
      /\ BlockMax <= Pending /\ ~ended
      /\ BlockMoves(BlockMax, FALSE) \/ CoderFails(BlockMax)
  BY AbsorbBlockMoves
<1>3. Numbers /\ rest \in Nat
  BY NumbersOK DEF IInv, TypeOK
<1>4. CASE BlockMoves(BlockMax, FALSE)
  <2>1. hist_len - (hist_done + BlockMax) >= Lookahead
    BY <1>2, <1>3 DEF Pending, Numbers
  <2>2. WA!Code(BlockMax, FALSE)
    BY <1>1, <1>2, <1>4, <2>1, RefinesCode
  <2>3. WA!Pending > BlockMax /\ WA!Pending \in Int
    BY <1>1, <1>2, <1>3 DEF WA!Pending, Pending, Numbers
  <2>4. /\ WA!Min2(WA!Pending, BlockMax) = BlockMax
        /\ (flush = "End" /\ WA!Pending <= BlockMax) = FALSE
        /\ WA!Pending >= BlockMax
    BY <1>3, <2>3 DEF WA!Min2, Numbers
  <2>5. WA!CodeBlock
    BY <1>1, <2>2, <2>4, SameBlockMax, Zenon DEF WA!CodeBlock
  <2> QED BY <2>5 DEF WA!Next
<1>5. CASE CoderFails(BlockMax)
  BY <1>2, <1>5, RefinesFail
<1> QED BY <1>2, <1>4, <1>5

LEMMA RefinesCodePending ==
  ASSUME IInv, IInv', CodePending
  PROVE  WA!Next
<1> DEFINE take == Min2(Pending, BlockMax)
           last == flush = "End" /\ take = Pending
<1>1. pc = "run" /\ rest = 0 /\ MoreToCode
  BY DEF CodePending
<1>2. /\ BlockMax \in Nat \ {0} /\ Pending \in Nat /\ ~ended
      /\ take \in Nat /\ take <= Pending
      /\ BlockMoves(take, last) \/ CoderFails(take)
  BY CodePendingMoves
<1>3. WA!Pending = Pending
  BY <1>1, NumbersOK DEF WA!Pending, Pending, IInv, Numbers
<1>4. take = WA!Min2(WA!Pending, WA!BlockMax)
  BY <1>3, SameBlockMax DEF Min2, WA!Min2
<1>5. last = (flush = "End" /\ WA!Pending <= WA!BlockMax)
  BY <1>2, <1>3, SameBlockMax DEF Min2
<1>6. last \in BOOLEAN /\ ~(rest > 0)
  BY <1>1
<1> HIDE DEF take, last
<1>7. CASE BlockMoves(take, last)
  <2>1. WA!Code(take, last)
    BY <1>1, <1>2, <1>6, <1>7, RefinesCode
  <2>2. WA!CodeBlock
    BY <1>1, <1>3, <1>4, <1>5, <2>1, SameBlockMax, Zenon DEF WA!CodeBlock, MoreToCode
  <2> QED BY <2>2 DEF WA!Next
<1>8. CASE CoderFails(take)
  BY <1>2, <1>8, RefinesFail
<1> QED BY <1>2, <1>7, <1>8

\* The last block has been coded when the frame says so.
LEMMA SameLastCoded ==
  ASSUME IInv, started, ~ended
  PROVE  WA!LastCoded <=> last_block_written
<1>1. /\ Len(Frame) \in Nat /\ Len(Frame) > 0 /\ last_block_written \in BOOLEAN
      /\ Len(Frame) = 1 => ~last_block_written
      /\ Len(Frame) > 1 => /\ Frame[Len(Frame)].kind = "block"
                           /\ Frame[Len(Frame)].last = last_block_written
  BY FrameTyped, LenProperties DEF IInv, FrameShape, TypeOK
<1>2. Len(Frame) = 1 \/ Len(Frame) > 1
  <2>1. \A n \in Nat : n > 0 => n = 1 \/ n > 1
    OBVIOUS
  <2> QED BY <1>1, <2>1, Zenon
<1> QED BY <1>1, <1>2 DEF WA!LastCoded

LEMMA RefinesEmptyLast ==
  ASSUME IInv, EmptyLastBlock
  PROVE  WA!Next
<1>1. /\ pc = "run" /\ rest = 0 /\ flush = "End" /\ ~ended /\ Pending = 0
      /\ ~last_block_written /\ started
  BY DEF EmptyLastBlock, IInv, Control
<1>2. BlockMoves(0, TRUE) /\ 0 <= Pending
  <2>1. 0 <= Pending
    BY <1>1
  <2> QED BY <2>1, EmptyLastMoves, Zenon
<1>3. ~(rest > 0)
  BY <1>1
<1>4. WA!Code(0, TRUE)
  BY <1>1, <1>2, <1>3, RefinesCode
<1>5. WA!Pending = 0
  BY <1>1, NumbersOK DEF WA!Pending, Pending, IInv, Numbers
<1>6. WA!CodeEmptyLast
  BY <1>1, <1>4, <1>5, SameLastCoded DEF WA!CodeEmptyLast
<1> QED BY <1>6 DEF WA!Next

LEMMA RefinesEndFrame ==
  ASSUME IInv, EndFrame
  PROVE  WA!Next
<1>1. /\ pc = "run" /\ rest = 0 /\ flush = "End" /\ ~ended
      /\ ended' = TRUE
      /\ UNCHANGED <<hist_len, rest, hist_done, ext, dropped, slide_mul, flush, pc, err>>
  BY DEF EndFrame, history, settings, call
<1>2. /\ started /\ last_block_written /\ Pending = 0 /\ xxh = produced_in
      /\ Frame' = IF checksum THEN Append(Frame, Checksum(xxh)) ELSE Frame
  BY EndAppends
<1>3. Frame[1].checksum = checksum
  BY <1>2 DEF IInv, FrameShape
<1>4. WA!FramePos(hist_done) = xxh
  BY <1>2, EndAppends DEF WA!FramePos, IInv, Counts, FramePos
<1>5. WA!Pending = 0
  BY <1>1, <1>2, NumbersOK DEF WA!Pending, Pending, IInv, Numbers
<1>6. Frame' = IF Frame[1].checksum
               THEN Append(Frame, [kind |-> "checksum", of |-> WA!FramePos(hist_done)])
               ELSE Frame
  BY <1>2, <1>3, <1>4, Zenon DEF Checksum
<1>7. WA!LastCoded
  BY <1>1, <1>2, SameLastCoded
<1>8. UNCHANGED <<hist_len + rest, hist_done, ext, dropped, slide_mul, flush,
                 pc = "run", err # None>>
  BY <1>1, Zenon
<1>9. WA!Finish
  BY <1>1, <1>5, <1>6, <1>7, <1>8, Zenon DEF WA!Finish
<1> QED BY <1>9 DEF WA!Next

LEMMA RefinesReturn ==
  ASSUME IInv, Return
  PROVE  WA!Next
<1>1. /\ pc = "run" /\ pc' = "idle" /\ rest = 0 /\ ~MoreToCode
      /\ flush # "End" \/ ended
      /\ TakeOutput(outcap)
      /\ UNCHANGED <<hist_len, rest, hist_done, ext, dropped, slide_mul, flush,
                     ended, err>>
  BY DEF Return, history, settings, phase
<1>2. Frame' = Frame
  BY <1>1, TakeKeeps DEF IInv, TypeOK
<1>3. WA!Pending = Pending /\ Pending \in Nat /\ BlockMax \in Nat
  BY <1>1, NumbersOK DEF WA!Pending, Pending, IInv, Numbers, Counts
<1>4. Pending < BlockMax /\ (flush # "Continue" => Pending = 0)
  BY <1>1, <1>3 DEF MoreToCode
<1>5. /\ UNCHANGED <<hist_len + rest, hist_done, ext, dropped, slide_mul, flush,
                     ended, err # None>>
      /\ (pc' = "run") = FALSE
  BY <1>1
<1>6. flush = "End" => ended
  BY <1>1
<1>7. WA!Return
  BY <1>1, <1>2, <1>3, <1>4, <1>5, <1>6, SameBlockMax, Zenon DEF WA!Return
<1> QED BY <1>7 DEF WA!Next

LEMMA RefinesAbsorb ==
  ASSUME IInv, AbsorbAppend
  PROVE  UNCHANGED WA!vars
<1> DEFINE m == Min2(AbsorbLimit - Pending, rest)
<1>1. /\ hist_len' = hist_len + m /\ rest' = rest - m
      /\ UNCHANGED <<hist_done, ext, dropped, slide_mul, flush, pc, ended, err>>
      /\ Frame' = Frame
  BY DEF AbsorbAppend, settings, phase, output, Frame
<1>2. Numbers /\ rest \in Nat /\ m \in Int
  <2>1. Numbers /\ rest \in Nat
    BY NumbersOK DEF IInv, TypeOK
  <2> QED BY <2>1 DEF Numbers, Min2, Pending
<1> HIDE DEF m
<1>3. (hist_len + m) + (rest - m) = hist_len + rest
  BY <1>2 DEF Numbers
<1>4. hist_len' + rest' = hist_len + rest
  BY <1>1, <1>3, Zenon
<1> QED BY <1>1, <1>4, Zenon DEF WA!vars

\* The calls of stream().
LEMMA RefinesStream ==
  ASSUME IInv, IInv', FreshStart, NEW n \in InputLens, NEW cap \in OutCaps,
         NEW f \in Flush, Stream(n, cap, f)
  PROVE  WA!Next \/ UNCHANGED WA!vars
<1>0. n \in Nat /\ cap \in Nat /\ Numbers
  BY ConstantsOK, NumbersOK DEF IInv
<1>1. pc = "idle" /\ err = None /\ rest = 0 /\ (pc = "run") = FALSE
  BY DEF Stream, StreamEnded, StreamNextFrame, StreamBadPledge, StreamBegin, Usable,
         IInv, Control
<1>2. CASE StreamEnded(n, cap, f)
  <2>1. Frame' = Frame
    BY <1>0, <1>2, TakeKeeps DEF StreamEnded
  <2>2. UNCHANGED <<hist_len, rest, hist_done, ext, dropped, slide_mul, flush,
                   pc, ended, err>>
    BY <1>2 DEF StreamEnded, settings, phase, history, call
  <2> QED BY <2>1, <2>2, Zenon DEF WA!vars
<1>3. CASE StreamNextFrame(n, cap, f)
  <2>1. FreshHistory' /\ Len(Frame') = 1 /\ Frame'[1].kind = "header"
    BY <1>3, NextFrameBegins
  <2>2. /\ ended /\ pc' = "run" /\ rest' = n /\ flush' = f /\ ended' = FALSE
        /\ err' = None /\ slide_mul' = slide_mul
    BY <1>3 DEF StreamNextFrame, settings
  <2>3. hist_len' \in Nat /\ hist_done' \in Nat
    BY DEF IInv, TypeOK
  <2>4. ext' = hist_done' /\ dropped' = 0 /\ hist_len' = hist_done'
    BY <2>1 DEF FreshHistory
  <2>5. (hist_len' + rest') - hist_done' \in Nat
    <3>1. \A h \in Nat : (h + n) - h \in Nat
      BY <1>0
    <3> QED BY <2>2, <2>3, <2>4, <3>1, Zenon
  <2>6. /\ (pc' = "run") = TRUE /\ (err' # None) = (err # None)
        /\ f \in {"Continue", "Flush", "End"}
    BY <1>1, <2>2 DEF Flush
  <2>7. WA!CallNextFrame
    BY <1>1, <2>1, <2>2, <2>3, <2>4, <2>5, <2>6, Zenon DEF WA!CallNextFrame
  <2> QED BY <2>7 DEF WA!Next
<1>4. CASE StreamBadPledge(n, cap, f)
  <2>1. /\ ~ended /\ err' = "ContentSizeMismatch"
        /\ UNCHANGED <<hist_len, rest, hist_done, ext, dropped, slide_mul, flush,
                       pc, ended>>
        /\ Frame' = Frame
    BY <1>4 DEF StreamBadPledge, settings, phase, history, output, call, Frame
  <2>2. err' # None
    BY <2>1, ConstantsOK
  <2>3. hist_len + rest \in Nat /\ hist_done \in Nat
    BY <1>0, <1>1 DEF Numbers
  <2>4. hist_len' + rest' \in Nat /\ hist_done' \in Nat
    BY <2>1, <2>3, Zenon
  <2>5. (err' # None) = TRUE /\ (pc' = "run") = FALSE
    BY <1>1, <2>1, <2>2
  <2>6. WA!Fail
    BY <2>1, <2>4, <2>5, Zenon DEF WA!Fail
  <2> QED BY <2>6 DEF WA!Next
<1>5. CASE StreamBegin(n, cap, f)
  <2>1. /\ ~ended /\ pc' = "run" /\ rest' = n /\ flush' = f
        /\ UNCHANGED <<hist_len, hist_done, ext, dropped, slide_mul, ended, err>>
    BY <1>5 DEF StreamBegin, settings, history
  <2>2. IF Frame = <<>>
        THEN Len(Frame') = 1 /\ Frame'[1].kind = "header"
        ELSE Frame' = Frame
    <3>1. CASE started
      <4>1. Frame # <<>> /\ Frame' = Frame
        BY <1>5, <3>1, BeginFrame, EmptySeq DEF IInv, FrameShape
      <4> QED BY <4>1
    <3>2. CASE ~started
      <4>1. Frame = <<>> /\ \E h \in Item : h.kind = "header" /\ Frame' = <<h>>
        BY <1>5, <3>2, BeginFrame
      <4> QED BY <4>1
    <3> QED BY <3>1, <3>2
  <2>3. (hist_len' + rest') - (hist_len + rest) \in Nat
    <3>1. (hist_len + n) - (hist_len + rest) \in Nat
      BY <1>0, <1>1 DEF Numbers
    <3> QED BY <2>1, <3>1, Zenon
  <2>4. /\ (pc' = "run") = TRUE /\ (err' # None) = (err # None) /\ ~(err # None)
        /\ f \in {"Continue", "Flush", "End"}
    BY <1>1, <2>1 DEF Flush
  <2>5. WA!Call
    BY <1>1, <2>1, <2>2, <2>3, <2>4, Zenon DEF WA!Call
  <2> QED BY <2>5 DEF WA!Next
<1> QED BY <1>2, <1>3, <1>4, <1>5 DEF Stream

LEMMA RefinesStartsOver ==
  ASSUME IInv, IInv', StartsOver
  PROVE  WA!Next
<1>1. /\ (pc = "run") = FALSE /\ (pc' = "run") = FALSE /\ rest' = 0
      /\ UNCHANGED <<slide_mul, flush>> /\ ended' = FALSE /\ Frame' = <<>>
      /\ hist_len' = hist_done' /\ hist_len' = ext' /\ dropped' = 0
      /\ (err' # None) \in {FALSE, err # None}
  BY DEF StartsOver, FreshHistory
<1>2. hist_len' + rest' \in Nat /\ hist_len' + rest' = hist_len'
  <2>1. hist_len' \in Nat
    BY DEF IInv, TypeOK
  <2>2. \A h \in Nat : h + 0 = h
    OBVIOUS
  <2> QED BY <1>1, <2>1, <2>2, Zenon
<1>3. WA!Restart
  BY <1>1, <1>2, Zenon DEF WA!Restart
<1> QED BY <1>3 DEF WA!Next

LEMMA RefinesStep ==
  ASSUME IInv, IInv', FreshStart, [Next]_vars
  PROVE  [WA!Next]_(WA!vars)
<1>1. CASE \E n \in InputLens, cap \in OutCaps, f \in Flush : Stream(n, cap, f)
  BY <1>1, RefinesStream
<1>2. CASE Running
  BY <1>2, RefinesAbsorb, RefinesAbsorbBlock, RefinesCodePending, RefinesEmptyLast,
     RefinesEndFrame, RefinesReturn
  DEF Running
<1>3. CASE Reset \/ (\E n \in Pledges : SetPledgedSrcSize(n))
            \/ (\E b \in BOOLEAN : SetWriteDictId(b))
  BY <1>3, RefinesStartsOver, ResetStartsOver, PledgeStartsOver, DictIdStartsOver
<1>4. CASE (\E d \in Dictionary : SetDictionary(d)) \/ (\E n \in PrefixLens : SetPrefix(n))
  BY <1>4, RefinesStartsOver, DictionaryStartsOver, PrefixStartsOver
<1>5. CASE \E k \in SlideMuls : SetSlideMul(k)
  <2>1. /\ pc = "idle" /\ slide_mul' \in 2 .. 8
        /\ UNCHANGED <<hist_len, rest, hist_done, ext, dropped, flush, pc, ended, err>>
        /\ Frame' = Frame
    BY <1>5, ConstantsOK DEF SetSlideMul, phase, history, output, call, Frame
  <2>2. /\ (pc = "run") = FALSE
        /\ UNCHANGED <<hist_len + rest, pc = "run", err # None>>
    BY <2>1
  <2>3. WA!SetSlideMul
    BY <2>1, <2>2, Zenon DEF WA!SetSlideMul
  <2> QED BY <2>3 DEF WA!Next
<1>6. CASE UNCHANGED vars
  <2>1. UNCHANGED <<hist_len, rest, hist_done, ext, dropped, slide_mul, flush, pc,
                   ended, err>> /\ Frame' = Frame
    BY <1>6 DEF vars, settings, phase, history, output, call, Frame
  <2> QED BY <2>1, Zenon DEF WA!vars
<1> QED BY <1>1, <1>2, <1>3, <1>4, <1>5, <1>6 DEF Next

\* The blocks, their boundaries and the slides are those of the compressor that
\* appends a call's whole input at once (the comment above stream.rs's absorb
\* loop): bounding the memory changed no byte of the output.
THEOREM MakesWholeAppendBlocksHolds == Spec => MakesWholeAppendBlocks
<1>1. IInv /\ HistInv /\ IInv' /\ [Next]_vars => [WA!Next]_(WA!vars)
  BY RefinesStep DEF HistInv
<1> QED BY <1>1, RefinesInit, HistoryInvariant, PTL DEF Spec, MakesWholeAppendBlocks, WA!Spec
=============================================================================
