------------------------- MODULE BlockCodec_proofs --------------------------
(***************************************************************************)
(* Proofs about BlockCodec: encoder and decoder stay in step, and whatever *)
(* the encoder writes is read as it was meant.                             *)
(***************************************************************************)
EXTENDS BlockCodec, FiniteSetTheorems, TLAPS

-----------------------------------------------------------------------------
(* The inductive invariant. *)

\* A compressed block is written and the decoder has read none of it.
Unread == pc = "sized" \/ (pc = "decode" /\ wire.kind = "compressed")

\* The literals name a table both sides have, or carry it.
LitsNamed ==
  /\ enc.table["huff"] = wire.lits.table
  /\ wire.lits.mode \in {"raw", "treeless"} => wire.lits.table = dec.table["huff"]
  /\ wire.lits.mode \in {"raw", "treeless", "compressed"}

\* So do the sequences of kind k.
TableNamed(k) ==
  /\ enc.table[k] = wire.modes[k].table
  /\ wire.modes[k].mode \in {"repeat", "predefined", "rle", "compressed"}
  /\ wire.modes[k].mode = "repeat" => wire.modes[k].table = dec.table[k]
  /\ wire.modes[k].mode = "predefined" => wire.modes[k].table = Predefined(k)
  /\ wire.modes[k].table.kind # "none"
TablesNamed == \A k \in Kinds : TableNamed(k)
TablesKept == \A k \in Kinds : enc.table[k] = dec.table[k]

\* What the decoder remembers, relative to the encoder, at each point.
Remembered ==
  /\ pc \in {"start", "ended", "search"} => enc = dec
  /\ pc = "decode" /\ wire.kind # "compressed" => enc = dec
  /\ pc \in {"code", "sized"} => saved = dec
  /\ pc = "code" \/ Unread => LitsNamed
  /\ pc \in {"tables", "execute"} => enc.table["huff"] = dec.table["huff"]
  /\ pc = "code" => TablesKept
  /\ Unread \/ pc = "tables" => IF seqs = <<>> THEN TablesKept ELSE TablesNamed
  /\ pc = "execute" => TablesKept

\* Sequence j was coded from the offsets remembered before it and left those after.
Coded(j) ==
  /\ wire.codes[j] = RepCode(seqs[j].off, seqs[j].lit = 0, trail[j])
  /\ trail[j + 1] = RepMove(seqs[j].off, seqs[j].lit = 0, trail[j])

\* The offsets after each sequence lead from the decoder's to the encoder's.
Followed ==
  /\ pc \in {"search", "start"} => wire.codes = <<>> /\ i = 0
  /\ pc \in {"code", "sized"} => wire.kind = "compressed"
  /\ pc = "code" => Len(wire.codes) = i /\ seqs # <<>>
  /\ Unread \/ pc = "tables" => i = Len(seqs)
  /\ Unread \/ pc \in {"tables", "execute"} => Len(wire.codes) = Len(seqs)
  /\ pc \in {"code", "tables", "execute"} \/ Unread =>
       /\ Len(trail) = Len(wire.codes) + 1
       /\ trail[Len(trail)] = enc.reps
       /\ \A j \in 1..Len(wire.codes) : Coded(j)
  /\ pc \in {"code", "tables"} \/ Unread => dec.reps = trail[1]
  /\ pc = "execute" => dec.reps = trail[i + 1]

-----------------------------------------------------------------------------
(* Why nothing is refused. *)

\* The codes the tables of the format do not lack: those of the lengths in a block
\* and of the offsets within the window or brought by a dictionary.
Near(off, d) == off <= Window \/ off \in {1, 4, 8} \/ \E k \in 1..3 : off = d.reps[k]
DefaultsCover ==
  /\ 0..MaxFrame \subseteq DefaultCodes["ll"]
  /\ 1..MaxFrame \subseteq DefaultCodes["ml"]
  /\ \A c \in 1..3 : OfCode(c) \in DefaultCodes["of"]
  /\ \A d \in Dicts : \A off \in Offset :
       Near(off, d) => OfCode(off + 3) \in DefaultCodes["of"]

\* Where sequence j begins.
Begin(j) == IF j = 1 THEN block.from ELSE seqs[j - 1].at + seqs[j - 1].len

\* A sequence copies what the decoder lets it copy.
Legal(s) ==
  /\ s.off \in Offset /\ s.off <= dict.len + s.at
  /\ s.off <= Window \/ block.to <= Window
  /\ s.lit \in 0..MaxFrame /\ s.len \in 1..MaxFrame /\ s.at + s.len <= block.to
  /\ Near(s.off, dict)

NearReps == \A k \in 1..3 : Near(enc.reps[k], dict)

Placed ==
  /\ NearReps /\ \A k \in 1..3 : Near(saved.reps[k], dict)
  /\ pc \in {"search", "code", "tables", "execute"} \/ Unread =>
       \A j \in 1..Len(seqs) : Legal(seqs[j]) /\ seqs[j].at = Begin(j) + seqs[j].lit
  /\ pc = "search" => at = Begin(Len(seqs) + 1)
  /\ pc = "execute" => at = Begin(i + 1)

Fitting ==
  (Unread \/ pc \in {"tables", "execute"}) /\ seqs # <<>> =>
    \A k \in Kinds : Codes(k) \subseteq wire.modes[k].table.codes

Choice == [mode : {"none", "raw", "treeless", "predefined", "rle", "repeat", "compressed"},
           table : Table]
WireTypes == wire \in [kind : {"none", "raw", "rle", "compressed"}, lits : Choice,
                      codes : Seq(Nat), modes : [Kinds -> Choice]]

Understood == DefaultsCover => DecodesAsMeant /\ Fitting

IInv == TypeOK /\ WireTypes /\ Remembered /\ Followed /\ Placed /\ Understood

-----------------------------------------------------------------------------
(* Repeat offsets. *)

\* A code is never 0, and never above 3 but for the offset 3 less.
LEMMA RepCodeRange ==
  ASSUME NEW reps \in Reps, NEW off \in Offset, NEW no_lit \in BOOLEAN
  PROVE  RepCode(off, no_lit, reps) \in 1..3 \/ RepCode(off, no_lit, reps) = off + 3
<1>1. CASE no_lit
  BY <1>1, RepAssumption, SMTT(30) DEF RepCode, Candidates, Offset, Reps
<1>2. CASE ~no_lit
  BY <1>2, RepAssumption, SMTT(30) DEF RepCode, Candidates, Offset, Reps
<1>. QED  BY <1>1, <1>2

LEMMA RepCodeType ==
  ASSUME NEW reps \in Reps, NEW off \in Offset, NEW no_lit \in BOOLEAN
  PROVE  RepCode(off, no_lit, reps) \in Nat
BY RepCodeRange, RepAssumption DEF Offset

LEMMA RepMoveType ==
  ASSUME NEW reps \in Reps, NEW off \in Offset, NEW no_lit \in BOOLEAN
  PROVE  /\ RepMove(off, no_lit, reps) \in Reps
         /\ \A k \in 1..3 : RepMove(off, no_lit, reps)[k] \in {off, reps[1], reps[2], reps[3]}
<1>1. reps[1] \in Offset /\ reps[2] \in Offset /\ reps[3] \in Offset
  BY DEF Reps
<1>2. RepMove(off, no_lit, reps) =
        <<off, IF ~no_lit /\ off = reps[1] THEN reps[2] ELSE reps[1],
          IF (~no_lit /\ off = reps[1]) \/ off = reps[2] THEN reps[3] ELSE reps[2]>>
  BY DEF RepMove
<1>. QED  BY <1>1, <1>2 DEF Reps

\* The decoder reads from the code the offset that was coded, and moves what it
\* remembers as the encoder did.
THEOREM RoundTrip ==
  ASSUME NEW reps \in Reps, NEW off \in Offset, NEW no_lit \in BOOLEAN
  PROVE  LET r == ResolveOffset(RepCode(off, no_lit, reps), no_lit, reps)
         IN r.off = off /\ r.reps = RepMove(off, no_lit, reps)
<1>. DEFINE c == RepCode(off, no_lit, reps)
<1>1. PICK a \in Offset, b \in Offset, d \in Offset : reps = <<a, b, d>>
  <2>1. reps = <<reps[1], reps[2], reps[3]>>
    BY DEF Reps
  <2>. QED  BY <2>1 DEF Reps
<1>2. /\ a \in Nat /\ b \in Nat /\ d \in Nat /\ off \in Nat
      /\ a > 0 /\ b > 0 /\ d > 0 /\ off > 0 /\ off + 3 < U32Max /\ U32Max \in Nat
  BY RepAssumption DEF Offset
<1>3. CASE no_lit
  <2>1. CASE off = b
    <3>1. c = 1  BY <2>1, <1>1, <1>3 DEF RepCode, Candidates
    <3>. QED  BY <3>1, <2>1, <1>1, <1>2, <1>3 DEF ResolveOffset, RepMove, Resolved, Swapped, InFront
  <2>2. CASE off # b /\ off = d
    <3>1. c = 2  BY <2>2, <1>1, <1>3 DEF RepCode, Candidates
    <3>. QED  BY <3>1, <2>2, <1>1, <1>2, <1>3 DEF ResolveOffset, RepMove, Resolved, Swapped, InFront
  <2>3. CASE off # b /\ off # d /\ off = a - 1
    <3>1. c = 3  BY <2>3, <1>1, <1>2, <1>3 DEF RepCode, Candidates
    <3>. QED  BY <3>1, <2>3, <1>1, <1>2, <1>3 DEF ResolveOffset, RepMove, Resolved, Swapped, InFront
  <2>4. CASE off # b /\ off # d /\ off # a - 1
    <3>1. c = off + 3  BY <2>4, <1>1, <1>2, <1>3 DEF RepCode, Candidates
    <3>. QED  BY <3>1, <2>4, <1>1, <1>2, <1>3 DEF ResolveOffset, RepMove, Resolved, Swapped, InFront
  <2>. QED  BY <2>1, <2>2, <2>3, <2>4
<1>4. CASE ~no_lit
  <2>1. CASE off = a
    <3>1. c = 1  BY <2>1, <1>1, <1>4 DEF RepCode, Candidates
    <3>. QED  BY <3>1, <2>1, <1>1, <1>2, <1>4 DEF ResolveOffset, RepMove, Resolved, Swapped, InFront
  <2>2. CASE off # a /\ off = b
    <3>1. c = 2  BY <2>2, <1>1, <1>4 DEF RepCode, Candidates
    <3>. QED  BY <3>1, <2>2, <1>1, <1>2, <1>4 DEF ResolveOffset, RepMove, Resolved, Swapped, InFront
  <2>3. CASE off # a /\ off # b /\ off = d
    <3>1. c = 3  BY <2>3, <1>1, <1>2, <1>4 DEF RepCode, Candidates
    <3>. QED  BY <3>1, <2>3, <1>1, <1>2, <1>4 DEF ResolveOffset, RepMove, Resolved, Swapped, InFront
  <2>4. CASE off # a /\ off # b /\ off # d
    <3>1. c = off + 3  BY <2>4, <1>1, <1>2, <1>4 DEF RepCode, Candidates
    <3>. QED  BY <3>1, <2>4, <1>1, <1>2, <1>4 DEF ResolveOffset, RepMove, Resolved, Swapped, InFront
  <2>. QED  BY <2>1, <2>2, <2>3, <2>4
<1>. QED  BY <1>3, <1>4

-----------------------------------------------------------------------------
(* Tables. *)

LEMMA OfCodeType ==
  ASSUME NEW code  PROVE  OfCode(code) \in Nat
<1>. DEFINE S == {b \in 1..31 : 2^(b - 1) <= code \div 2}
<1>0. 1 \in Int /\ 31 \in Int  OBVIOUS
<1>1. IsFiniteSet(1..31)  BY <1>0, FS_Interval
<1>2. S \in SUBSET (1..31)  OBVIOUS
<1>3. IsFiniteSet(S)  BY <1>1, <1>2, FS_Subset
<1>. QED  BY <1>3, FS_CardinalityType DEF OfCode

LEMMA SeqTypes ==
  ASSUME TypeOK
  PROVE  /\ Len(seqs) \in Nat /\ DOMAIN seqs = 1..Len(seqs)
         /\ \A j \in 1..Len(seqs) :
              /\ seqs[j].lit \in Nat /\ seqs[j].off \in Offset
              /\ seqs[j].len \in Nat /\ seqs[j].len > 0 /\ seqs[j].at \in Nat
<1>1. seqs \in Seq(Sequence)
  BY DEF TypeOK
<1>2. \A j \in 1..Len(seqs) : seqs[j] \in Sequence
  BY <1>1
<1>3. \A s \in Sequence : s.lit \in Nat /\ s.off \in Offset /\ s.len \in Nat /\ s.len > 0 /\ s.at \in Nat
  BY DEF Sequence
<1>. QED  BY <1>1, <1>2, <1>3

LEMMA CodesType ==
  ASSUME TypeOK, NEW k \in Kinds
  PROVE  Codes(k) \subseteq Nat
<1>1. \A j \in DOMAIN seqs : seqs[j].lit \in Nat /\ seqs[j].len \in Nat
  BY SeqTypes
<1>2. \A j \in DOMAIN seqs : OfCode(wire.codes[j]) \in Nat
  BY OfCodeType
<1>. QED  BY <1>1, <1>2 DEF Codes, Kinds

LEMMA TableTypes ==
  /\ NoTable \in Table
  /\ \A k \in Kinds : Predefined(k) \in Table /\ Predefined(k).kind # "none"
  /\ \A codes \in SUBSET Nat : Rle(codes) \in Table
  /\ \A codes \in SUBSET Nat, from \in Nat : Built(codes, from) \in Table
  /\ \A k \in Kinds \union {"huff"} : OfDict(k) \in Table
BY CodecAssumption DEF Table, NoTable, Predefined, Rle, Built, OfDict

\* Whatever select_seq_table chooses is a table, is one both sides can name, and
\* has the codes if the predefined one does.
LEMMA SelectTableSound ==
  ASSUME NEW codes \in SUBSET Nat, NEW n \in Nat, NEW prev \in Table, NEW k \in Kinds,
         NEW from \in Nat, NEW m \in SelectTable(codes, n, prev, Predefined(k), from)
  PROVE  /\ m.table \in Table /\ m.table.kind # "none"
         /\ m.mode \in {"repeat", "predefined", "rle", "compressed"}
         /\ m.mode = "repeat" => m.table = prev
         /\ m.mode = "predefined" => m.table = Predefined(k)
         /\ codes \subseteq DefaultCodes[k] => codes \subseteq m.table.codes
<1>. DEFINE basic == Predefined(k)
            repeated == [mode |-> "repeat", table |-> prev]
            own == [mode |-> "compressed", table |-> Built(codes, from)]
<1>1. \/ m = [mode |-> "rle", table |-> Rle(codes)]
      \/ m = own
      \/ m = [mode |-> "predefined", table |-> basic] /\ codes \subseteq basic.codes
      \/ /\ m = repeated /\ prev.kind # "none"
         /\ codes \subseteq prev.codes \/ ~(codes \subseteq basic.codes)
  <2>. DEFINE fits == codes \subseteq basic.codes
              repeat == IF prev.kind # "none" /\ (codes \subseteq prev.codes \/ ~fits)
                        THEN {repeated} ELSE {}
  <2>1. \A x \in repeat : x = repeated /\ prev.kind # "none" /\ (codes \subseteq prev.codes \/ ~fits)
    OBVIOUS
  <2>2. \/ m = [mode |-> "rle", table |-> Rle(codes)]
        \/ m = own
        \/ m \in repeat
        \/ m = [mode |-> "predefined", table |-> basic] /\ fits
    <3>. HIDE DEF fits, repeat, own, basic
    <3>1. SelectTable(codes, n, prev, basic, from) =
            CASE Single(codes) -> {[mode |-> "rle", table |-> Rle(codes)]}
              [] ~Single(codes) /\ n >= FewSeqs /\ ~fits -> {own}
              [] ~Single(codes) /\ n < FewSeqs /\ ~fits -> IF repeat # {} THEN repeat ELSE {own}
              [] OTHER -> {[mode |-> "predefined", table |-> basic]} \union repeat
                          \union (IF n >= FewSeqs THEN {own} ELSE {})
      BY DEF SelectTable, fits, repeat, own
    <3>2. m \in SelectTable(codes, n, prev, basic, from)
      BY DEF basic
    <3>3. n >= FewSeqs \/ n < FewSeqs
      BY CodecAssumption
    <3>. QED  BY <3>1, <3>2, <3>3
  <2>. QED  BY <2>1, <2>2
<1>2. Predefined(k).codes = DefaultCodes[k]
  BY DEF Predefined
<1>3. Rle(codes).codes = codes /\ Rle(codes).kind # "none"
  BY DEF Rle
<1>4. Built(codes, from).codes = codes /\ Built(codes, from).kind # "none"
  BY DEF Built
<1>. HIDE DEF repeated, own, basic
<1>5. CASE m = [mode |-> "rle", table |-> Rle(codes)]
  BY <1>5, <1>3, TableTypes
<1>6. CASE m = own
  BY <1>6, <1>4, TableTypes DEF own
<1>7. CASE m = [mode |-> "predefined", table |-> basic] /\ codes \subseteq basic.codes
  BY <1>7, <1>2, TableTypes DEF basic
<1>8. CASE /\ m = repeated /\ prev.kind # "none"
           /\ codes \subseteq prev.codes \/ ~(codes \subseteq basic.codes)
  BY <1>8, <1>2 DEF basic, repeated
<1>. QED  BY <1>1, <1>5, <1>6, <1>7, <1>8

LEMMA LiteralsSound ==
  ASSUME NEW n, NEW bytes \in SUBSET Nat, NEW prev \in Table, NEW from \in Nat,
         NEW m \in LiteralModes(n, bytes, prev, from)
  PROVE  /\ m.table \in Table
         /\ m.mode \in {"raw", "treeless", "compressed"}
         /\ m.mode \in {"raw", "treeless"} => m.table = prev
<1>1. \/ m = [mode |-> "raw", table |-> prev]
      \/ m = [mode |-> "treeless", table |-> prev]
      \/ m = [mode |-> "compressed", table |-> Built(bytes, from)]
  BY DEF LiteralModes
<1>. QED  BY <1>1, TableTypes

-----------------------------------------------------------------------------
(* The first state. *)

LEMMA StartType ==
  ASSUME NEW d \in Dicts
  PROVE  /\ Start(d) \in Memory
         /\ \A k \in 1..3 : Near(Start(d).reps[k], d)
<1>1. d.reps \in Reps
  BY CodecAssumption
<1>2. <<1, 4, 8>> \in Reps
  BY RepAssumption DEF Reps, Offset
<1>3. Start(d).reps = IF d.entropy THEN d.reps ELSE <<1, 4, 8>>
  BY DEF Start
<1>4. Start(d).reps \in Reps
  BY <1>1, <1>2, <1>3
<1>5. Start(d).table \in [Kinds \union {"huff"} -> Table]
  BY TableTypes DEF Start
<1>6. Start(d) = [reps |-> Start(d).reps, table |-> Start(d).table]
  BY DEF Start
<1>7. Start(d) \in Memory
  BY <1>4, <1>5, <1>6 DEF Memory
<1>8. \A k \in 1..3 : Near(d.reps[k], d) /\ Near(<<1, 4, 8>>[k], d)
  BY DEF Near
<1>. QED  BY <1>3, <1>7, <1>8

LEMMA BlankType ==
  /\ Blank.kind = "none" /\ Blank.codes = <<>> /\ Blank.codes \in Seq(Nat)
  /\ Blank.lits \in Choice /\ Blank.modes \in [Kinds -> Choice]
  /\ Blank = [kind |-> Blank.kind, lits |-> Blank.lits, codes |-> Blank.codes, modes |-> Blank.modes]
BY TableTypes DEF Blank, Choice

\* A new frame: both sides start alike, and nothing is at hand.
LEMMA FreshFrame ==
  ASSUME dict \in Dicts, pc = "start", block = NoBlock, seqs = <<>>, at = 0, i = 0,
         wire = Blank, trail = <<>>, enc = Start(dict), saved = enc, dec = Start(dict)
  PROVE  IInv
<1>1. Start(dict) \in Memory /\ \A k \in 1..3 : Near(Start(dict).reps[k], dict)
  BY StartType
<1>2. TypeOK
  <2>1. block \in [from : Nat, to : 0..MaxFrame, last : BOOLEAN] /\ block.from <= block.to
    BY CodecAssumption DEF NoBlock
  <2>2. seqs \in Seq(Sequence) /\ trail \in Seq(Reps) /\ i \in 0..Len(seqs) /\ at \in Nat
    OBVIOUS
  <2>3. enc \in Memory /\ saved \in Memory /\ dec \in Memory
    BY <1>1
  <2>4. wire.codes \in Seq(Nat)
    BY BlankType
  <2>. QED  BY <2>1, <2>2, <2>3, <2>4 DEF TypeOK
<1>3. WireTypes
  BY BlankType DEF WireTypes
<1>4. Remembered
  BY DEF Remembered, Unread
<1>5. Followed
  BY BlankType DEF Followed, Unread
<1>6. Placed
  BY <1>1 DEF Placed, NearReps, Unread
<1>7. Understood
  BY DEF Understood, DecodesAsMeant, Fitting, Unread
<1>. QED  BY <1>2, <1>3, <1>4, <1>5, <1>6, <1>7 DEF IInv

LEMMA InitInvariant == Init => IInv
BY FreshFrame DEF Init

-----------------------------------------------------------------------------
(* Steps that leave both sides alike. *)

LEMMA StutterStep ==
  ASSUME IInv, UNCHANGED vars
  PROVE  IInv'
<1>. USE DEF IInv, vars
<1>1. TypeOK'  BY DEF TypeOK
<1>2. WireTypes'  BY DEF WireTypes
<1>3. Remembered'
  BY DEF Remembered, Unread, LitsNamed, TablesNamed, TableNamed, TablesKept
<1>4. Followed'  BY DEF Followed, Unread, Coded
<1>5. Placed'  BY DEF Placed, NearReps, Unread, Legal, Begin
<1>6. Understood'  BY DEF Understood, DecodesAsMeant, Fitting, Unread, Codes
<1>. QED  BY <1>1, <1>2, <1>3, <1>4, <1>5, <1>6

\* A block goes out raw or as RLE.
LEMMA WrittenStep ==
  ASSUME IInv, NEW kind \in {"raw", "rle"}, Written(kind), enc' \in {enc, saved}, enc' = dec,
         block' \in [from : Nat, to : 0..MaxFrame, last : BOOLEAN], block'.from <= block'.to,
         UNCHANGED <<dict, seqs, at, i, saved, dec, trail>>
  PROVE  IInv'
<1>. DEFINE w == [Blank EXCEPT !.kind = kind]
<1>1. /\ pc' = "decode" /\ wire' = w
      /\ w.kind = kind /\ w.codes = Blank.codes /\ w.lits = Blank.lits /\ w.modes = Blank.modes
      /\ w = [kind |-> kind, lits |-> w.lits, codes |-> w.codes, modes |-> w.modes]
  BY DEF Written, Blank
<1>. HIDE DEF w
<1>2. TypeOK'
  BY <1>1, BlankType DEF IInv, TypeOK
<1>3. WireTypes'
  BY <1>1, BlankType DEF WireTypes
<1>4. Remembered'
  BY <1>1 DEF Remembered, Unread
<1>5. Followed'
  BY <1>1 DEF Followed, Unread
<1>6. Placed'
  BY <1>1 DEF IInv, Placed, NearReps, Unread
<1>7. Understood'
  BY <1>1 DEF IInv, Understood, DecodesAsMeant, Fitting, Unread
<1>. QED  BY <1>2, <1>3, <1>4, <1>5, <1>6, <1>7 DEF IInv

LEMMA EmptyBlockStep == IInv /\ EmptyBlock => IInv'
<1>. SUFFICES ASSUME IInv, EmptyBlock PROVE IInv'
  OBVIOUS
<1>1. enc = dec
  BY DEF EmptyBlock, IInv, Remembered
<1>2. block' \in [from : Nat, to : 0..MaxFrame, last : BOOLEAN] /\ block'.from <= block'.to
  BY CodecAssumption DEF EmptyBlock, IInv, TypeOK
<1>. QED  BY <1>1, <1>2, WrittenStep DEF EmptyBlock

\* Where the next block lies.
LEMMA NextBlockType ==
  ASSUME IInv, NEW n \in Nat, NEW last \in BOOLEAN, NextBlock(n, last)
  PROVE  /\ block' \in [from : Nat, to : 0..MaxFrame, last : BOOLEAN]
         /\ block'.from <= block'.to /\ block'.from = block.to
BY CodecAssumption DEF NextBlock, IInv, TypeOK

LEMMA RleBlockStep == IInv /\ RleBlock => IInv'
<1>. SUFFICES ASSUME IInv, RleBlock PROVE IInv'
  OBVIOUS
<1>1. PICK n \in 2..BlockMax, last \in BOOLEAN : NextBlock(n, last)
  BY DEF RleBlock
<1>2. n \in Nat
  BY CodecAssumption
<1>3. enc = dec
  BY <1>1 DEF NextBlock, IInv, Remembered
<1>. QED  BY <1>1, <1>2, <1>3, NextBlockType, WrittenStep DEF RleBlock

LEMMA GiveUpStep == IInv /\ GiveUp => IInv'
<1>. SUFFICES ASSUME IInv, GiveUp PROVE IInv'
  OBVIOUS
<1>1. enc = dec
  BY DEF GiveUp, IInv, Remembered
<1>2. block' \in [from : Nat, to : 0..MaxFrame, last : BOOLEAN] /\ block'.from <= block'.to
  BY DEF GiveUp, IInv, TypeOK
<1>. QED  BY <1>1, <1>2, WrittenStep DEF GiveUp

\* What was saved before the block was coded is what the decoder remembers.
LEMMA FallBackStep == IInv /\ FallBack => IInv'
<1>. SUFFICES ASSUME IInv, FallBack PROVE IInv'
  OBVIOUS
<1>1. enc' = saved /\ saved = dec
  BY DEF FallBack, Rewound, IInv, Remembered
<1>2. block' \in [from : Nat, to : 0..MaxFrame, last : BOOLEAN] /\ block'.from <= block'.to
  BY DEF FallBack, IInv, TypeOK
<1>. QED  BY <1>1, <1>2, WrittenStep DEF FallBack

\* A block has been read, and both sides agree.
LEMMA BlockReadStep ==
  ASSUME IInv, BlockRead, UNCHANGED <<dict, block, enc, dec>>, enc = dec
  PROVE  IInv'
<1>1. pc' \in {"start", "ended"} /\ seqs' = <<>> /\ at' = 0 /\ i' = 0 /\ wire' = Blank
      /\ saved' = enc /\ trail' = <<>>
  BY DEF BlockRead
<1>2. TypeOK'
  <2>1. seqs' \in Seq(Sequence) /\ trail' \in Seq(Reps) /\ i' \in 0..Len(seqs') /\ at' \in Nat
    BY <1>1
  <2>2. wire'.codes \in Seq(Nat)
    BY <1>1, BlankType
  <2>3. saved' \in Memory /\ enc' \in Memory /\ dec' \in Memory
    BY <1>1 DEF IInv, TypeOK
  <2>4. dict' \in Dicts /\ block' \in [from : Nat, to : 0..MaxFrame, last : BOOLEAN]
        /\ block'.from <= block'.to
    BY DEF IInv, TypeOK
  <2>. QED  BY <1>1, <2>1, <2>2, <2>3, <2>4 DEF TypeOK
<1>3. WireTypes'
  BY <1>1, BlankType DEF WireTypes
<1>4. Remembered'
  BY <1>1 DEF Remembered, Unread
<1>5. Followed'
  BY <1>1, BlankType DEF Followed, Unread
<1>6. Placed'
  BY <1>1 DEF IInv, Placed, NearReps, Unread
<1>7. Understood'
  BY <1>1 DEF IInv, Understood, DecodesAsMeant, Fitting, Unread
<1>. QED  BY <1>2, <1>3, <1>4, <1>5, <1>6, <1>7 DEF IInv

LEMMA DecodeRawStep == IInv /\ DecodeRaw => IInv'
<1>. SUFFICES ASSUME IInv, DecodeRaw PROVE IInv'
  OBVIOUS
<1>1. enc = dec
  BY DEF DecodeRaw, IInv, Remembered
<1>. QED  BY <1>1, BlockReadStep DEF DecodeRaw

\* Two memories with the same offsets and tables are the same.
LEMMA SameMemory ==
  ASSUME NEW a \in Memory, NEW b \in Memory, a.reps = b.reps,
         a.table["huff"] = b.table["huff"], \A k \in Kinds : a.table[k] = b.table[k]
  PROVE  a = b
<1>1. a.table \in [Kinds \union {"huff"} -> Table] /\ b.table \in [Kinds \union {"huff"} -> Table]
  BY DEF Memory
<1>2. a.table = b.table
  BY <1>1
<1>3. a = [reps |-> a.reps, table |-> a.table] /\ b = [reps |-> b.reps, table |-> b.table]
  BY DEF Memory
<1>. QED  BY <1>2, <1>3

LEMMA FinishBlockStep == IInv /\ FinishBlock => IInv'
<1>. SUFFICES ASSUME IInv, FinishBlock PROVE IInv'
  OBVIOUS
<1>1. dec.reps = enc.reps
  BY DEF FinishBlock, IInv, Followed
<1>2. dec.table["huff"] = enc.table["huff"] /\ \A k \in Kinds : dec.table[k] = enc.table[k]
  BY DEF FinishBlock, IInv, Remembered, TablesKept
<1>3. enc = dec
  BY <1>1, <1>2, SameMemory DEF IInv, TypeOK
<1>. QED  BY <1>3, BlockReadStep DEF FinishBlock

LEMMA NextFrameStep == IInv /\ NextFrame => IInv'
<1>. SUFFICES ASSUME IInv, NextFrame PROVE IInv'
  OBVIOUS
<1>1. /\ dict' \in Dicts /\ pc' = "start" /\ block' = NoBlock /\ seqs' = <<>> /\ at' = 0
      /\ i' = 0 /\ wire' = Blank /\ trail' = <<>>
      /\ enc' = Start(dict') /\ saved' = enc' /\ dec' = enc'
  BY DEF NextFrame
<1>2. Start(dict') \in Memory /\ \A k \in 1..3 : Near(Start(dict').reps[k], dict')
  BY <1>1, StartType
<1>3. TypeOK'
  <2>1. block' \in [from : Nat, to : 0..MaxFrame, last : BOOLEAN] /\ block'.from <= block'.to
    BY <1>1, CodecAssumption DEF NoBlock
  <2>2. seqs' \in Seq(Sequence) /\ trail' \in Seq(Reps) /\ i' \in 0..Len(seqs') /\ at' \in Nat
    BY <1>1
  <2>3. enc' \in Memory /\ saved' \in Memory /\ dec' \in Memory
    BY <1>1, <1>2
  <2>4. wire'.codes \in Seq(Nat)
    BY <1>1, BlankType
  <2>. QED  BY <1>1, <2>1, <2>2, <2>3, <2>4 DEF TypeOK
<1>4. WireTypes'
  BY <1>1, BlankType DEF WireTypes
<1>5. Remembered'
  BY <1>1 DEF Remembered, Unread
<1>6. Followed'
  BY <1>1, BlankType DEF Followed, Unread
<1>7. Placed'
  BY <1>1, <1>2 DEF Placed, NearReps, Unread
<1>8. Understood'
  BY <1>1 DEF Understood, DecodesAsMeant, Fitting, Unread
<1>. QED  BY <1>3, <1>4, <1>5, <1>6, <1>7, <1>8 DEF IInv

-----------------------------------------------------------------------------
(* Searching. *)

LEMMA SearchStep == IInv /\ Search => IInv'
<1>. SUFFICES ASSUME IInv, Search PROVE IInv'
  OBVIOUS
<1>1. /\ pc = "start" /\ pc' = "search" /\ seqs' = <<>> /\ at' = block.to /\ i' = 0
      /\ wire' = Blank /\ trail' = <<>> /\ UNCHANGED <<dict, enc, saved, dec>>
  BY DEF Search, NextBlock
<1>2. /\ block' \in [from : Nat, to : 0..MaxFrame, last : BOOLEAN]
      /\ block'.from <= block'.to /\ block'.from = block.to
  <2>1. PICK n \in 1..BlockMax, last \in BOOLEAN : NextBlock(n, last)
    BY DEF Search
  <2>2. n \in Nat
    BY CodecAssumption
  <2>. QED  BY <2>1, <2>2, NextBlockType
<1>3. TypeOK'
  <2>1. seqs' \in Seq(Sequence) /\ trail' \in Seq(Reps) /\ i' \in 0..Len(seqs') /\ wire'.codes \in Seq(Nat)
    BY <1>1, BlankType
  <2>2. at' \in Nat
    BY <1>1, CodecAssumption DEF IInv, TypeOK
  <2>. QED  BY <1>1, <1>2, <2>1, <2>2 DEF IInv, TypeOK
<1>4. WireTypes'
  BY <1>1, BlankType DEF WireTypes
<1>5. Remembered'
  BY <1>1 DEF IInv, Remembered, Unread
<1>6. Followed'
  BY <1>1, BlankType DEF Followed, Unread
<1>7. Placed'
  <2>1. at' = Begin(Len(seqs) + 1)'
    BY <1>1, <1>2 DEF Begin
  <2>2. \A j \in 1..Len(seqs') : FALSE
    BY <1>1
  <2>3. NearReps' /\ \A k \in 1..3 : Near(saved'.reps[k], dict')
    BY <1>1 DEF IInv, Placed, NearReps
  <2>. QED  BY <1>1, <2>1, <2>2, <2>3 DEF Placed, Unread
<1>8. Understood'
  BY <1>1 DEF IInv, Understood, DecodesAsMeant, Fitting, Unread
<1>. QED  BY <1>3, <1>4, <1>5, <1>6, <1>7, <1>8 DEF IInv

\* A match the finders return is one the decoder will copy.
LEMMA FindSequenceStep == IInv /\ FindSequence => IInv'
<1>. SUFFICES ASSUME IInv, FindSequence PROVE IInv'
  OBVIOUS
<1>0. TypeOK
  BY DEF IInv
<1>1. /\ pc = "search" /\ UNCHANGED <<dict, pc, block, i, wire, enc, saved, dec, trail>>
  BY DEF FindSequence
<1>2. PICK lit \in 0..BlockMax, len \in 1..BlockMax :
        /\ at + lit + len <= block.to /\ at' = at + lit + len
        /\ \E off \in 1..(dict.len + MaxFrame) :
             /\ MayMatch(off, at + lit)
             /\ seqs' = Append(seqs, [lit |-> lit, off |-> off, len |-> len, at |-> at + lit])
  BY DEF FindSequence
<1>3. PICK off \in 1..(dict.len + MaxFrame) :
        /\ MayMatch(off, at + lit)
        /\ seqs' = Append(seqs, [lit |-> lit, off |-> off, len |-> len, at |-> at + lit])
  BY <1>2
<1>. DEFINE s == [lit |-> lit, off |-> off, len |-> len, at |-> at + lit]
<1>4. /\ at \in Nat /\ lit \in Nat /\ len \in Nat /\ len > 0 /\ MaxFrame \in Nat /\ Window \in Nat
      /\ block.to \in 0..MaxFrame /\ block.from \in Nat /\ dict.len \in Nat /\ off \in Nat /\ off > 0
      /\ Window <= U32Max - 4 /\ U32Max \in Nat
  BY <1>0, CodecAssumption, RepAssumption DEF TypeOK
<1>5. \A k \in 1..3 : enc.reps[k] \in Offset
  BY <1>0 DEF TypeOK, Memory, Reps
<1>6. off \in Offset /\ Near(off, dict) /\ off <= dict.len + (at + lit) /\ (off <= Window \/ block.to <= Window)
  <2>1. CASE off <= Window
    BY <2>1, <1>3, <1>4 DEF MayMatch, Near, Offset
  <2>2. CASE off \in Hints
    <3>1. PICK k \in 1..3 : off = enc.reps[k] /\ (block.to <= Window \/ enc.reps[k] <= Window)
      BY <2>2 DEF Hints
    <3>2. Near(enc.reps[k], dict)
      BY DEF IInv, Placed, NearReps
    <3>. QED  BY <3>1, <3>2, <1>3, <1>5 DEF MayMatch
  <2>. QED  BY <2>1, <2>2, <1>3 DEF MayMatch
<1>7. s \in Sequence
  BY <1>4, <1>6 DEF Sequence
<1>8. Legal(s)
  <2>1. /\ s.off = off /\ s.lit = lit /\ s.len = len /\ s.at = at + lit
    OBVIOUS
  <2>2. lit \in 0..MaxFrame /\ len \in 1..MaxFrame /\ (at + lit) + len <= block.to
    BY <1>2, <1>4
  <2>. HIDE DEF s
  <2>. QED  BY <2>1, <2>2, <1>6 DEF Legal
<1>. HIDE DEF s
<1>9. /\ seqs \in Seq(Sequence) /\ seqs' \in Seq(Sequence) /\ Len(seqs') = Len(seqs) + 1
      /\ Len(seqs) \in Nat /\ seqs'[Len(seqs) + 1] = s
      /\ \A j \in 1..Len(seqs) : seqs'[j] = seqs[j]
  BY <1>0, <1>3, <1>7 DEF TypeOK, s
<1>10. TypeOK'
  <2>1. at' \in Nat
    BY <1>2, <1>4
  <2>2. i' \in 0..Len(seqs')
    BY <1>0, <1>1, <1>9 DEF TypeOK
  <2>. QED  BY <1>0, <1>1, <1>9, <2>1, <2>2 DEF TypeOK
<1>11. WireTypes'
  BY <1>1 DEF IInv, WireTypes
<1>12. Remembered'
  BY <1>1 DEF IInv, Remembered, Unread
<1>13. Followed'
  BY <1>1 DEF IInv, Followed, Unread
<1>14. Placed'
  <2>1. NearReps' /\ \A k \in 1..3 : Near(saved'.reps[k], dict')
    BY <1>1 DEF IInv, Placed, NearReps
  <2>2. ASSUME NEW j \in 1..Len(seqs')
        PROVE  Legal(seqs[j])' /\ seqs'[j].at = Begin(j)' + seqs'[j].lit
    <3>1. \A x : Legal(x)' <=> Legal(x)
      BY <1>1 DEF Legal
    <3>2. CASE j = Len(seqs) + 1
      <4>1. seqs'[j] = s /\ s.at = at + lit /\ s.lit = lit
        BY <3>2, <1>9 DEF s
      <4>2. at = Begin(Len(seqs) + 1)
        BY <1>1 DEF IInv, Placed
      <4>3. Begin(j)' = Begin(j)
        BY <1>1, <1>9, <3>2 DEF Begin
      <4>. QED  BY <3>1, <3>2, <4>1, <4>2, <4>3, <1>8
    <3>3. CASE j \in 1..Len(seqs)
      <4>1. Legal(seqs[j]) /\ seqs[j].at = Begin(j) + seqs[j].lit
        BY <1>1, <3>3 DEF IInv, Placed
      <4>2. seqs'[j] = seqs[j]
        BY <1>9, <3>3
      <4>3. Begin(j)' = Begin(j)
        BY <1>1, <1>9, <3>3 DEF Begin
      <4>. QED  BY <3>1, <4>1, <4>2, <4>3
    <3>. QED  BY <1>9, <3>2, <3>3
  <2>3. at' = Begin(Len(seqs) + 1)'
    <3>1. seqs'[Len(seqs')].at + seqs'[Len(seqs')].len = at'
      BY <1>2, <1>9 DEF s
    <3>. QED  BY <1>9, <3>1 DEF Begin
  <2>. QED  BY <1>1, <2>1, <2>2, <2>3 DEF Placed, Unread
<1>15. Understood'
  BY <1>1 DEF IInv, Understood, DecodesAsMeant, Fitting, Unread
<1>. QED  BY <1>10, <1>11, <1>12, <1>13, <1>14, <1>15 DEF IInv

-----------------------------------------------------------------------------
(* Writing a block. *)

LEMMA WriteLiteralsStep == IInv /\ WriteLiterals => IInv'
<1>. SUFFICES ASSUME IInv, WriteLiterals PROVE IInv'
  OBVIOUS
<1>0. TypeOK /\ enc \in Memory /\ block.from \in Nat
  BY DEF IInv, TypeOK
<1>1. /\ pc = "search" /\ saved' = enc /\ trail' = <<enc.reps>>
      /\ pc' = IF seqs = <<>> THEN "sized" ELSE "code"
      /\ UNCHANGED <<dict, block, seqs, at, i, dec>>
  BY DEF WriteLiterals
<1>2a. PICK bytes \in LitSets :
         \E m \in LiteralModes(Literals, bytes, enc.table["huff"], block.from) :
           /\ wire' = [wire EXCEPT !.kind = "compressed", !.lits = m]
           /\ enc' = [enc EXCEPT !.table["huff"] = m.table]
  BY DEF WriteLiterals
<1>2. PICK m \in LiteralModes(Literals, bytes, enc.table["huff"], block.from) :
        /\ wire' = [wire EXCEPT !.kind = "compressed", !.lits = m]
        /\ enc' = [enc EXCEPT !.table["huff"] = m.table]
  BY <1>2a
<1>3. bytes \in SUBSET Nat
  BY CodecAssumption
<1>4. enc.table \in [Kinds \union {"huff"} -> Table] /\ enc.reps \in Reps
  BY <1>0 DEF Memory
<1>5. enc.table["huff"] \in Table
  BY <1>4
<1>6. /\ m.table \in Table /\ m.mode \in {"raw", "treeless", "compressed"}
      /\ m.mode \in {"raw", "treeless"} => m.table = enc.table["huff"]
  BY <1>0, <1>3, <1>5, LiteralsSound
<1>7. /\ enc'.reps = enc.reps /\ enc'.table = [enc.table EXCEPT !["huff"] = m.table]
      /\ enc' = [reps |-> enc'.reps, table |-> enc'.table]
  BY <1>0, <1>2 DEF Memory
<1>8. enc'.table["huff"] = m.table /\ \A k \in Kinds : enc'.table[k] = enc.table[k]
  BY <1>4, <1>7 DEF Kinds
<1>9. enc' \in Memory
  BY <1>4, <1>6, <1>7 DEF Memory
<1>10. /\ wire'.kind = "compressed" /\ wire'.lits = m /\ wire'.codes = wire.codes
       /\ wire'.modes = wire.modes
       /\ wire' = [kind |-> "compressed", lits |-> m, codes |-> wire.codes, modes |-> wire.modes]
  BY <1>2 DEF IInv, WireTypes
<1>11. TypeOK'
  <2>1. trail' \in Seq(Reps)
    BY <1>1, <1>4
  <2>2. wire'.codes \in Seq(Nat) /\ saved' \in Memory /\ dec' \in Memory
    BY <1>0, <1>1, <1>10 DEF TypeOK
  <2>3. pc' \in {"sized", "code"}
    BY <1>1
  <2>. QED  BY <1>0, <1>1, <1>9, <2>1, <2>2, <2>3 DEF TypeOK
<1>12. WireTypes'
  <2>1. m \in Choice
    <3>1. m = [mode |-> m.mode, table |-> m.table]
      BY DEF LiteralModes
    <3>. QED  BY <3>1, <1>6 DEF Choice
  <2>. QED  BY <2>1, <1>10 DEF IInv, WireTypes
<1>13. enc = dec /\ wire.codes = <<>>
  BY <1>1 DEF IInv, Remembered, Followed
<1>14. Remembered'
  BY <1>1, <1>6, <1>8, <1>10, <1>13
     DEF Remembered, Unread, LitsNamed, TablesKept
<1>15. Followed'
  <2>1. Len(trail') = 1 /\ trail'[1] = enc.reps /\ Len(wire'.codes) = 0
    BY <1>1, <1>10, <1>13
  <2>2. i = 0
    BY <1>1 DEF IInv, Followed
  <2>3. seqs = <<>> => Len(seqs) = 0
    OBVIOUS
  <2>. QED  BY <1>1, <1>7, <1>10, <1>13, <2>1, <2>2, <2>3 DEF Followed, Unread
<1>16. Placed'
  <2>1. NearReps' /\ \A k \in 1..3 : Near(saved'.reps[k], dict')
    BY <1>1, <1>7 DEF IInv, Placed, NearReps
  <2>2. \A j \in 1..Len(seqs) : Legal(seqs[j])' /\ seqs[j].at = Begin(j)' + seqs[j].lit
    BY <1>1 DEF IInv, Placed, Legal, Begin
  <2>. QED  BY <1>1, <2>1, <2>2 DEF Placed, Unread
<1>17. Understood'
  BY <1>1 DEF IInv, Understood, DecodesAsMeant, Fitting, Unread
<1>. QED  BY <1>11, <1>12, <1>14, <1>15, <1>16, <1>17 DEF IInv

LEMMA KeepCompressedStep == IInv /\ KeepCompressed => IInv'
<1>. SUFFICES ASSUME IInv, KeepCompressed PROVE IInv'
  OBVIOUS
<1>1. /\ pc = "sized" /\ pc' = "decode"
      /\ UNCHANGED <<dict, block, seqs, at, i, wire, enc, saved, dec, trail>>
  BY DEF KeepCompressed
<1>2. CASE wire.kind = "compressed"
  <2>1. Unread /\ Unread'
    BY <1>1, <1>2 DEF Unread
  <2>2. TypeOK'
    BY <1>1 DEF IInv, TypeOK
  <2>3. WireTypes'
    BY <1>1 DEF IInv, WireTypes
  <2>4. Remembered'
    BY <1>1, <1>2, <2>1 DEF IInv, Remembered, LitsNamed, TablesNamed, TableNamed, TablesKept
  <2>5. Followed'
    BY <1>1, <2>1 DEF IInv, Followed, Coded
  <2>6. Placed'
    BY <1>1, <2>1 DEF IInv, Placed, NearReps, Legal, Begin
  <2>7. Understood'
    BY <1>1, <2>1 DEF IInv, Understood, DecodesAsMeant, Fitting, Codes
  <2>. QED  BY <2>2, <2>3, <2>4, <2>5, <2>6, <2>7 DEF IInv
<1>. QED  BY <1>1, <1>2 DEF IInv, Followed

\* The offsets after each sequence are offsets.
LEMMA TrailType ==
  ASSUME TypeOK, NEW j \in 1..Len(trail)
  PROVE  trail[j] \in Reps
BY DEF TypeOK

LEMMA CodeSequenceStep == IInv /\ CodeSequence => IInv'
<1>. SUFFICES ASSUME IInv, CodeSequence PROVE IInv'
  OBVIOUS
<1>. DEFINE s == seqs[i + 1]
            c == RepCode(s.off, s.lit = 0, enc.reps)
            r == RepMove(s.off, s.lit = 0, enc.reps)
<1>0. TypeOK /\ enc \in Memory /\ enc.reps \in Reps /\ i \in Nat /\ trail \in Seq(Reps)
      /\ wire.codes \in Seq(Nat)
  BY DEF IInv, TypeOK, Memory
<1>1. /\ pc = "code" /\ i < Len(seqs) /\ i' = i + 1
      /\ wire' = [wire EXCEPT !.codes = Append(@, c)]
      /\ enc' = [enc EXCEPT !.reps = r]
      /\ trail' = Append(trail, r)
      /\ UNCHANGED <<dict, pc, block, seqs, at, saved, dec>>
  BY DEF CodeSequence
<1>2. /\ i + 1 \in 1..Len(seqs) /\ s.lit \in Nat /\ s.off \in Offset
      /\ (s.lit = 0) \in BOOLEAN
  BY <1>0, <1>1, SeqTypes
<1>3. c \in Nat /\ r \in Reps /\ \A k \in 1..3 : r[k] \in {s.off, enc.reps[1], enc.reps[2], enc.reps[3]}
  BY <1>0, <1>2, RepCodeType, RepMoveType
<1>4. /\ Len(wire.codes) = i /\ Len(trail) = i + 1 /\ trail[i + 1] = enc.reps /\ dec.reps = trail[1]
      /\ \A j \in 1..i : Coded(j)
  BY <1>1 DEF IInv, Followed
<1>. HIDE DEF c, r
<1>5. /\ wire'.kind = wire.kind /\ wire'.lits = wire.lits /\ wire'.modes = wire.modes
      /\ wire'.codes = Append(wire.codes, c)
      /\ wire' = [kind |-> wire.kind, lits |-> wire.lits, codes |-> wire'.codes, modes |-> wire.modes]
  BY <1>1 DEF IInv, WireTypes
<1>6. enc'.reps = r /\ enc'.table = enc.table /\ enc' \in Memory
  BY <1>0, <1>1, <1>3 DEF Memory
<1>7. /\ wire'.codes \in Seq(Nat) /\ Len(wire'.codes) = i + 1 /\ wire'.codes[i + 1] = c
      /\ \A j \in 1..i : wire'.codes[j] = wire.codes[j]
  BY <1>0, <1>3, <1>4, <1>5
<1>8. /\ trail' \in Seq(Reps) /\ Len(trail') = i + 2 /\ trail'[i + 2] = r
      /\ \A j \in 1..(i + 1) : trail'[j] = trail[j]
  BY <1>0, <1>1, <1>3, <1>4
<1>9. TypeOK'
  <2>1. i' \in 0..Len(seqs')
    BY <1>0, <1>1, <1>2
  <2>. QED  BY <1>0, <1>1, <1>6, <1>7, <1>8, <2>1 DEF TypeOK
<1>10. WireTypes'
  BY <1>5, <1>7 DEF IInv, WireTypes
<1>11. Remembered'
  BY <1>1, <1>5, <1>6 DEF IInv, Remembered, Unread, LitsNamed, TablesKept
<1>12. Followed'
  <2>1. ASSUME NEW j \in 1..Len(wire'.codes)
        PROVE  Coded(j)'
    <3>1. CASE j = i + 1
      <4>1. trail'[i + 1] = enc.reps
        BY <1>0, <1>4, <1>8
      <4>2. j + 1 = i + 2
        BY <3>1, <1>0
      <4>. QED  BY <3>1, <4>1, <4>2, <1>1, <1>7, <1>8 DEF Coded, c, r
    <3>2. CASE j \in 1..i
      <4>1. j \in 1..(i + 1) /\ j + 1 \in 1..(i + 1)
        BY <3>2, <1>0
      <4>2. Coded(j)
        BY <1>4, <3>2
      <4>3. trail'[j] = trail[j] /\ trail'[j + 1] = trail[j + 1] /\ wire'.codes[j] = wire.codes[j]
        BY <4>1, <3>2, <1>7, <1>8
      <4>. QED  BY <4>2, <4>3, <1>1 DEF Coded
    <3>. QED  BY <1>0, <1>7, <3>1, <3>2
  <2>2. trail'[1] = trail[1]
    BY <1>0, <1>8
  <2>3. Len(trail') = Len(wire'.codes) + 1 /\ trail'[Len(trail')] = enc'.reps
    BY <1>0, <1>6, <1>7, <1>8
  <2>4. wire'.kind = "compressed"
    BY <1>1, <1>5 DEF IInv, Followed
  <2>. QED  BY <1>1, <1>4, <1>7, <2>1, <2>2, <2>3, <2>4 DEF Followed, Unread
<1>13. Placed'
  <2>1. Near(s.off, dict) /\ \A k \in 1..3 : Near(enc.reps[k], dict)
    BY <1>1, <1>2 DEF IInv, Placed, NearReps, Legal
  <2>2. \A k \in 1..3 : Near(r[k], dict)
    BY <1>3, <2>1
  <2>3. NearReps' /\ \A k \in 1..3 : Near(saved'.reps[k], dict')
    BY <1>1, <1>6, <2>2 DEF IInv, Placed, NearReps
  <2>4. \A j \in 1..Len(seqs) : Legal(seqs[j])' /\ seqs[j].at = Begin(j)' + seqs[j].lit
    BY <1>1 DEF IInv, Placed, Legal, Begin
  <2>. QED  BY <1>1, <2>3, <2>4 DEF Placed, Unread
<1>14. Understood'
  BY <1>1 DEF IInv, Understood, DecodesAsMeant, Fitting, Unread
<1>. QED  BY <1>9, <1>10, <1>11, <1>12, <1>13, <1>14 DEF IInv

\* The tables of the format have every code of a block whose sequences are coded.
LEMMA CodesCovered ==
  ASSUME IInv, DefaultsCover, pc = "code", i = Len(seqs), NEW k \in Kinds
  PROVE  Codes(k) \subseteq DefaultCodes[k]
<1>1. TypeOK /\ Len(wire.codes) = Len(seqs) /\ Len(trail) = Len(seqs) + 1 /\ dict \in Dicts
  BY DEF IInv, Followed, TypeOK
<1>2. \A j \in 1..Len(seqs) : seqs[j].lit \in 0..MaxFrame /\ seqs[j].len \in 1..MaxFrame
                              /\ Near(seqs[j].off, dict)
  BY DEF IInv, Placed, Legal
<1>3. ASSUME NEW j \in 1..Len(seqs)
      PROVE  OfCode(wire.codes[j]) \in DefaultCodes["of"]
  <2>1. j \in 1..Len(trail)
    BY <1>1, SeqTypes
  <2>2. trail[j] \in Reps
    BY <1>1, <2>1, TrailType
  <2>3. wire.codes[j] = RepCode(seqs[j].off, seqs[j].lit = 0, trail[j])
    BY <1>1 DEF IInv, Followed, Coded
  <2>4. seqs[j].off \in Offset /\ (seqs[j].lit = 0) \in BOOLEAN
    BY <1>1, SeqTypes
  <2>5. wire.codes[j] \in 1..3 \/ wire.codes[j] = seqs[j].off + 3
    BY <2>2, <2>3, <2>4, RepCodeRange
  <2>. QED  BY <1>1, <1>2, <2>4, <2>5 DEF DefaultsCover
<1>4. DOMAIN seqs = 1..Len(seqs)
  BY <1>1, SeqTypes
<1>5. CASE k = "ll"
  <2>1. 0..MaxFrame \subseteq DefaultCodes["ll"]
    BY DEF DefaultsCover
  <2>. QED  BY <1>2, <1>4, <1>5, <2>1 DEF Codes
<1>6. CASE k = "ml"
  <2>1. 1..MaxFrame \subseteq DefaultCodes["ml"]
    BY DEF DefaultsCover
  <2>. QED  BY <1>2, <1>4, <1>6, <2>1 DEF Codes
<1>7. CASE k = "of"
  BY <1>3, <1>4, <1>7 DEF Codes
<1>. QED  BY <1>5, <1>6, <1>7 DEF Kinds

LEMMA SelectTablesStep == IInv /\ SelectTables => IInv'
<1>. SUFFICES ASSUME IInv, SelectTables PROVE IInv'
  OBVIOUS
<1>0. TypeOK /\ enc \in Memory /\ block.from \in Nat /\ Len(seqs) \in Nat
  BY SeqTypes DEF IInv, TypeOK
<1>1. /\ pc = "code" /\ pc' = "sized" /\ i = Len(seqs)
      /\ UNCHANGED <<dict, block, seqs, at, i, saved, dec, trail>>
  BY DEF SelectTables
<1>. DEFINE Choices(k) == SelectTable(Codes(k), Len(seqs), enc.table[k], Predefined(k), block.from)
            M(ll, of, ml) ==
              [k \in Kinds |-> CASE k = "ll" -> ll [] k = "of" -> of [] k = "ml" -> ml]
<1>2. \E ll \in Choices("ll"), of \in Choices("of"), ml \in Choices("ml") :
        /\ wire' = [wire EXCEPT !.modes = M(ll, of, ml)]
        /\ enc' = [enc EXCEPT !.table = [k \in DOMAIN @ |->
                     IF k \in Kinds THEN Keeps(M(ll, of, ml)[k], @[k]) ELSE @[k]]]
  BY DEF SelectTables
<1>3. PICK ll \in Choices("ll"), of \in Choices("of"), ml \in Choices("ml") :
        /\ wire' = [wire EXCEPT !.modes = M(ll, of, ml)]
        /\ enc' = [enc EXCEPT !.table = [k \in DOMAIN @ |->
                     IF k \in Kinds THEN Keeps(M(ll, of, ml)[k], @[k]) ELSE @[k]]]
  BY <1>2
<1>. DEFINE m == M(ll, of, ml)
<1>4. \A k \in Kinds : m[k] \in Choices(k)
  BY DEF Kinds
<1>5. DOMAIN m = Kinds
  OBVIOUS
<1>6. wire' = [wire EXCEPT !.modes = m]
  BY <1>3
<1>7. enc' = [enc EXCEPT !.table = [k \in DOMAIN enc.table |->
                     IF k \in Kinds THEN m[k].table ELSE enc.table[k]]]
  BY <1>3 DEF Keeps
<1>8. ASSUME NEW S, \A k \in Kinds : m[k] \in S
      PROVE  m \in [Kinds -> S]
  <2>. DEFINE f(k) == CASE k = "ll" -> ll [] k = "of" -> of [] k = "ml" -> ml
  <2>1. m = [k \in Kinds |-> f(k)]
    OBVIOUS
  <2>2. \A k \in Kinds : f(k) \in S
    BY <1>8, <2>1
  <2>. HIDE DEF f, m
  <2>. QED  BY <2>1, <2>2
<1>. HIDE DEF m, M
<1>9. ASSUME NEW k \in Kinds
      PROVE  /\ m[k].table \in Table /\ m[k].table.kind # "none"
             /\ m[k].mode \in {"repeat", "predefined", "rle", "compressed"}
             /\ m[k].mode = "repeat" => m[k].table = enc.table[k]
             /\ m[k].mode = "predefined" => m[k].table = Predefined(k)
             /\ Codes(k) \subseteq DefaultCodes[k] => Codes(k) \subseteq m[k].table.codes
             /\ m[k] = [mode |-> m[k].mode, table |-> m[k].table]
  <2>1. Codes(k) \in SUBSET Nat /\ enc.table[k] \in Table
    BY <1>0, CodesType DEF Memory
  <2>2. m[k] \in SelectTable(Codes(k), Len(seqs), enc.table[k], Predefined(k), block.from)
    BY <1>4
  <2>3. m[k] = [mode |-> m[k].mode, table |-> m[k].table]
    BY <2>2 DEF SelectTable
  <2>. HIDE DEF Choices
  <2>. QED  BY <1>0, <2>1, <2>2, <2>3, SelectTableSound
<1>. HIDE DEF Choices
<1>10. /\ wire'.kind = "compressed" /\ wire'.lits = wire.lits /\ wire'.codes = wire.codes
       /\ wire'.modes = m
       /\ wire' = [kind |-> wire.kind, lits |-> wire.lits, codes |-> wire.codes, modes |-> m]
  BY <1>1, <1>6 DEF IInv, WireTypes, Followed
<1>11. /\ enc'.reps = enc.reps
       /\ enc'.table = [k \in Kinds \union {"huff"} |-> IF k \in Kinds THEN m[k].table ELSE enc.table[k]]
       /\ enc' = [reps |-> enc.reps, table |-> enc'.table]
  BY <1>0, <1>7 DEF Memory
<1>12. enc'.table["huff"] = enc.table["huff"] /\ \A k \in Kinds : enc'.table[k] = m[k].table
  BY <1>11 DEF Kinds
<1>13. enc' \in Memory
  <2>1. \A k \in Kinds \union {"huff"} : (IF k \in Kinds THEN m[k].table ELSE enc.table[k]) \in Table
    BY <1>0, <1>9 DEF Memory
  <2>2. enc.reps \in Reps
    BY <1>0 DEF Memory
  <2>. QED  BY <1>11, <2>1, <2>2 DEF Memory
<1>14. TypeOK'
  BY <1>0, <1>1, <1>10, <1>13 DEF TypeOK
<1>15. WireTypes'
  <2>1. ASSUME NEW k \in Kinds PROVE m[k] \in Choice
    <3>1. \A x, y : /\ x \in {"repeat", "predefined", "rle", "compressed"}
                    /\ y \in Table
                    => [mode |-> x, table |-> y] \in Choice
      BY DEF Choice
    <3>. QED  BY <1>9, <3>1
  <2>2. m \in [Kinds -> Choice]
    BY <1>8, <2>1
  <2>. QED  BY <1>10, <2>2 DEF IInv, WireTypes
<1>16. \A k \in Kinds : enc.table[k] = dec.table[k]
  BY <1>1 DEF IInv, Remembered, TablesKept
<1>17. Remembered'
  <2>1. LitsNamed'
    BY <1>1, <1>10, <1>12 DEF IInv, Remembered, LitsNamed
  <2>2. ASSUME NEW k \in Kinds
        PROVE  TableNamed(k)'
    BY <1>1, <1>9, <1>10, <1>12, <1>16 DEF TableNamed, Predefined
  <2>3. TablesNamed'
    BY <2>2 DEF TablesNamed
  <2>4. seqs # <<>>
    BY <1>1 DEF IInv, Followed
  <2>. QED  BY <1>1, <2>1, <2>3, <2>4 DEF IInv, Remembered, Unread
<1>18. Followed'
  BY <1>1, <1>10, <1>11 DEF IInv, Followed, Unread, Coded
<1>19. Placed'
  <2>1. NearReps' /\ \A k \in 1..3 : Near(saved'.reps[k], dict')
    BY <1>1, <1>11 DEF IInv, Placed, NearReps
  <2>2. \A j \in 1..Len(seqs) : Legal(seqs[j])' /\ seqs[j].at = Begin(j)' + seqs[j].lit
    BY <1>1 DEF IInv, Placed, Legal, Begin
  <2>. QED  BY <1>1, <2>1, <2>2 DEF Placed, Unread
<1>20. Understood'
  <2>1. ASSUME DefaultsCover, NEW k \in Kinds
        PROVE  Codes(k)' \subseteq wire'.modes[k].table.codes
    <3>1. Codes(k)' = Codes(k)
      BY <1>1, <1>10 DEF Codes
    <3>. QED  BY <1>1, <1>9, <1>10, <2>1, <3>1, CodesCovered
  <2>. QED  BY <1>1, <2>1 DEF Understood, DecodesAsMeant, Fitting
<1>. QED  BY <1>14, <1>15, <1>17, <1>18, <1>19, <1>20 DEF IInv

-----------------------------------------------------------------------------
(* Reading a block. *)

LEMMA DecodeLiteralsStep == IInv /\ DecodeLiterals => IInv'
<1>. SUFFICES ASSUME IInv, DecodeLiterals PROVE IInv'
  OBVIOUS
<1>0. TypeOK /\ dec \in Memory
  BY DEF IInv, TypeOK
<1>1. /\ pc = "decode" /\ wire.kind = "compressed"
      /\ UNCHANGED <<dict, block, seqs, at, i, wire, enc, saved, trail>>
  BY DEF DecodeLiterals
<1>2. Unread
  BY <1>1 DEF Unread
<1>3. LitsNamed
  BY <1>2 DEF IInv, Remembered
<1>4. /\ pc' = "tables"
      /\ dec' = IF wire.lits.mode = "compressed"
                THEN [dec EXCEPT !.table["huff"] = wire.lits.table] ELSE dec
  BY <1>3 DEF LitsNamed, DecodeLiterals
<1>5. /\ dec.table \in [Kinds \union {"huff"} -> Table] /\ dec.reps \in Reps
      /\ dec = [reps |-> dec.reps, table |-> dec.table]
  BY <1>0 DEF Memory
<1>6. wire.lits.table \in Table
  BY DEF IInv, WireTypes, Choice
<1>7. /\ dec'.reps = dec.reps /\ dec' \in Memory
      /\ dec'.table["huff"] = wire.lits.table
      /\ \A k \in Kinds : dec'.table[k] = dec.table[k]
  <2>1. CASE wire.lits.mode = "compressed"
    <3>1. /\ dec'.reps = dec.reps /\ dec'.table = [dec.table EXCEPT !["huff"] = wire.lits.table]
          /\ dec' = [reps |-> dec'.reps, table |-> dec'.table]
      BY <2>1, <1>4, <1>5
    <3>2. dec'.table \in [Kinds \union {"huff"} -> Table]
      BY <3>1, <1>5, <1>6
    <3>3. dec' \in Memory
      BY <3>1, <3>2, <1>5 DEF Memory
    <3>. QED  BY <3>1, <3>3, <1>5 DEF Kinds
  <2>2. CASE wire.lits.mode # "compressed"
    BY <2>2, <1>0, <1>3, <1>4 DEF LitsNamed
  <2>. QED  BY <2>1, <2>2
<1>8. TypeOK'
  BY <1>0, <1>1, <1>4, <1>7 DEF TypeOK
<1>9. WireTypes'
  BY <1>1 DEF IInv, WireTypes
<1>10. Remembered'
  <2>1. enc.table["huff"] = dec'.table["huff"]
    BY <1>3, <1>7 DEF LitsNamed
  <2>2. IF seqs = <<>> THEN TablesKept ELSE TablesNamed
    BY <1>2 DEF IInv, Remembered
  <2>3. IF seqs = <<>> THEN TablesKept' ELSE TablesNamed'
    BY <2>2, <1>1, <1>7 DEF TablesKept, TablesNamed, TableNamed, Predefined
  <2>. QED  BY <1>1, <1>4, <2>1, <2>3 DEF Remembered, Unread
<1>11. Followed'
  BY <1>1, <1>2, <1>4, <1>7 DEF IInv, Followed, Unread, Coded
<1>12. Placed'
  BY <1>1, <1>2, <1>4 DEF IInv, Placed, NearReps, Unread, Legal, Begin
<1>13. Understood'
  BY <1>1, <1>2, <1>4 DEF IInv, Understood, DecodesAsMeant, Fitting, Unread, Codes
<1>. QED  BY <1>8, <1>9, <1>10, <1>11, <1>12, <1>13 DEF IInv

LEMMA DecodeTablesStep == IInv /\ DecodeTables => IInv'
<1>. SUFFICES ASSUME IInv, DecodeTables PROVE IInv'
  OBVIOUS
<1>0. TypeOK /\ dec \in Memory /\ enc \in Memory /\ Len(seqs) \in Nat /\ wire.codes \in Seq(Nat)
      /\ block.from \in Nat
  BY SeqTypes DEF IInv, TypeOK
<1>1. pc = "tables" /\ UNCHANGED <<dict, block, enc>>
  BY DEF DecodeTables
<1>2. /\ Len(wire.codes) = Len(seqs) /\ i = Len(seqs) /\ Len(trail) = Len(seqs) + 1
      /\ trail[Len(trail)] = enc.reps /\ dec.reps = trail[1]
      /\ \A j \in 1..Len(wire.codes) : Coded(j)
  BY <1>1 DEF IInv, Followed
<1>3. enc.table["huff"] = dec.table["huff"] /\ IF seqs = <<>> THEN TablesKept ELSE TablesNamed
  BY <1>1 DEF IInv, Remembered
<1>4. CASE wire.codes = <<>>
  <2>1. seqs = <<>> /\ Len(seqs) = 0
    BY <1>0, <1>2, <1>4 DEF TypeOK
  <2>2. enc.reps = dec.reps
    BY <1>2, <2>1
  <2>3. enc = dec
    BY <1>0, <1>3, <2>1, <2>2, SameMemory DEF TablesKept
  <2>. QED  BY <1>1, <1>4, <2>3, BlockReadStep DEF DecodeTables
<1>5. CASE wire.codes # <<>>
  <2>. DEFINE read == [k \in Kinds |-> TableRead(k)]
              none == \E k \in Kinds : read[k].kind = "none"
              other == \E k \in Kinds : \/ read[k] # wire.modes[k].table
                                        \/ ~(Codes(k) \subseteq read[k].codes)
  <2>1. TablesNamed /\ seqs # <<>>
    BY <1>0, <1>2, <1>3, <1>5 DEF TypeOK
  <2>2. \A k \in Kinds : read[k] = wire.modes[k].table /\ read[k].kind # "none"
    BY <2>1 DEF TablesNamed, TableNamed, TableRead
  <2>3. \A k \in Kinds : enc.table[k] = read[k]
    BY <2>1, <2>2 DEF TablesNamed, TableNamed
  <2>4. (CASE none -> pc' = "refused" /\ UNCHANGED <<dec, at, i, seqs, wire, saved, trail>>
          [] ~none /\ other -> pc' = "garbled" /\ UNCHANGED <<dec, at, i, seqs, wire, saved, trail>>
          [] OTHER -> /\ pc' = "execute"
                      /\ dec' = [dec EXCEPT !.table =
                                   [k \in DOMAIN @ |-> IF k \in Kinds THEN read[k] ELSE @[k]]]
                      /\ at' = block.from /\ i' = 0
                      /\ UNCHANGED <<seqs, wire, saved, trail>>)
    BY <1>5, Zenon DEF DecodeTables
  <2>5. ~none
    BY <2>2
  <2>. HIDE DEF none, other, read
  <2>6. CASE other
    <3>1. pc' = "garbled" /\ UNCHANGED <<dec, at, i, seqs, wire, saved, trail>>
      BY <2>4, <2>5, <2>6
    <3>2. ~DefaultsCover
      BY <1>1, <2>1, <2>2, <2>6 DEF IInv, Understood, Fitting, other
    <3>3. TypeOK'
      BY <1>1, <3>1 DEF IInv, TypeOK
    <3>4. WireTypes'
      BY <3>1 DEF IInv, WireTypes
    <3>5. Remembered' /\ Followed'
      BY <3>1 DEF Remembered, Followed, Unread
    <3>6. Placed'
      BY <1>1, <3>1 DEF IInv, Placed, NearReps, Unread
    <3>7. Understood'
      BY <3>2 DEF Understood, DefaultsCover
    <3>. QED  BY <3>3, <3>4, <3>5, <3>6, <3>7 DEF IInv
  <2>7. CASE ~other
    <3>1. /\ pc' = "execute" /\ at' = block.from /\ i' = 0 /\ UNCHANGED <<seqs, wire, saved, trail>>
          /\ dec' = [dec EXCEPT !.table =
                       [k \in DOMAIN @ |-> IF k \in Kinds THEN read[k] ELSE @[k]]]
      BY <2>4, <2>5, <2>7
    <3>2. /\ dec.table \in [Kinds \union {"huff"} -> Table] /\ dec.reps \in Reps
          /\ enc.table \in [Kinds \union {"huff"} -> Table]
      BY <1>0 DEF Memory
    <3>3. /\ dec'.reps = dec.reps
          /\ dec'.table = [k \in Kinds \union {"huff"} |-> IF k \in Kinds THEN read[k] ELSE dec.table[k]]
          /\ dec' = [reps |-> dec'.reps, table |-> dec'.table]
      BY <1>0, <3>1, <3>2 DEF Memory
    <3>4. \A k \in Kinds \union {"huff"} : dec'.table[k] = enc.table[k]
      BY <1>3, <2>3, <3>3 DEF Kinds
    <3>5. dec' \in Memory
      <4>1. \A k \in Kinds \union {"huff"} : dec'.table[k] \in Table
        BY <3>2, <3>4
      <4>2. dec'.table \in [Kinds \union {"huff"} -> Table]
        BY <3>3, <4>1
      <4>. QED  BY <3>2, <3>3, <4>2 DEF Memory
    <3>6. TypeOK'
      <4>1. i' \in 0..Len(seqs') /\ at' \in Nat
        BY <1>0, <3>1
      <4>. QED  BY <1>0, <1>1, <3>1, <3>5, <4>1 DEF TypeOK
    <3>7. WireTypes'
      BY <3>1 DEF IInv, WireTypes
    <3>8. Remembered'
      BY <1>1, <3>1, <3>4 DEF Remembered, Unread, TablesKept
    <3>9. Followed'
      BY <1>1, <1>2, <3>1, <3>3 DEF Followed, Unread, Coded
    <3>10. Placed'
      <4>1. NearReps' /\ \A k \in 1..3 : Near(saved'.reps[k], dict')
        BY <1>1, <3>1 DEF IInv, Placed, NearReps
      <4>2. \A j \in 1..Len(seqs) : Legal(seqs[j])' /\ seqs[j].at = Begin(j)' + seqs[j].lit
        BY <1>1, <3>1 DEF IInv, Placed, Legal, Begin
      <4>3. at' = Begin(i + 1)'
        BY <1>1, <3>1 DEF Begin
      <4>. QED  BY <3>1, <4>1, <4>2, <4>3 DEF Placed, Unread
    <3>11. Understood'
      <4>1. \A k \in Kinds : Codes(k)' = Codes(k)
        BY <3>1 DEF Codes
      <4>2. Understood
        BY DEF IInv
      <4>. QED  BY <4>1, <4>2, <1>1, <3>1 DEF Understood, DecodesAsMeant, Fitting, Unread
    <3>. QED  BY <3>6, <3>7, <3>8, <3>9, <3>10, <3>11 DEF IInv
  <2>. QED  BY <2>6, <2>7
<1>. QED  BY <1>4, <1>5

\* The decoder resolves the offset that was found and may copy from there.
LEMMA ExecuteSequenceStep == IInv /\ ExecuteSequence => IInv'
<1>. SUFFICES ASSUME IInv, ExecuteSequence PROVE IInv'
  OBVIOUS
<1>. DEFINE s == seqs[i + 1]
            r == ResolveOffset(wire.codes[i + 1], s.lit = 0, dec.reps)
            new == RepMove(s.off, s.lit = 0, dec.reps)
<1>0. /\ TypeOK /\ dec \in Memory /\ dec.reps \in Reps /\ i \in Nat /\ Len(seqs) \in Nat
      /\ Window \in Nat
  BY SeqTypes, CodecAssumption DEF IInv, TypeOK, Memory
<1>1. /\ pc = "execute" /\ i < Len(wire.codes)
      /\ UNCHANGED <<dict, block, seqs, wire, enc, saved, trail>>
  BY DEF ExecuteSequence
<1>2. /\ Len(wire.codes) = Len(seqs) /\ Len(trail) = Len(wire.codes) + 1
      /\ trail[Len(trail)] = enc.reps /\ dec.reps = trail[i + 1]
      /\ \A j \in 1..Len(wire.codes) : Coded(j)
  BY <1>1 DEF IInv, Followed
<1>3. i + 1 \in 1..Len(seqs)
  BY <1>0, <1>1, <1>2
<1>4. /\ s.lit \in Nat /\ s.off \in Offset /\ s.len \in Nat /\ s.at \in Nat /\ (s.lit = 0) \in BOOLEAN
  BY <1>0, <1>3, SeqTypes
<1>5. /\ wire.codes[i + 1] = RepCode(s.off, s.lit = 0, dec.reps)
      /\ trail[(i + 1) + 1] = new
  BY <1>2, <1>3 DEF Coded
<1>6. r.off = s.off /\ r.reps = new
  <2>1. ASSUME NEW reps \in Reps, NEW off \in Offset, NEW b \in BOOLEAN, NEW code,
               code = RepCode(off, b, reps)
        PROVE  /\ ResolveOffset(code, b, reps).off = off
               /\ ResolveOffset(code, b, reps).reps = RepMove(off, b, reps)
    BY <2>1, RoundTrip
  <2>. DEFINE off == s.off
              code == wire.codes[i + 1]
              b == (s.lit = 0)
  <2>2. off \in Offset /\ b \in BOOLEAN /\ code = RepCode(off, b, dec.reps)
    BY <1>4, <1>5
  <2>3. r = ResolveOffset(code, b, dec.reps) /\ new = RepMove(off, b, dec.reps)
    OBVIOUS
  <2>. HIDE DEF off, code, b, s, r, new
  <2>4. /\ ResolveOffset(code, b, dec.reps).off = off
        /\ ResolveOffset(code, b, dec.reps).reps = RepMove(off, b, dec.reps)
    BY <2>1, <2>2, <1>0
  <2>. QED  BY <2>3, <2>4 DEF off
<1>7. Legal(s) /\ s.at = at + s.lit /\ at = Begin(i + 1)
  BY <1>1, <1>3 DEF IInv, Placed
<1>8. new \in Reps
  BY <1>0, <1>4, RepMoveType
<1>. HIDE DEF s, r, new
<1>9. s.off # NoOffset
  BY <1>4 DEF NoOffset, Offset
<1>10. ~Refuses(s.off, s.at)
  <2>1. dict.len \in Nat /\ block.to \in Nat /\ s.off \in Nat
    BY <1>0, <1>4, CodecAssumption DEF TypeOK, Offset
  <2>2. s.len > 0
    BY <1>0, <1>3, SeqTypes DEF s
  <2>. QED  BY <2>1, <2>2, <1>0, <1>4, <1>7 DEF Legal, Refuses
<1>11. /\ pc' = "execute" /\ dec' = [dec EXCEPT !.reps = r.reps]
       /\ at' = at + s.lit + s.len /\ i' = i + 1
  <2>1. IF r.off = NoOffset \/ Refuses(r.off, at + s.lit)
        THEN pc' = "refused" /\ UNCHANGED <<dec, at, i>>
        ELSE /\ pc' = IF r.off = s.off THEN pc ELSE "garbled"
             /\ dec' = [dec EXCEPT !.reps = r.reps]
             /\ at' = at + s.lit + s.len /\ i' = i + 1
    BY DEF ExecuteSequence, s, r
  <2>. QED  BY <2>1, <1>1, <1>6, <1>7, <1>9, <1>10
<1>12. dec'.reps = new /\ dec'.table = dec.table /\ dec' \in Memory
  BY <1>0, <1>6, <1>8, <1>11 DEF Memory
<1>13. TypeOK'
  <2>1. i' \in 0..Len(seqs')
    BY <1>0, <1>1, <1>3, <1>11
  <2>2. at' \in Nat
    BY <1>0, <1>4, <1>11 DEF TypeOK
  <2>. QED  BY <1>0, <1>1, <1>11, <1>12, <2>1, <2>2 DEF TypeOK
<1>14. WireTypes'
  BY <1>1 DEF IInv, WireTypes
<1>15. Remembered'
  BY <1>1, <1>11, <1>12 DEF IInv, Remembered, Unread, TablesKept
<1>16. Followed'
  BY <1>0, <1>1, <1>2, <1>5, <1>11, <1>12 DEF Followed, Unread, Coded
<1>17. Placed'
  <2>1. NearReps' /\ \A k \in 1..3 : Near(saved'.reps[k], dict')
    BY <1>1 DEF IInv, Placed, NearReps
  <2>2. \A j \in 1..Len(seqs) : Legal(seqs[j])' /\ seqs[j].at = Begin(j)' + seqs[j].lit
    BY <1>1 DEF IInv, Placed, Legal, Begin
  <2>3. at' = s.at + s.len
    BY <1>7, <1>11
  <2>4. at' = Begin(i + 1)'
    BY <1>0, <1>1, <1>11, <2>3 DEF Begin, s
  <2>. QED  BY <1>1, <1>11, <2>1, <2>2, <2>4 DEF Placed, Unread
<1>18. Understood'
  <2>1. \A k \in Kinds : Codes(k)' = Codes(k)
    BY <1>1 DEF Codes
  <2>2. Understood
    BY DEF IInv
  <2>. QED  BY <2>1, <2>2, <1>1, <1>11 DEF Understood, DecodesAsMeant, Fitting, Unread
<1>. QED  BY <1>13, <1>14, <1>15, <1>16, <1>17, <1>18 DEF IInv

-----------------------------------------------------------------------------
(* The theorems. *)

\* The inductive invariant: how far apart encoder and decoder are at every point of
\* every block.
THEOREM Invariant == Spec => []IInv
<1>1. IInv /\ [Next]_vars => IInv'
  BY StutterStep, EmptyBlockStep, RleBlockStep, GiveUpStep, FallBackStep, DecodeRawStep,
     FinishBlockStep, NextFrameStep, SearchStep, FindSequenceStep, WriteLiteralsStep,
     KeepCompressedStep, CodeSequenceStep, SelectTablesStep, DecodeLiteralsStep,
     DecodeTablesStep, ExecuteSequenceStep
  DEF Next, Encode, Decode
<1>. QED  BY InitInvariant, <1>1, PTL DEF Spec

\* Every variable keeps its type, for every window, dictionary and table choice.
THEOREM TypeCorrect == Spec => []TypeOK
<1>1. IInv => TypeOK
  BY DEF IInv
<1>. QED  BY Invariant, <1>1, PTL

\* Between blocks, encoder and decoder remember the same offsets and tables, whatever
\* was compressed, thrown away and written raw.
THEOREM InStepHolds == Spec => []InStep
<1>1. IInv => InStep
  BY DEF IInv, Remembered, InStep
<1>. QED  BY Invariant, <1>1, PTL

\* If the format's own tables have the codes of all offsets the window and the
\* dictionaries allow, no block is refused and each decodes to what was meant.
THEOREM DecodesAsMeantHolds == DefaultsCover => (Spec => []DecodesAsMeant)
<1>1. DefaultsCover /\ IInv => DecodesAsMeant
  BY DEF IInv, Understood
<1>2. SUFFICES ASSUME DefaultsCover PROVE Spec => []DecodesAsMeant
  OBVIOUS
<1>3. IInv => DecodesAsMeant
  BY <1>1, <1>2
<1>. QED  BY Invariant, <1>3, PTL
=============================================================================
