----------------------------- MODULE BlockCodec -----------------------------
(***************************************************************************)
(* What the block encoder (encode_block_inner) and the block decoder       *)
(* (decode_compressed_block) remember from one block of a frame to the     *)
(* next: the repeat offsets, the Huffman table and the three sequence      *)
(* tables.  Nothing of it is in the frame: a frame decodes only if both    *)
(* sides change it alike, the blocks the encoder tries to compress and     *)
(* then writes raw included.                                               *)
(*                                                                         *)
(* The encoder writes a block, the decoder reads it; they share nothing    *)
(* but the frame, so their steps are not interleaved.  A table is known by *)
(* the codes it can encode and by the block it was built in.               *)
(***************************************************************************)
EXTENDS RepCodes, Sequences, FiniteSets

CONSTANTS Dicts,         \* the dictionaries: length, repeat offsets, entropy tables or none
          Window,        \* 1 << window_log
          BlockMax,      \* block_max
          MaxFrame,      \* bound: the bytes of a frame
          MaxSeqs,       \* bound: the sequences of a block
          LitSets,       \* the sets of literal bytes a block may have
          FewLits,       \* 8: fewer literals are written raw
          FewSeqs,       \* 8: for fewer sequences no table is built
          DefaultCodes,  \* of each kind, the codes the predefined table has
          DictCodes      \* of each kind, the codes a dictionary's table has

Kinds == {"ll", "of", "ml"}
Offset == 1..(U32Max - 4)
Reps == [1..3 -> Offset]

ASSUME CodecAssumption ==
  /\ Window \in Nat \ {0} /\ Window <= U32Max - 4
  /\ BlockMax \in Nat \ {0} /\ MaxFrame \in Nat /\ MaxSeqs \in Nat
  /\ FewLits \in Nat /\ FewSeqs \in Nat /\ LitSets \subseteq SUBSET Nat
  /\ DefaultCodes \in [Kinds -> SUBSET Nat]
  /\ DictCodes \in [Kinds \union {"huff"} -> SUBSET Nat]
  /\ \A d \in Dicts : /\ d.len \in Nat /\ d.entropy \in BOOLEAN
                      /\ d.reps \in Reps
                      /\ d.entropy => \A k \in 1..3 : d.reps[k] <= d.len

VARIABLES dict,    \* the frame's dictionary
          pc,      \* what is done next
          block,   \* the block at hand: its place in the frame, whether it is the last
          seqs,    \* the sequences found in it
          at,      \* where the next sequence begins
          i,       \* sequences coded, or executed
          wire,    \* the block as written
          enc,     \* what the encoder remembers
          saved,   \* what it remembered when it began to write the block
          dec,     \* what the decoder remembers
          trail    \* the encoder's repeat offsets after each sequence

vars == <<dict, pc, block, seqs, at, i, wire, enc, saved, dec, trail>>

(***************************************************************************)
(* Tables.                                                                 *)
(***************************************************************************)
NoTable == [kind |-> "none", codes |-> {}, made |-> 0]
Predefined(k) == [kind |-> "predefined", codes |-> DefaultCodes[k], made |-> 0]
Rle(codes) == [kind |-> "rle", codes |-> codes, made |-> 0]
Built(codes, from) == [kind |-> "own", codes |-> codes, made |-> from]
OfDict(k) == [kind |-> "own", codes |-> DictCodes[k], made |-> -1]

\* EntropyState::default and seed_from_dict; BlockState::from_dict.
Start(d) ==
  [reps |-> IF d.entropy THEN d.reps ELSE <<1, 4, 8>>,
   table |-> [k \in Kinds \union {"huff"} |-> IF d.entropy THEN OfDict(k) ELSE NoTable]]

\* The code a sequence has in each table: the highest bit of an offset's; every
\* length here has its own.
OfCode(code) == Cardinality({b \in 1..31 : 2^(b - 1) <= code \div 2})
Codes(k) ==
  CASE k = "ll" -> {seqs[j].lit : j \in DOMAIN seqs}
    [] k = "ml" -> {seqs[j].len : j \in DOMAIN seqs}
    [] k = "of" -> {OfCode(wire.codes[j]) : j \in DOMAIN seqs}

Single(codes) == \E c \in codes : codes = {c}

\* select_seq_table: the modes and tables it may come to.  Costs are data, but a
\* table without a code that is needed has an infinite one, and the table of the
\* block before wins a tie.  A single code is always RLE.
SelectTable(codes, n, prev, basic, from) ==
  LET fits == codes \subseteq basic.codes
      repeat == IF prev.kind # "none" /\ (codes \subseteq prev.codes \/ ~fits)
                THEN {[mode |-> "repeat", table |-> prev]} ELSE {}
      own == [mode |-> "compressed", table |-> Built(codes, from)]
  IN CASE Single(codes) ->
            {[mode |-> "rle", table |-> Rle(codes)]}
       [] ~Single(codes) /\ n >= FewSeqs /\ ~fits -> {own}
       [] ~Single(codes) /\ n < FewSeqs /\ ~fits ->
            IF repeat # {} THEN repeat ELSE {own}
       [] OTHER -> {[mode |-> "predefined", table |-> basic]} \union repeat
                   \union (IF n >= FewSeqs THEN {own} ELSE {})

\* encode_literals_section_into: the modes a block's literals may be written in,
\* and the table it is done with.
LiteralModes(n, bytes, prev, from) ==
  IF n = 0 \/ n < FewLits \/ Single(bytes)
  THEN {[mode |-> "raw", table |-> prev]}
  ELSE {[mode |-> "raw", table |-> prev], [mode |-> "compressed", table |-> Built(bytes, from)]}
       \union (IF prev.kind # "none" /\ bytes \subseteq prev.codes
               THEN {[mode |-> "treeless", table |-> prev]} ELSE {})

-----------------------------------------------------------------------------
NoBlock == [from |-> 0, to |-> 0, last |-> FALSE]
Blank == [kind |-> "none", lits |-> [mode |-> "raw", table |-> NoTable], codes |-> <<>>,
          modes |-> [k \in Kinds |-> [mode |-> "none", table |-> NoTable]]]

Init ==
  /\ dict \in Dicts
  /\ pc = "start" /\ block = NoBlock
  /\ seqs = <<>> /\ at = 0 /\ i = 0 /\ wire = Blank /\ trail = <<>>
  /\ enc = Start(dict) /\ saved = enc /\ dec = Start(dict)

(***************************************************************************)
(* The encoder.                                                            *)
(***************************************************************************)
Written(kind) == wire' = [Blank EXCEPT !.kind = kind] /\ pc' = "decode"

\* A block with nothing in it: the last, after the input has ended.
EmptyBlock ==
  /\ pc = "start"
  /\ block' = [from |-> block.to, to |-> block.to, last |-> TRUE]
  /\ Written("raw")
  /\ UNCHANGED <<dict, seqs, at, i, enc, saved, dec, trail>>

NextBlock(n, last) ==
  /\ pc = "start" /\ block.to + n <= MaxFrame
  /\ block' = [from |-> block.to, to |-> block.to + n, last |-> last]

\* rle_byte: one byte, twice or more.
RleBlock ==
  /\ \E n \in 2..BlockMax, last \in BOOLEAN : NextBlock(n, last)
  /\ Written("rle")
  /\ UNCHANGED <<dict, seqs, at, i, enc, saved, dec, trail>>

Search ==
  /\ \E n \in 1..BlockMax, last \in BOOLEAN : NextBlock(n, last)
  /\ pc' = "search" /\ seqs' = <<>> /\ at' = block.to /\ i' = 0 /\ wire' = Blank /\ trail' = <<>>
  /\ UNCHANGED <<dict, enc, saved, dec>>

\* Mutant: the repeat offsets are offered to the search as they are.
Hints_mut == {enc.reps[k] : k \in 1..3}
\* The repeat offsets the search may use: those beyond the window only while the
\* whole block lies in the frame's first window (far_reps_ok).
Hints == {enc.reps[k] : k \in {j \in 1..3 : block.to <= Window \/ enc.reps[j] <= Window}}

\* The match finders: any match within the window, or at a repeat offset, of
\* bytes that were there.
MayMatch(off, place) ==
  off <= dict.len + place /\ (off <= Window \/ off \in Hints)

FindSequence ==
  /\ pc = "search" /\ Len(seqs) < MaxSeqs
  /\ \E lit \in 0..BlockMax, len \in 1..BlockMax :
       /\ at + lit + len <= block.to
       /\ \E off \in 1..(dict.len + MaxFrame) :
            /\ MayMatch(off, at + lit)
            /\ seqs' = Append(seqs, [lit |-> lit, off |-> off, len |-> len, at |-> at + lit])
       /\ at' = at + lit + len
  /\ UNCHANGED <<dict, pc, block, i, wire, enc, saved, dec, trail>>

\* Not worth it: no match and no skew in the bytes, or too few matches.
GiveUp ==
  /\ pc = "search"
  /\ Written("raw")
  /\ UNCHANGED <<dict, block, seqs, at, i, enc, saved, dec, trail>>

\* The literals go out, and with them the Huffman table if it is a new one.
Literals ==
  LET matched[j \in 0..Len(seqs)] == IF j = 0 THEN 0 ELSE matched[j-1] + seqs[j].len
  IN block.to - block.from - matched[Len(seqs)]

WriteLiterals ==
  /\ pc = "search"
  /\ saved' = enc
  /\ \E bytes \in LitSets :
       /\ bytes = {} <=> Literals = 0
       /\ Cardinality(bytes) <= Literals
       /\ \E m \in LiteralModes(Literals, bytes, enc.table["huff"], block.from) :
            /\ wire' = [wire EXCEPT !.kind = "compressed", !.lits = m]
            /\ enc' = [enc EXCEPT !.table["huff"] = m.table]
  /\ trail' = <<enc.reps>>
  /\ pc' = IF seqs = <<>> THEN "sized" ELSE "code"
  /\ UNCHANGED <<dict, block, seqs, at, i, dec>>

\* build_coded_pass, a sequence at a time.
CodeSequence ==
  /\ pc = "code" /\ i < Len(seqs)
  /\ LET s == seqs[i + 1]
     IN /\ wire' = [wire EXCEPT !.codes = Append(@, RepCode(s.off, s.lit = 0, enc.reps))]
        /\ enc' = [enc EXCEPT !.reps = RepMove(s.off, s.lit = 0, enc.reps)]
        /\ trail' = Append(trail, RepMove(s.off, s.lit = 0, enc.reps))
  /\ i' = i + 1
  /\ UNCHANGED <<dict, pc, block, seqs, at, saved, dec>>

\* Mutant: a predefined table is used but not kept, as if it were a borrowed one.
Keeps_mut(m, prev) == IF m.mode = "predefined" THEN prev ELSE m.table
\* The table kept for the next block: the one chosen, whatever the mode.
Keeps(m, prev) == m.table

SelectTables ==
  /\ pc = "code" /\ i = Len(seqs)
  /\ \E ll \in SelectTable(Codes("ll"), Len(seqs), enc.table["ll"], Predefined("ll"), block.from),
        of \in SelectTable(Codes("of"), Len(seqs), enc.table["of"], Predefined("of"), block.from),
        ml \in SelectTable(Codes("ml"), Len(seqs), enc.table["ml"], Predefined("ml"), block.from) :
       LET m == [k \in Kinds |-> CASE k = "ll" -> ll [] k = "of" -> of [] k = "ml" -> ml]
       IN /\ wire' = [wire EXCEPT !.modes = m]
          /\ enc' = [enc EXCEPT !.table =
                       [k \in DOMAIN @ |-> IF k \in Kinds THEN Keeps(m[k], @[k]) ELSE @[k]]]
  /\ pc' = "sized"
  /\ UNCHANGED <<dict, block, seqs, at, i, saved, dec, trail>>

\* The payload is smaller than the block: the header is patched in front of it.
KeepCompressed ==
  /\ pc = "sized" /\ pc' = "decode"
  /\ UNCHANGED <<dict, block, seqs, at, i, wire, enc, saved, dec, trail>>

Rewound == saved

\* It is not: everything is put back and the block goes out raw.
FallBack ==
  /\ pc = "sized"
  /\ enc' = Rewound
  /\ Written("raw")
  /\ UNCHANGED <<dict, block, seqs, at, i, saved, dec, trail>>

(***************************************************************************)
(* The decoder.                                                            *)
(***************************************************************************)
\* The block is read; what belonged to it alone is dropped.
BlockRead ==
  /\ pc' = IF block.last THEN "ended" ELSE "start"
  /\ seqs' = <<>> /\ at' = 0 /\ i' = 0 /\ wire' = Blank /\ saved' = enc /\ trail' = <<>>

DecodeRaw ==
  /\ pc = "decode" /\ wire.kind \in {"raw", "rle"}
  /\ BlockRead
  /\ UNCHANGED <<dict, block, enc, dec>>

\* The Huffman table of treeless literals, or the one that is read.
DecodeLiterals ==
  /\ pc = "decode" /\ wire.kind = "compressed"
  /\ IF wire.lits.mode = "treeless" /\ dec.table["huff"] # wire.lits.table
     THEN /\ pc' = IF dec.table["huff"].kind = "none" THEN "refused" ELSE "garbled"
          /\ UNCHANGED dec
     ELSE /\ dec' = IF wire.lits.mode = "compressed"
                    THEN [dec EXCEPT !.table["huff"] = wire.lits.table] ELSE dec
          /\ pc' = "tables"
  /\ UNCHANGED <<dict, block, seqs, at, i, wire, enc, saved, trail>>

\* decode_seq_header and seq_table: a mode's table, and "none" where there is
\* none to repeat.  No sequences: nothing is read and nothing changes.
TableRead(k) ==
  LET m == wire.modes[k]
  IN CASE m.mode = "repeat" -> dec.table[k]
       [] m.mode = "predefined" -> Predefined(k)
       [] m.mode \in {"rle", "compressed"} -> m.table

DecodeTables ==
  /\ pc = "tables"
  /\ IF wire.codes = <<>>
     THEN BlockRead /\ UNCHANGED dec
     ELSE LET read == [k \in Kinds |-> TableRead(k)]
          IN CASE \E k \in Kinds : read[k].kind = "none" ->
                    pc' = "refused" /\ UNCHANGED <<dec, at, i, seqs, wire, saved, trail>>
               [] (\A k \in Kinds : read[k].kind # "none")
                  /\ (\E k \in Kinds : \/ read[k] # wire.modes[k].table
                                       \/ ~(Codes(k) \subseteq read[k].codes)) ->
                    pc' = "garbled" /\ UNCHANGED <<dec, at, i, seqs, wire, saved, trail>>
               [] OTHER ->
                    /\ pc' = "execute"
                    /\ dec' = [dec EXCEPT !.table =
                                 [k \in DOMAIN @ |-> IF k \in Kinds THEN read[k] ELSE @[k]]]
                    /\ at' = block.from /\ i' = 0
                    /\ UNCHANGED <<seqs, wire, saved, trail>>
  /\ UNCHANGED <<dict, block, enc>>

\* copy_match: what a match may reach.
Refuses(off, place) ==
  off > dict.len + place \/ (off <= place /\ off > Window)

\* A sequence: its offset is resolved and its match copied.  The lengths are
\* those the encoder meant, as the tables are.  (The code moves a copy of the
\* offsets, and stores it and the tables when the block is done: nothing reads
\* them in between, and nothing at all after an error.)
ExecuteSequence ==
  /\ pc = "execute" /\ i < Len(wire.codes)
  /\ LET s == seqs[i + 1]
         r == ResolveOffset(wire.codes[i + 1], s.lit = 0, dec.reps)
     IN IF r.off = NoOffset \/ Refuses(r.off, at + s.lit)
        THEN pc' = "refused" /\ UNCHANGED <<dec, at, i>>
        ELSE /\ pc' = IF r.off = s.off THEN pc ELSE "garbled"
             /\ dec' = [dec EXCEPT !.reps = r.reps]
             /\ at' = at + s.lit + s.len /\ i' = i + 1
  /\ UNCHANGED <<dict, block, seqs, wire, enc, saved, trail>>

FinishBlock ==
  /\ pc = "execute" /\ i = Len(wire.codes)
  /\ BlockRead
  /\ UNCHANGED <<dict, block, enc, dec>>

\* The next frame starts both sides from its dictionary.
NextFrame ==
  /\ pc = "ended"
  /\ dict' \in Dicts
  /\ pc' = "start" /\ block' = NoBlock
  /\ seqs' = <<>> /\ at' = 0 /\ i' = 0 /\ wire' = Blank /\ trail' = <<>>
  /\ enc' = Start(dict') /\ saved' = enc' /\ dec' = Start(dict')

Encode == EmptyBlock \/ RleBlock \/ Search \/ FindSequence \/ GiveUp \/ WriteLiterals
          \/ CodeSequence \/ SelectTables \/ KeepCompressed \/ FallBack
Decode == DecodeRaw \/ DecodeLiterals \/ DecodeTables \/ ExecuteSequence \/ FinishBlock

Next == Encode \/ Decode \/ NextFrame

Spec == Init /\ [][Next]_vars

-----------------------------------------------------------------------------
(* Properties *)

Table == [kind : {"none", "predefined", "rle", "own"}, codes : SUBSET Nat, made : Int]
Memory == [reps : Reps, table : [Kinds \union {"huff"} -> Table]]
Sequence == [lit : Nat, off : Offset, len : Nat \ {0}, at : Nat]

\* Every variable has its type (EntropyState, BlockState, Seq).
TypeOK ==
  /\ dict \in Dicts
  /\ pc \in {"start", "search", "code", "sized", "decode", "tables", "execute", "ended",
             "refused", "garbled"}
  /\ block \in [from : Nat, to : 0..MaxFrame, last : BOOLEAN] /\ block.from <= block.to
  /\ seqs \in Seq(Sequence) /\ at \in Nat /\ i \in 0..Len(seqs)
  /\ enc \in Memory /\ saved \in Memory /\ dec \in Memory
  /\ trail \in Seq(Reps) /\ wire.codes \in Seq(Nat)

\* Between blocks both sides remember the same, whatever blocks came before: those
\* tried and written raw, those without sequences, those with predefined tables.
InStep == pc \in {"start", "ended"} => enc = dec

\* No block is refused by the decoder, and none is decoded to something else:
\* each table repeated is there and the same, each offset comes out as the one
\* found, and no match reaches what the decoder does not let it reach.
DecodesAsMeant == pc \notin {"refused", "garbled"}

\* The table a kind of code is written with has every code of the block ("Repeat
\* is illegal when Prob[s]==0", FseCTable::bit_cost).
TablesFit ==
  pc = "sized" /\ seqs # <<>> =>
    \A k \in Kinds : Codes(k) \subseteq wire.modes[k].table.codes
=============================================================================
