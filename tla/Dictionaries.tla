---------------------------- MODULE Dictionaries ----------------------------
(***************************************************************************)
(* Trained dictionaries (dict.rs, train.rs and the harvest in encode.rs).  *)
(* The trainer picks segments of its samples, counts what the samples      *)
(* become once they are matched against them, and writes the tables it     *)
(* makes of the counts before the segments; the parser builds the tables   *)
(* of both sides from the file.  What the search finds in a sample is an   *)
(* input: its literals and its sequences.                                  *)
(***************************************************************************)
EXTENDS LiteralsSection, SequencesSection

CONSTANTS
    MaxLit,       \* 255: the highest literal
    U32Bits,      \* 32: the width of a number in the file
    IdPublicMin,  \* DICT_ID_PUBLIC_MIN
    IdPublicMax,  \* DICT_ID_PUBLIC_MAX
    DictMagic,    \* MAGIC_DICTIONARY
    MaxDictMin,   \* 256: the least size a trainer is held to
    ContentMin,   \* 8: the least content it is content with
    HashSlots     \* 2^f counters of fastcover

ASSUME IdsOrdered == IdPublicMin \in Nat \ {0} /\ 2 * IdPublicMin <= IdPublicMax

Reps == INSTANCE RepCodes WITH U32Max <- 2^30

LOCAL U32(v) == Field(v, U32Bits)
LOCAL From(src, bytes) == SubSeq(src, 8 * bytes + 1, Len(src))
LOCAL LastOf(n, seq) == SubSeq(seq, Max({0, Len(seq) - n}) + 1, Len(seq))

-----------------------------------------------------------------------------
(* Segments.  A dmer is d bytes in a row; its score is how often it was      *)
(* counted, every accel-th place under its hash, or once a sample.          *)

Dmer(sample, i, d) == SubSeq(sample, i, i + d - 1)
Places(sample, d) == 1..(Len(sample) - d + 1)
Dmers(sample, d) == {Dmer(sample, i, d) : i \in Places(sample, d)}

\* hash_dmer, of which it only matters that dmers may share a counter.
HashDmer(dmer) == FoldLeft(LAMBDA n, b : n + b, 0, dmer) % HashSlots

AllDmers(samples, d) == UNION {Dmers(samples[s], d) : s \in DOMAIN samples}

\* select_fastcover.
FastCoverFreqs(samples, d, accel) ==
    LET slots == FoldLeft(LAMBDA freqs, sample :
                   FoldSet(LAMBDA i, f : [f EXCEPT ![HashDmer(Dmer(sample, i, d))] = @ + 1],
                           freqs, {i \in Places(sample, d) : (i - 1) % accel = 0}),
                   [h \in 0..(HashSlots - 1) |-> 0], samples)
    IN [dmer \in AllDmers(samples, d) |-> slots[HashDmer(dmer)]]

\* select_cover.
CoverFreqs(samples, d) ==
    FoldLeft(LAMBDA freqs, sample :
               FoldSet(LAMBDA dmer, f : [f EXCEPT ![dmer] = @ + 1], freqs, Dmers(sample, d)),
             [dmer \in AllDmers(samples, d) |-> 0], samples)

\* Where a segment may begin: anywhere unused that leaves k bytes, or at the
\* beginning of a sample that has no k bytes while some dmer of it is unused.
Starts(samples, used, k, d) ==
    {at \in UNION {{s} \X DOMAIN samples[s] : s \in DOMAIN samples} :
        LET sample == samples[at[1]] IN
        IF Len(sample) < k
        THEN at[2] = 1 /\ ~(Places(sample, d) \subseteq used[at[1]])
        ELSE at[2] \in Places(sample, k) \ used[at[1]]}

\* The scores of the unused dmers of the segment.
SegmentScore(samples, used, k, d, at, freqs) ==
    LET sample == samples[at[1]]
        end == Min({at[2] + k - d, Len(sample) - d + 1})
    IN MapThenSumSet(LAMBDA i : freqs[Dmer(sample, i, d)], (at[2]..end) \ used[at[1]])

\* The best segment, the first among equals; none when no score is above 0.
BestStart(scored) ==
    LET top == Max({0} \cup {x.score : x \in scored})
        best == {x \in scored : x.score = top}
    IN IF top = 0 THEN Corrupt
       ELSE CHOOSE x \in best : \A y \in best :
              x.at[1] < y.at[1] \/ (x.at[1] = y.at[1] /\ x.at[2] <= y.at[2])

\* A segment taken, and its bytes used.
Picked(samples, k, p, best) ==
    LET at == best.at
        take == Min({k, Len(samples[at[1]]) - at[2] + 1, p.remaining})
        end == at[2] + take - 1
    IN [segments |-> Append(p.segments, [bytes |-> SubSeq(samples[at[1]], at[2], end),
                                         score |-> best.score]),
        remaining |-> p.remaining - take,
        used |-> [p.used EXCEPT ![at[1]] = @ \cup (at[2]..end)]]

\* pick_segments: one after the other, until the room is filled.
RECURSIVE Picks(_, _, _, _, _)
Picks(samples, k, d, freqs, p) ==
    IF p.remaining = 0 \/ Len(p.segments) > 1024 THEN p.segments
    ELSE Else(Then(BestStart({[at |-> at, score |-> SegmentScore(samples, p.used, k, d, at, freqs)] :
                                at \in Starts(samples, p.used, k, d)}),
                   LAMBDA best : Picks(samples, k, d, freqs, Picked(samples, k, p, best))),
              p.segments)

PickSegments(samples, k, d, max_dict, freqs) ==
    Picks(samples, Max({k, d}), d, freqs,
          [segments |-> <<>>, remaining |-> max_dict, used |-> [s \in DOMAIN samples |-> {}]])

\* The best segment goes last, next to what will be compressed.
ContentOf(segments, max_dict) ==
    LastOf(max_dict, FlattenSeq(Reverse([i \in DOMAIN segments |-> segments[i].bytes])))

\* k_candidates.
KCandidates(k, d, steps, max_dict) ==
    LET k_min == Max({d * 8, 16})
        k_max == Min({Max({200, k_min}), Max({max_dict, k_min})})
        at(i) == Min({Max({k_min + i * ((k_max - k_min) \div steps), d}), Max({max_dict, d})})
    IN IF k # 0 THEN {Max({k, d})} ELSE {at(i) : i \in 0..(steps - 1)}

\* fallback_content: the end of the samples.  The buffer is cut back to
\* max_dict each time it has grown over twice that.
FallbackContent(samples, max_dict) ==
    LastOf(max_dict,
           FoldLeft(LAMBDA cat, s : IF Len(cat \o s) > 2 * max_dict
                                    THEN LastOf(max_dict, cat \o s) ELSE cat \o s,
                    <<>>, samples))

-----------------------------------------------------------------------------
(* harvest_dict_entropy: counts over all samples, the repeat offsets carried *)
(* from one to the next.                                                    *)

CountSeq(n, s) ==
    LET ov == Reps!RepCode(s.offset, s.litlen = 0, n.reps)
        read == Reps!ResolveOffset(ov, s.litlen = 0, n.reps)
        c == CodedSeq([litlen |-> s.litlen, ov |-> ov, matchlen |-> s.matchlen])
    IN IF read.off = Reps!NoOffset THEN n
       ELSE [reps |-> read.reps,
             count |-> [k \in Kinds |-> [n.count[k] EXCEPT ![c[k]] = @ + 1]]]

CountSeqs(seqs) ==
    FoldLeft(CountSeq, [reps |-> <<1, 4, 8>>,
                        count |-> [k \in Kinds |-> [c \in 0..MaxCode[k] |-> 0]]], seqs)

\* pad_lit_freq.
PadLitFreq(freq) ==
    IF Cardinality(Coded(freq)) >= 2 THEN freq
    ELSE [freq EXCEPT ![0] = @ + 1, ![1] = @ + 1, ![MaxLit] = @ + 1]

LitFreq(lits) == [b \in 0..MaxLit |-> Cardinality({i \in DOMAIN lits : lits[i] = b})]

\* ncount_or_default.  A code that stands alone is given company.
NCountOrDefault(count, k) ==
    LET max_sv == Max(Coded(count))
        other == IF max_sv = 0 THEN 1 ELSE 0
        alone == Coded(count) = {max_sv}
        made == NCountAndNorm(IF alone THEN [count EXCEPT ![other] = @ + 1] ELSE count,
                              TableLog[k], 1)
        basic == WriteNCount(DefaultNorm[k], DefaultLog[k])
    IN IF Coded(count) = {} THEN basic ELSE Else(Then(made, LAMBDA m : m.header), basic)

\* clamp_reps, and the loop of finalize_dictionary like it.
ClampReps(reps, content_len) ==
    LET cap == Max({content_len, 1})
    IN [i \in 1..3 |-> IF reps[i] \in 1..cap THEN reps[i] ELSE Max({reps[i] % cap, 1})]

Harvest(content, found) ==
    LET n == CountSeqs(found.seqs)
    IN Then(BuildCtable(PadLitFreq(LitFreq(found.lits))), LAMBDA ct :
         [huff |-> ct, nc |-> [k \in Kinds |-> NCountOrDefault(n.count[k], k)],
          count |-> n.count, reps |-> ClampReps(n.reps, Len(content))])

-----------------------------------------------------------------------------
(* The file.                                                                *)

\* public_dict_id, of the content's hash.
PublicDictId(hash, forced) ==
    LET high == IF hash < IdPublicMin THEN hash + IdPublicMin ELSE hash
        low == high % IdPublicMax
    IN IF forced # <<>> THEN forced[1]
       ELSE IF high < IdPublicMax THEN high
       ELSE IF low < IdPublicMin THEN low + IdPublicMin ELSE low

\* write_trained_parts.
WriteTrainedParts(id, tree, nc, reps, content) ==
    U32(DictMagic) \o U32(id) \o tree \o nc["of"] \o nc["ml"] \o nc["ll"]
      \o U32(reps[1]) \o U32(reps[2]) \o U32(reps[3])
      \o [i \in 1..(8 * Len(content)) |-> (content[(i + 7) \div 8] \div 2^((i - 1) % 8)) % 2]

\* ctable_from_weights.
CtableFromWeights(weights) ==
    Then(TableFromWeights(weights), LAMBDA t :
      [weights |-> weights,
       entry |-> [s \in {t.table[i].symbol : i \in DOMAIN t.table} |-> CodeOf(t, s)]])

\* read_tree_tables: the tree is read once, and both tables built from it.
ReadTreeTables(src) ==
    Then(ReadWeights(src), LAMBDA read :
    Then(TableFromWeights(read.weights), LAMBDA t :
      [d |-> EnsureX2(t), c |-> CtableFromWeights(read.weights), bytes |-> read.bytes]))

\* read_ncount_ctable.
ReadNCountCtable(src, k) ==
    Then(ParseNCount(src, MaxCode[k], TableLog[k]), LAMBDA read :
      [d |-> DecoderTable(read.norm, read.log), c |-> EncodeTable(read.norm, read.log),
       bytes |-> read.bytes])

\* parse_trained: its tables one after the other, then repeat offsets and content.
WithTree(src) ==
    Then(ReadTreeTables(From(src, U32Bits \div 4)), LAMBDA read :
      [id |-> Number(SubSeq(src, U32Bits + 1, 2 * U32Bits)), huff |-> read, seq |-> <<>>,
       src |-> From(src, U32Bits \div 4 + read.bytes)])

WithTable(p, k) ==
    Then(p, LAMBDA q :
    Then(ReadNCountCtable(q.src, k), LAMBDA read :
      [q EXCEPT !.seq = Append(@, read), !.src = From(@, read.bytes)]))

WithReps(p) ==
    LET rep(i) == Number(SubSeq(p.src, U32Bits * (i - 1) + 1, U32Bits * i))
        rest == From(p.src, 3 * (U32Bits \div 8))
        content == [i \in 1..(Len(rest) \div 8) |-> Number(SubSeq(rest, 8 * i - 7, 8 * i))]
    IN IF Len(p.src) < 3 * U32Bits \/ \E i \in 1..3 : rep(i) \notin DOMAIN content THEN Corrupt
       ELSE [id |-> p.id, content |-> content, reps |-> <<rep(1), rep(2), rep(3)>>,
             huff_d |-> p.huff.d, huff_c |-> p.huff.c,
             seq_d |-> [of |-> p.seq[1].d, ml |-> p.seq[2].d, ll |-> p.seq[3].d],
             seq_c |-> [of |-> p.seq[1].c, ml |-> p.seq[2].c, ll |-> p.seq[3].c]]

ParseTrained(src) ==
    Then(WithTable(WithTable(WithTable(WithTree(src), "of"), "ml"), "ll"), WithReps)

\* Dictionary::from_bytes.
Raw(src) == [id |-> 0, content |-> [i \in 1..ByteLen(src) |-> Number(SubSeq(src, 8 * i - 7, 8 * i))]]

FromBytes(src) ==
    IF Len(src) >= 2 * U32Bits /\ SubSeq(src, 1, U32Bits) = U32(DictMagic)
    THEN ParseTrained(src) ELSE Raw(src)

-----------------------------------------------------------------------------
(* finalize_dictionary and train.                                           *)

Header(tree, h) == WriteTrainedParts(0, tree, h.nc, h.reps, <<>>)

\* Cut the content to what the header leaves.
CutContent(content, room) == IF room <= 0 THEN Corrupt ELSE LastOf(room, content)

\* The repeat offsets are clamped again: the content may have been cut.
Finalized_mut(content, h, tree, hash, forced, max_dict) ==
    Then(CutContent(content, max_dict - ByteLen(Header(tree, h))), LAMBDA cut :
      WriteTrainedParts(PublicDictId(hash, forced), tree, h.nc, h.reps, cut))

Finalized(content, h, tree, hash, forced, max_dict) ==
    Then(CutContent(content, max_dict - ByteLen(Header(tree, h))), LAMBDA cut :
      WriteTrainedParts(PublicDictId(hash, forced), tree, h.nc, ClampReps(h.reps, Len(cut)), cut))

\* What is written must parse.
Checked(bytes) ==
    Then(bytes, LAMBDA b : IF FromBytes(b) = Corrupt THEN Corrupt ELSE b)

\* Content that is too short gives way to the end of the samples.
Enough(content, samples, max_dict) ==
    IF Len(content) >= ContentMin THEN content ELSE FallbackContent(samples, max_dict)

HarvestAndTree(content, found) ==
    Then(Harvest(content, found), LAMBDA h :
    Then(WriteTree(h.huff.weights), LAMBDA tree : [h |-> h, tree |-> tree]))

FinalizeDictionary(picked, samples, found, hash, forced, max_dict) ==
    LET content == Enough(picked, samples, Max({max_dict, ContentMin}))
    IN Checked(Then(IF content = <<>> THEN Corrupt ELSE HarvestAndTree(content, found),
                    LAMBDA x : Finalized(content, x.h, x.tree, hash, forced, max_dict)))

\* select_legacy is fastcover with settings of its own.
Select(samples, k, o, max_dict) ==
    LET d == IF o.algo = "legacy" THEN Min({Max({k, 8}), 16}) ELSE o.d
        freqs == IF o.algo = "cover" THEN CoverFreqs(samples, d)
                 ELSE FastCoverFreqs(samples, d, o.accel)
    IN ContentOf(PickSegments(samples, k, d, max_dict, freqs), max_dict)

\* The longest content any segment length gives, of the first in order.
BestContent(samples, o, max_dict) ==
    FoldLeft(LAMBDA best, k :
               LET content == Select(samples, k, o, max_dict)
               IN IF Len(content) > Len(best) THEN content ELSE best,
             <<>>, SetToSortSeq(KCandidates(o.k, o.d, o.steps, max_dict), <))

\* n_train samples are trained on; all of them are looked at for being empty.
\* `found` is what the search makes of them.
Train(samples, o, found, hash, forced) ==
    LET max_dict == Max({o.max_dict, MaxDictMin})
        train_samples == SubSeq(samples, 1, o.n_train)
    IN IF \A s \in DOMAIN samples : samples[s] = <<>> THEN Corrupt
       ELSE FinalizeDictionary(
              Enough(BestContent(train_samples, o, max_dict), train_samples, max_dict),
              train_samples, found, hash, forced, max_dict)

-----------------------------------------------------------------------------
(* What training must do.                                                   *)

\* Segments come from the samples, each adds something to those before it, none
\* is worth more than one before it, and together they fill no more than the
\* room.
SegmentsWorthTheirRoom(samples, k, d, max_dict, freqs) ==
    \A segments \in {PickSegments(samples, k, d, max_dict, freqs)} :
      /\ FoldLeft(LAMBDA n, s : n + Len(s.bytes), 0, segments) <= max_dict
      /\ Len(segments) <= FoldLeft(LAMBDA n, s : n + Len(s), 0, samples)
      /\ \A i \in 2..Len(segments) : segments[i].score <= segments[i - 1].score
      /\ ContentOf(segments, max_dict)
           = FlattenSeq(Reverse([i \in DOMAIN segments |-> segments[i].bytes]))

\* The only reasons the trainer has to fail: nothing to train on, literals no
\* tree can be written for, and a header that leaves no room.
MayFail(samples, found, max_dict) ==
    \/ \A s \in DOMAIN samples : samples[s] = <<>>
    \/ \A x \in {HarvestAndTree(<<0>>, found)} \ {Corrupt} :
         ByteLen(Header(x.tree, x.h)) >= max_dict

\* A trained dictionary fits its bound, parses to the end of the content picked
\* with repeat offsets inside of it, has a public id unless one is forced, and a
\* code for every literal that was counted.
TrainedServes(samples, o, found, forced, bytes) ==
    LET max_dict == Max({o.max_dict, MaxDictMin}) IN
    IF bytes = Corrupt THEN MayFail(SubSeq(samples, 1, o.n_train), found, max_dict)
    ELSE \A dict \in {FromBytes(bytes)} :
           /\ ByteLen(bytes) <= max_dict
           /\ dict # Corrupt
           /\ dict.content # <<>>
           /\ \A i \in 1..3 : dict.reps[i] \in 1..Len(dict.content)
           /\ IF forced # <<>> THEN dict.id = forced[1]
              ELSE dict.id \in IdPublicMin..(IdPublicMax - 1)
           /\ Range(found.lits) \subseteq DOMAIN dict.huff_c.entry
=============================================================================
