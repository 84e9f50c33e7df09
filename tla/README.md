# A TLA+ model of rusty_zstd

rusty_zstd is a Zstandard codec in Rust: a library (one-shot, streaming,
multi-threaded, seekable and dictionary compression and decompression), a
command line, and the benchmarks that drive it. This directory models what
makes it right: what is kept between calls and between blocks, in which order it
changes, what each call may report, what one component may assume of another;
and, over small alphabets, the searches, the entropy coders and the formats,
written against read. Where a choice only decides how well something compresses
(which of two matches, whether a block stays raw, the cheapest table), the models
leave it open: what is checked holds however it is made.

## Inventory

| component | source | state | operations | what makes it correct |
|---|---|---|---|---|
| streaming compressor | `stream.rs` 156-655 | settings, pledge, sticky error, frame phase, history buffer and cursor, coder state, output buffer and cursor | `stream`, `reset`, `set_dictionary`, `set_prefix`, `set_pledged_src_size`, `set_write_dict_id`, `set_slide_mul` | what is written is at all times a legal beginning of a frame; nothing fed is lost; `done` means whole; a frame starts from the settings alone |
| streaming decompressor | `stream.rs` 656-1112 | input buffer and cursor, output buffer and cursor, the open frame, what compaction has dropped of it | `stream`, `set_dictionary`, `set_prefix` | the output does not depend on how input and output are cut; a match always finds its source; `done` only at a frame's end |
| block encoder | `encode/block.rs`, `encode.rs` | repeat offsets, entropy tables | encode one block, raw fallback | encoder and decoder leave every block with the same repeat offsets and tables |
| match finders, one-shot compression | `encode.rs`, `encode/*.rs`, `rowfind.rs` | hash heads, chains, rows, the tree; the block's position | one loop iteration of each finder; the block loop | what is found is really there, and the decoder still has it |
| block decoder | `compressed.rs` | repeat offsets, entropy tables | literals, sequences, execution | only bytes the format allows are reached |
| entropy coders | `bit.rs`, `fse.rs`, `huffman.rs` | none; the tables kept from block to block | build, describe, parse, encode, decode | the decoder's table undoes every step of the encoder's |
| one-shot decompression | `decode.rs` | frame cursor | decode, measure, list, count; limits | the walks agree; agrees with the streaming decoder |
| headers | `frame.rs`, `block.rs`, `reader.rs` | none | write and parse | the parse of what is written is what was meant |
| multi-thread compression | `mt.rs` | shared job cursor, per-worker results | claim, encode, join | output in job order, whatever the schedule; no job lost |
| rsync sections, long-distance matching | `ldm.rs` | rolling hash; sampled hash table | split, collect, prime | the sections tile the source; an edit stays local |
| seekable format | `seekable.rs` | seek table | compress, index, random access | random access agrees with sequential decoding |
| dictionaries | `dict.rs`, `encode.rs` | a dictionary's digests, a thread's working set | look up, build, publish, serve, restore | every digested frame starts as a freshly primed one would |
| dictionary files and training | `dict.rs`, `train.rs`, `encode.rs` 9182-9303 | none | parse, write, select segments, harvest, finalize | what is trained parses, and seeds an encoder and a decoder that agree |
| parameters | `params.rs` | none | derive from level and size, set from options, force into range | a level's parameters are in range as they are |
| content hash | `xxh64.rs` | accumulators, an unfinished stripe | update, digest | the checksum does not depend on how the bytes came in |
| scratch pools | `scratch.rs` | a thread's buffers | lease, return | a lease begins empty |
| command line | `rusty_zstd-cli` | files | compress, decompress, test, remove | a source is removed only after its result is written |

The streaming types are used from one thread at a time (`&mut self`): a call
runs to its end, and what is hard about them is the order of calls, the sizes of
the buffers given to each, failures halfway, and what survives from one frame to
the next. Interleaving is in two places: the workers of the multi-threaded
encoder, and the digests that concurrent compressions share. Files meet crashes:
the command line may be killed between any two steps.

## Modules

### `Compressor.tla`

The type `Compressor` of `stream.rs`. A call of `stream` begins with one of
`StreamEnded`, `StreamNextFrame`, `StreamBadPledge`, `StreamBegin` (the branches
before the loops), then runs one loop iteration per step: `AbsorbAppend` and
`AbsorbBlock` (the absorb loop), `CodePending` (the emit loop),
`EmptyLastBlock`, `EndFrame`, `Return`. Every setter is an action of its own,
with the `next_frame_if_finished` it begins with.

| code | model |
|---|---|
| `hist` | its length `hist_len`; the bytes it holds are known by the history variables `ext` (length of the dictionary or prefix at the frame's start) and `dropped` (bytes drained by slides): `hist[i]` is frame byte `FramePos(i)` |
| `hist_done`, `produced_in`, `started`, `ended`, `last_block_written`, `pledged`, `err`, `dict`, `dict_id`, `write_dict_id`, `checksum`, `slide_mul` | themselves |
| `out_acc`, `out_off` | a sequence of items (header, block, checksum), each one unit long, and the cursor |
| `xxh` | the length of the frame prefix it digests, or `Garbled` |
| `entropy` and `reps`; `tables` | `coder` and `tables`: untouched, loaded from the dictionary, or used |
| `encode_block_from_scratch` | `Block(...)`: the bytes coded, the history before them, the lookahead behind them; or an error |

`taken`, `fed`, `lost` and `report` are history variables: what the caller has
been given, what it has fed, what a next frame's start left behind, and what the
last call reported.

### `WholeAppend.tla`

The abstract specification of the compressor's blocks: a compressor that appends
each call's whole input to its history before coding any of it. The comment above
the absorb loop promises that absorbing a block at a time changes neither the
blocks nor the slides; `MCCompressor` states the refinement, with the input not
yet absorbed counted as history.

### `Decompressor.tla`

The type `Decompressor` of `stream.rs`. A call is `Call` (the input joins the
buffer), one step per turn of the loop that makes progress (`SkipFrame`,
`OpenFrame`, `DecodeBlock`, `VerifyChecksum`, and for each the step that returns
an error instead), and `Return` (compaction of the input, the copy out,
compaction of the output, the status).

| code | model |
|---|---|
| `input`, `in_off` | `in_len`, `in_off`; `at` is the unit of `stream` at the cursor, `unfed` what the caller still holds |
| `decoded`, `decoded_off` | `decoded_len`, `decoded_off`; `decoded[i]` is byte `drained + i` of the whole output |
| `header`, `in_checksum`, `saw_zstd`, `frame_out`, `frame_start`, `frame_skipped`, `dict` | themselves; `prefix` is its length |
| `block_state` | `block_state`: new, loaded from the dictionary, used |
| `xxh` | the length of the frame prefix it digests, or `Garbled` |
| `decode_compressed_block` | the bytes it regenerates, one match resolved as `copy_match` does, and whether it repeats tables |

A stream is a sequence of units; a valid one and each kind of fault are states
of the input, not of the decoder. `frame_base`, `delivered`, `loaded`, `garbled`
and `broken` are history variables: where the frame's bytes begin in the output,
what the caller has, what history each frame was opened with, whether a match
copied from anywhere but its source, and whether an error lost the place.
`Accepts` is the reference: what the one-shot decoder, which keeps all of its
output, accepts of a unit. The model's caller loads dictionaries between frames,
says `end` only when it has no more, and makes no call after an error that moved
the cursor; nothing is documented of such calls.

### `Sections.tla`, `MtJobs.tla`

`Sections` has the operators that cut a source: `OverlapSize`, `ResolveJobSize`,
`JobEnd` (`mt.rs`) and `SectionEnd` (one turn of the loop of `rsync_sections` in
`ldm.rs`). Of the bytes, only the places where the rolling hash hits matter.

`MtJobs` is one call of `compress_mt`, from the cutting to what it returns.

| code | model |
|---|---|
| the arguments, what is attached, and what encoding each range does | `config`; `errors` and `panics` say where it fails |
| `off`, `ranges` | themselves; `Cut` is one turn of either cutting loop |
| one range or none; one worker; several | `OneShot`; `StartLoop`, `LoopEncode`, `LoopReturn`; `StartThreads` |
| `next` (the atomic cursor) | `next`, counting ranges from 1 |
| a worker's closure | `pc[w]`, `job[w]`, `done[w]`; `Claim` is the `fetch_add` and the break, `Encode` the call of `encode_oneshot` and the push |
| the loop over the handles | `joined`, `parts`, `err`; `Join`, `JoinReturn` |

A frame is its range and the history its decoder needs (`prime_only` is what
keeps the overlap out of that).

### `RsyncEdit.tla`

The loop of `rsync_sections` over a source and over an edited copy of it: hits
away from the edit move with it, those around it may be anything.

### `RepCodes.tla`, `BlockCodec.tla`

`RepCodes` has the two sides of the repeat offsets: `RepCode` and `RepMove`
(`rep_code_step`), `ResolveOffset` (`resolve_offset`). They are written
independently of each other, as the code is: the encoder moves its offsets
without looking at the code it wrote.

`BlockCodec` is what `encode_block_inner` and `decode_compressed_block` remember
from block to block. The encoder writes a block, the decoder reads it.

| code | model |
|---|---|
| `EntropyState`, `reps` | `enc`: three repeat offsets, the Huffman table, three sequence tables |
| `BlockState` | `dec`, of the same shape |
| what is cloned before writing, for the raw fallback | `saved` |
| the block's bytes | `wire`: its kind, the literals' mode and table, each sequence's offset code, each table's mode |
| a table | its kind, the codes it can encode, and the block it was built in: two tables built in different blocks are different |
| the searches | `Search`, `FindSequence` (any match `MayMatch` allows), `GiveUp` |
| `encode_literals_section_into`; `build_coded_pass`; `select_seq_table` | `WriteLiterals`; `CodeSequence`; `SelectTables` |
| payload smaller than the block or not | `KeepCompressed`, `FallBack` |
| literals; `decode_seq_header` and `seq_table`; `execute_sequences` | `DecodeLiterals`; `DecodeTables`; `ExecuteSequence`, `FinishBlock` |

Costs are data, so `SelectTable` and `LiteralModes` are the *sets* of modes a
cost comparison may come to; what they exclude is what the code excludes
whatever the costs. A decoder that cannot go on is `refused`; one that reads a
table or an offset other than the one meant is `garbled`. `trail` is a history
variable: the encoder's offsets after each sequence.

### `Finders.tla`, `ChainFinders.tla`, `HashFinders.tla`, `RowFinder.tla`, `TreeFinders.tla`, `MatchSearch.tla`

How the sequences of a block come about: the searches `BlockCodec` takes for
granted as `MayMatch`. `Finders` has what they share: the history and content
(here bytes of a small alphabet), the tables, the piece of a block one of them is
searching, `Emit`, drawing a match back. Each finder is an action per way its
loop body can go. `MatchSearch` puts them in the frame: priming, the
long-distance matches around them, the blocks, the streaming encoder's slide.

| code | model |
|---|---|
| `MatchTables`: `hash`, `chain`, `hash_long`, `rows`, `row_ntu` | `tables.head`, `.chain`, `.long`, `.rows`, `.ntu` |
| `find_greedy`; `find_lazy`; `lz_insert` | `SearchGreedy`; `SearchLazy`; `Insert` (`ChainFinders`) |
| `find_fast`; `find_dfast`; the fills after a match | `SearchFast`; `SearchDouble`; `FillFast`, `FillEnds` (`HashFinders`) |
| `find_lazy_rows`, `find_greedy_rows`: catch-up, the row, the look ahead, repcode 2 | `CatchUp`, `RowSearch`, `SearchRows`, `LookAhead`, `TakePick`, `RepAgain` (`RowFinder`) |
| `find_bt_lazy`; `find_opt`: forwards, back, and what is taken; `bt_find_best_runtime_inner` | `SearchTree`; `SearchOptimal`, `TurnBack`, `StepBack`, `TakeWay`; `TreeSearch`, `Descend` (`TreeFinders`) |
| `try_rep1`; `match_ok` | `RepMatch`, `RepLength`; `MatchOk` |
| `find_sequences_strategy_sel`: a fast frame handed to the lazy finder | `StartPiece`, `Relatched` |
| `maybe_latch_wide_chain`: the chains keyed by more bytes from a block on | `StartPiece`, `WideLatched`, `tables.wide` |
| `find_sequences_inner`; `collect_ldm`; `prime_tables`, `prime_ldm` | `PieceEnd`, `JoinPiece`; `Collect`; `Primed`, `PrimedLdm` |
| `far_reps_ok` | `Hint` |
| the slide of `emit_block` | `EndBlock` |

The hash is any fixed function with collisions. Tag bytes only spare comparisons
and are left out, but for the row's, which decides how many candidates a walk
looks at. `find_opt` prices its steps and takes the cheapest way through the
block: the model goes back from the end by any step that leads there, so that the
price does not matter. `pc` says what the search is doing: collecting long-distance
matches (`far`), between two pieces (`piece`), in one (`search`; `look`, `take` and
`again` are the row finder's, `back` and `way` the optimal finder's), at its last
literals (`tail`), or done with the block (`found`, `skipped`).

### `BitStreams.tla`, `FseTables.tla`, `HuffmanTables.tla`, `LiteralsSection.tla`, `SequencesSection.tla`

The entropy coders as operators, down to the bits.

| code | model |
|---|---|
| `BitCStream`, `BitFwd`, `BitRev` (`bit.rs`) | `BitStreams`: a sequence of bits, written forwards, read from either end |
| normalisation, NCount written and parsed, encoding and decoding tables (`fse.rs`) | `FseTables` |
| code lengths and their limit, weights, direct and FSE-coded trees, X1 and X2 tables, one stream and four (`huffman.rs`) | `HuffmanTables` |
| `encode_literals_section_into`; `decode_literals` | `LiteralsSection`, with the table each side keeps |
| `write_sequences_inner`, `select_seq_table`; `decode_seq_header`, `decode_sequences_inner` | `SequencesSection`, with the tables each side keeps |

### `Numbers.tla`, `Headers.tla`, `Frames.tla`, `Seekable.tla`, `Formats.tla`

`Numbers` has sums, powers and logarithms, as recursive functions. `Headers` writes
and parses the frame and the block header over bytes of `Radix` values. `Frames` has the loops of `decode.rs` over concatenated frames, each as
the code has it: `Decompress` with its limits, `InspectFrames`, `ContentSize`,
`FrameBlockCensus`, `FindFrame`. `Seekable` is `compress_seekable_adv`, the parse
of the seek table from the file's end, and the lookup of an offset.

A walk that reads is a record of where it stands, its error and what it found, and
a loop is a function of how many frames, or blocks, it has gone through. `Formats`
takes up one input after another (`TakeHeader`, the arguments of a header;
`TakeLevel`, a level and what is known of a source's size; `TakeSource`, a source
cut at any length, with any options; `TakeBlob`; `TakeContent`, after which
`TakePart` feeds a hasher) and states what must hold of each. It uses no RECURSIVE
operator, so that it can be proved about; `MCFormats` adds the inputs of the entropy
coders and of dictionaries, and the values for TLC.

### `Dictionaries.tla`

`train` from its samples to the file, and `Dictionary::from_bytes` from the file
to the tables of both sides, on `FseTables` and `HuffmanTables`. What the search
finds in a sample is an input (`found`): its literals and its sequences. In the
run `formats` a dictionary that was trained is then loaded by both sides
(`LoadDictionary`), and the first blocks of a frame are coded from its tables.

| code | model |
|---|---|
| `select_fastcover`, `select_cover`, `select_legacy`; `pick_segments` | `FastCoverFreqs`, `CoverFreqs`: a count for each run of d bytes; `Select`; `Picks`, one segment a step, with the places `used` |
| `harvest_dict_entropy`, `pad_lit_freq`, `ncount_or_default`, `clamp_reps` | `Harvest` and the operators of these names |
| `finalize_dictionary` | `Finalized`: header, cut, second clamp, the parse of the result |
| `public_dict_id`, `write_trained_parts` | the same; the content's hash is an input |
| `parse_trained`, `read_tree_tables`, `read_ncount_ctable` | the same, each returning the decoder's table, the encoder's and the bytes read |

### `ContentHash.tla`, `Parameters.tla`

`ContentHash` is the hasher of `xxh64.rs` with its buffer byte by byte and the
arithmetic left out: an accumulator is the list of words mixed into it, so two
hashes are equal when every step was given the same. `Parameters` is the four
tables of `params.rs` at their real size, `compression_params` with its
adjustments, `clamped`, and the option string both ways; `Formats` takes up the
levels.

### `DigestCache.tla`

What threads that compress against dictionaries share and keep: a dictionary's
slots behind a lock, and each thread's working set.

| code | model |
|---|---|
| `DictDigests`: the slots, their ticks | `dicts[a].slots`, in the order of the ticks |
| `DICT_WORK` | `work[t]`: owner, digest, the tables, which slots a frame has overwritten since (`stale`), `dirty_restores` |
| `acquire`: the parked set, the locked look-up, first sight of a key | `Begin`; `LookupReady`, `LookupBuild`; `LookupFirstSight` |
| `Digest::build` and `publish` outside and inside the lock | `Publish` |
| the frame, `restore`, `release` | `Serve`, `ServeError` |
| `PRIME_STRIDE_ARM`, `DIGEST_DIRTY_BROKEN` | `stride`, `broken` |

`SetPrimeStride` is taken only while no thread is in a call. The code's setter is a
bare atomic store (`encode.rs:1623`); that it is called between calls is what the key's
comment says of the arms (`encode.rs:952`) and what every caller in the repository
does. This is an assumption: were the arm switched between the making of a key and the
priming under it (`encode.rs:995`, `encode.rs:2325`), a digest would be kept under the
wrong key, and neither the run nor the proof says anything of that.

`stray` says that a finder stores where the closed-form restore does not look,
which the code's sampling exists to find out.

### `CommandLine.tla`

`run_file` and `write_out` of the command line, for lists of files: `Run`,
`ReadFile`, `Create` (which truncates), `Fill`, `RemoveSource`, each of which may
fail, and `Killed`, which may come between any two. A file's content is the data
it comes from, how often that is compressed, and where it is torn.

### The proof modules

`Compressor_proofs` (which extends `MCCompressor`, where the refinement is
stated), `Decompressor_proofs`, `MtJobs_proofs`, `BlockCodec_proofs`,
`DigestCache_proofs`, `CommandLine_proofs`, `MatchSearch_proofs` (also about
`RsyncEdit`, the other half of `ldm.rs`), `Formats_proofs`; see *Proofs*.

## Runs

| run | what it asks | bounds |
|---|---|---|
| `frames` | over any sequence of calls: `FrameWellFormed`, `DoneMeansComplete`, `FinishedFramesHandedOver`, `PledgeKept`, `NoInputLost`; that a call returns (`CallReturns`) and an ended frame is reported done in the end (`EndedFrameDone`) | window 3, blocks of 2, lookahead 1; inputs of 0, 1 and 4 bytes, output buffers of 0, 2 and 9 items, at most 8 bytes a frame: several blocks a call, slides, backlogs larger than a buffer, reclaim of the output buffer, several frames, coders that fail |
| `history` | `FullWindow`, `BoundedHistory`, `FreshStart`, `NothingHeldBack`, and the refinement `MakesWholeAppendBlocks` | dictionaries shorter and longer than the slide threshold, prefixes, two slide multipliers changed at any time, at most 14 bytes a frame: two slides |
| `streams` | `AcceptsLikeOneShot`, `OutputIsContent`, `TrueEnd`, `PlaceKept`, `BoundedOutput`; that done or an error is reported in the end (`WholeDecided`) | valid streams of two or three frames (four windows of content with every match at the window's edge, matches in a dictionary and across its end, empty and skippable frames), one stream for each way a unit can be rejected, truncated streams; every cut of 1, 2, 4 bytes or all at once; output buffers of 0, 1, 3 and 4; window 2, so that compaction runs several times in one frame |
| `mt` | `RangesTile`, `EachRangeOnce`, `AsIfInOrder`, `FramesStandAlone`, `Returns` | four jobs in a loop or on three workers, every schedule, every set of jobs that fail or panic: a worker may do none, one or several jobs, and fail in any; and sources of 0, 2 and 7 units cut at sizes about the minimum and at sync points, with dictionary, prefix and overlaps |
| `oneshot` | `SequencesRebuild`: the sequences and literals of a block, executed by a decoder that checks as `copy_match` does, give back the block; `StayTogether`: after an edit the sections of both sources fall together and stay so | contents of four words of five bytes, two letters, one word come again: matches near, far, overlapping, at every edge of the window (7); every finder alone, streaming with a slide and, most of them, with a dictionary one of whose offsets is beyond the window; and with a history that only primes; long-distance matches of 3; blocks of 3 and 7; two buckets and a chain of four, so that every table overflows; and nine units, every set of hits, three edits |
| `formats` | what is written reads back and what may be done in two ways comes to the same: `HeadersHonoured` (headers; the parameters of a level are in range), `WalksAgree` (the walks over frames, the output limit, the ignored checksum), `ChecksumsAlike`, `SeeksFind`, `EntropyTablesAgree` (FSE and Huffman), `DictionariesServe`, `LiteralsReadBack`, `SequencesDecode` | bytes of 8 values: every width at its limits; sources of up to three frames, whole, of one fault each, cut at every length, at every output limit; blobs of every small size and chunk; histograms in which every rounding occurs; literals and sequences of three successive blocks, in every form; every level from -7 on at the sizes where a table or a log changes; three parts whose lengths lie around a stripe and the widths of its copies; four samples (long, short, empty, repetitive) with searches that find no literals, one, several, no sequences, far offsets, at sizes that leave no room, some and enough; the thresholds scaled as the configuration says |
| `digests` | `StartsPrimed`, `SnapshotsRight`, `StaleOnlyUnsampled` | two threads, two dictionaries at two addresses that come and go, two parameter sets, one slot a dictionary (eviction at every second key), every second restore sampled |
| `files` | `NothingLost`, `OkLeavesNoPart` | two commands in a row, names of up to three `.zst`, files that overwrite each other, directories in any order, every failure and a kill at every step |
| `blocks` | `InStep`, `DecodesAsMeant` | frames of six bytes, blocks of up to three with up to two sequences, window 3; with and without a trained dictionary, one of whose repeat offsets is beyond the window; the limits 8 are 2 here: every mode of every table, repeats across raw blocks, several frames |
| `cut` | violated: the end of input inside a frame is never reported, though `error.rs` has `UnexpectedEof` for it | three truncated streams |
| `ignore` | violated: `force_ignore_checksum` is ignored by the streaming decoder | as `streams` |
| `far` | violated: `select_seq_table` may repeat a table that lacks a code of the block | as `blocks`, with tables built from three sequences on |

The last one needs a code the predefined offset table does not have, in a block
of too few sequences to build a table for: an offset above 2^29 - 4, which window
logs 30 and 31 allow (and 29 for its last few). Both tables then cost the same
"infinite" amount, and the tie goes to the previous one.

In `oneshot` the constants are the code's divided by about three, with what they
must keep: the margin of 8 before a block's end is 3, the shortest match 2, a row
3 positions, the gap a row search leaves out 4 with 2 and 1 at its ends. The
lazy finder looks one position ahead where the code looks up to two: it must stay
below the shortest match, as in the code. The chains' key has one byte, and two once
a frame is latched wide, which may be before any piece: the measurements that decide
it are left open. A prime stride of 1 and no fill between
the ends of a match are the shipped defaults.

`SequencesRebuild` is also what discharges `MayMatch`, the assumption of
`BlockCodec` about the searches: a sequence found is within the window, or in the
dictionary while the frame is in its first window.

In `formats` a dictionary's numbers have 16 bits for 32, literals 16 values for
256, a trainer is held to at least 40 bytes for 256, public ids run from 8 to 32,
and fastcover has 7 counters, so that runs of bytes share them. The header of a
dictionary then takes 26 to 79 bytes: sizes of 40, 110, 140 and 230 meet a header
that does not fit, content that is cut, and content that is not.

Deadlock is not checked for `Compressor`, `Decompressor`, `DigestCache` and
`CommandLine`: a program may stop calling, and the last command may be the last.
It is for the others, where only a finished call may stop.

Fairness. `WF(Running)` says a call that has begun keeps executing;
`SF(DrainCall)` says a caller with an ended frame keeps calling with a non-empty
buffer, which the type's documentation asks of it. The decompressor's caller is
the same: `SF(Feed)` and `SF(Drain)` say it gives what it has and then keeps
asking. In `MtJobs` the calling thread and each worker are weakly fair: they are
threads of the operating system, and nothing but a join makes one wait. Nothing
else is fair.

## Proofs

For every value of the constants that satisfies the modules' assumptions. Each
proof module has one theorem for each property named here, its name the
property's with `Holds`, one for the type invariant, and one for the inductive
invariant.

**Compressor.** `FrameWellFormed`, `PledgeKept`, `NoInputLost`,
`DoneMeansComplete`, `FinishedFramesHandedOver`. `IInv` is the types, `Counts`
(where the cursors stand in the frame), `Control` (which phases occur together),
`PledgeInv` (what the pledge leaves room for) and `FrameShape` (the items so far,
and how the last of them relates to the counters). None of the safety properties
is inductive alone: a block fits behind the last one only because the cursor is
where that one stopped, and the last block has the pledged size only because the
check at the start of the call counted everything the call would code. Each
action's step is proved under its own heading; `FrameAppend` and `FrameTake` are
the two facts about sequences it rests on: writing appends to the frame, handing
over leaves it alone.

**The compressor's history.** `FullWindow`, `BoundedHistory`, `FreshStart`,
`NothingHeldBack`, and the refinement `MakesWholeAppendBlocks`: that `Spec`
implements `WholeAppend`, for every window, block size, lookahead, slide
multiplier, dictionary and cut of the input. A step either starts the compressor
over (`StartsOver`: every setter between frames, the next frame, `reset`), and
then the history is what the settings alone decide, or it belongs to a call, and
then the cursor moves by a block and, when it has reached the slide's threshold,
back to one window (`BlockMoves`). `HistInv`, inductive with the `IInv` above, says
what lies between: nothing was dropped unless a full window is left (`Reach`),
and what is pending fits a block with its lookahead. For the refinement each
action maps to a step of the abstract compressor or to a stutter; the step that
needs an argument is coding a block, where the bytes not yet absorbed must not
change which block is cut nor what its lookahead sees: a block is only coded
early when the block and its lookahead are absorbed, and at the end nothing is
left unabsorbed.

**Decompressor.** `OutputIsContent`, `BoundedOutput`, `AcceptsLikeOneShot`,
`PlaceKept`, `TrueEnd`. The
assumption on the streams is `InPlace`: units stand where the decoder reads them
as what they are; that covers corrupt streams, whose units are faulty in what
they say. `IInv` is the types, `Buffers`, `Bounds` and `Place`. `Buffers` holds
the reason compaction is safe: once `frame_skipped` bytes of the open frame are
gone, the frame starts at the buffer's first byte and a whole window of it is
left (`CompactKeeps`), and `frame_out` counts the frame's bytes whether they are
in the buffer or not. So a match within the window finds its source
(`MatchIsRight`), and what `copy_match` refuses for bytes that are gone, a decoder
with the whole output refuses too or is a match into the history from beyond the
window (`BlockRefusedRightly`). `Verdict` ties the coder's state and the digest to
the units parsed since the frame was opened; with `IInv` it is inductive and
implies `AcceptsLikeOneShot`. `TrueEnd` needs to know when nothing is left:
`PlaceKept` says that the bytes to come are those of the units left, and since no
unit is empty, none are to come exactly behind the last unit; `Told` adds that
what is decoded is the content of the frames that have ended and the part of the
open one. `Bytes` and `Content` are recursive functions of the stream, so their
laws (`BytesCut`, `ContentToNext`) are proved by induction, see below.

**MtJobs.** `RangesTile`, `RangeLengths`, `EachRangeOnce`, `AsIfInOrder`,
`FramesStandAlone`, for any number of ranges and workers and any set of failures.
`IInv` is the types, `Geometry` (the ranges tile what is cut so far), `PhaseInv`
(the variables a phase does not use are as they began), `LoopInv` (the frames of
the loop are those of the first ranges) and `Threading`: a worker's claims and
its outcome agree with what encoding them does (`WorkInv`), each range below the
cursor is with exactly one worker, and `parts` has the frames of the workers
joined, `err` a failure one of them met (`JoinInv`). When all are joined without
an error no worker has stopped early, so the cursor is past the last range, every
range is in some worker's `done`, and `parts` is complete: that is the step from
`EachRangeOnce` to `AsIfInOrder`.

**BlockCodec.** `RoundTrip` is the fact about `RepCodes`: for every offset and
every three remembered ones, with literals or without, the decoder reads the
offset the encoder meant and both then remember the same. `InStep` holds
unconditionally. `DecodesAsMeant` is proved under `DefaultsCover`: the predefined
tables have the codes of every length and of every offset within the window and
the dictionary. That is true of the code as long as no match reaches further back
than 2^29 - 4; that something of the kind is needed is what the run `far` shows. `IInv` is the types, `WireTypes`, `Remembered`
(while a block is written the decoder still remembers what the encoder saved, or
what the raw block leaves), `Followed` (the offset codes are those of the
sequences from the offsets in `trail`; the decoder is `i` sequences along it),
`Placed` (the sequences lie in the block and reach only what is there) and
`Understood`.

**DigestCache.** `SnapshotsRight`, `StartsPrimed`, `StaleOnlyUnsampled`, for any
number of threads, addresses, dictionaries, parameter sets, slots and sampling
periods. None is inductive: a thread parks its working set and comes back to it
after others have evicted its slot, or dropped its dictionary and put another at
its address. `IInv` therefore says of every set, parked (`ParkedSound`) or in a
call (`CallsSound`), that its digest is the one its key stands for *as long as its
owner lives* (`Mirrored`), and that it is at rest or was restored, uncompared,
under a finder that strays (`Rested`). Building a digest happens outside the lock;
that what is published is right although the slots have changed since the look-up
follows from the key alone, and that a key keeps one slot from `Publish` looking
again.

**CommandLine.** `OkLeavesNoPart` and the action property `NothingLost`, for any
files, any commands and any number of them. `IInv` follows one file through
`run_file`: what is in memory comes from the file that is worked on and is as
whole as it (`Buffered`), it is written somewhere else, and what is there is in
part exactly between `create` and the end of `write_all` (`Written`); until the
first command has ended nothing else is in part (`FirstWhole`). `NothingLost` then
is a matter of the two steps that destroy a file: `Create`, which records in
`given_up` the data whose last whole copy `-f` writes over, and `RemoveSource`,
which comes when the result holds what the source held. Assumed of the constants
(`DisksAssumption`, `CommandsAssumption`): files are whole at first, and no
command's `-o` names its own source. The code does not refuse such a command,
which is why the property leaves it out.

**RsyncEdit** (in `MatchSearch_proofs`). `StayTogether`, and its converse
`StayTogetherBack`, for any source, edit, set of hits and job size. `EditInv` says that each cutting is a chain
(`Chain`: every end but the last is followed by the end of the section it begins,
with none between) and has both directions, which need each other: that the ends
of one source are ends of the other is kept by a cut of the first because the
other did not skip its next end, and by a cut of the other because the first did
not. Beyond the edit a section of the one source is a section of the other, moved
(`SectionMoves`).

**MatchSearch.** `SequencesRebuild`, for any content and history over any alphabet,
any window, block length, shortest match, margin and size of the tables, all seven
finders, with and without long-distance matches, one-shot and streaming. Nothing
is assumed of the tables: whatever a slot holds, a position becomes a match only by
the tests before it is taken (`LongestIs`, `LengthAtIs`), and keeps being one when
it is drawn back (`TakenIs`). `IInv` therefore speaks of what was found and of what
is in hand. `CoverOK` and `PieceOK`: the block up to the last long-distance match
and the piece up to its anchor are `Rebuilt`, which says of sequences and literals
that each sequence leads from where the one before it ended, over literals that
are the bytes there, to the end of a copy that is right and that `copy_match`
accepts. `SearchOK` and `RowsOK`: a repeat offset still leads into what the frame
may reach. The finders that take no second look get this from their test at every
use; the row finders ask once, at the beginning of a piece, and it stays true
because an offset taken since is a match's and an anchor only moves on. `RowsOK`
has the match in hand, too: it is one from where it starts, whatever is looked at
before it is taken. `OptimalOK`: every step `find_opt` collected is one from its
own beginning, and those on the way back lie behind one another. `FoundOK` is
`CoverOK` when the block is done. The property then follows from `ExecuteAllIs`,
what a decoder makes of `Rebuilt` sequences. Assumed (`SearchAssumption`,
`InputAssumption`): a block fits the window, a slide comes no sooner than at two
windows, the lazy look-ahead is shorter than the shortest match, no dictionary has
a repeat offset of 0 (`dict.rs:139`), and only one-shot calls have a history that
merely primes (`mt.rs:127`).

**Formats.** `ChecksumsAlike`, for any content and any cutting of it. The inductive
invariant is `HasherHasHad`: after `t` bytes the hasher is what the content alone
decides (`HasherIs`): the lanes have mixed in the words of the whole stripes
(`Taken`), in order, and the buffer begins with the bytes behind them. `UpdateIs`
shows that each way through `update` keeps it (too little for a stripe; topping up
a buffer that is not empty, then the stripes; the stripes alone), with
`CopyIntoBufIs` for the two overlapping moves by which the buffer is filled, and
`DigestIs` that `digest` then has what `xxh64` has.

`WalksAgree`, for any frames that lie end to end, well formed, faulty or garbage,
cut at any length, and any options of the decoder. The inductive invariant says
little (`SourceTaken`: what is taken up is such a source); the work is in the walks.
Each is a function over the frames, with one over a frame's blocks inside of it,
and for each two things are shown: what a turn does to where the walk stands, to
its types and its error (`DecodeBlockIs`, `SkipBlockIs`, `CensusBlockIs`,
`DecompressFrameIs`, `InspectFrameIs`, `SizeFrameIs`), and that a loop without an
error has read exactly the bytes of what it went through (`DecodedToAll`,
`SkippedToAll`, `CountedToAll`, `DecompressedToAll`, `ListedToAll`). For
`WalkersAgree` the decoder that accepts a source vouches for what the others need:
its frames can be read (`Reads`), so listing goes through, its sizes sum up to the
source, and the first frame, decoded alone, regenerates what its header says and
its census counts. `TruncationSeen` follows from the same: a walk that ends
without an error ends where a frame does. `LimitExact` follows two decoders side by
side: until the limited one gives up they are equal, and it gives up only if the
other comes to an error or beyond the limit (`Follows`); how far beyond its limit it
can have written is in `DecodeBlockIs`. `IgnoringForgivesOnlyMismatch` is the same
with `Forgiven`. Assumed (`FormatsAssumption`): the constants are of the types the
walks read; of a frame, that no block but its last is marked as the last; of a
source, that only its last frame may go on without one, for behind such a frame the
next bytes would be blocks of it.

`SeeksFind`, for any length cut up into frames of any size. The invariant again says
only what is taken up (`BlobTaken`); the rest is about one blob (`IsBlob`). Its chunks
lie end to end (`ChunksIs`), so the decompressed sizes add up to where each chunk
begins and the compressed ones to where each frame does (`BlobSums`). Where a token of
the file begins is the sum of the lengths before it, which no other token shares
(`OffsetsGrow`, `AtIs`); from the end of the file `ParseSeekTable` therefore comes to
the footer, the number of entries, the table's header and, four bytes at a time, to the
fields of each entry (`TableAt`, `FieldAt`), and reads what was written (`ParseIs`).
The first entry that covers an offset is that of the chunk the offset lies in, its
bytes are that frame and no other (`HoldsIs`), and decoded alone the frame gives its
chunk (`ChunkFrameIs`, on `DecodesAlone` of the walks); at the end no entry covers
(`FrameAtIs`).

`HeadersHonoured`, for any pledged size of eight bytes, any dictionary's id of four,
any window log, flags and target block size, and for every level and any size. The
invariant says what is taken up (`ArgsTaken`); the rest is about one header, or one
level. A number in as many bytes as it needs has the value it had: the bytes up to
the k-th are worth the number less what is a multiple of `Radix^k` (`BytesAre`, on
`PowIs`, `PowGrows` and `DivDiv`), and each width the writer chooses has room for
what it writes (`SizeIs`, `IdIs`). The descriptor then tells the reader where each
field lies (`LaidIs`, `ReadIs`), and of any shorter cut that it is cut short
(`HeaderIs`). The window of five bits of exponent is no smaller than the encoder's
(`WindowCovers`), and so a block as large as `frame_block_max` makes it passes the
decoder's bound and fits the block header's bytes (`FrameBlockMaxIs`, `BlocksAre`).
For a level, every row of the four tables lies in ranges (`TablesAre`), which
`FitWindowIs`, `FitHashIs` and `FitChainIs` narrow to what `clamped` leaves alone,
the hash and the chain against the window they were fitted to; that the window
covers the source comes from `SrcLogIs`; and a string that sets all seven fields
leaves nothing of the parameters it is applied to (`OptionsIs`). Assumed
(`HeaderConstants`, `FormatsAssumption`): the largest window log is at most 31 above
the least, for the exponent has five bits; a block header's three bytes have room for
the largest block; a size has eight bytes (it is a `u64`) and an id four; a level is
one that does not come to `InvalidLevel`.

**Induction.** The library's induction theorems take an operator as a parameter,
which the installed provers cannot instantiate. Where a recursive function or a
fold must be known for every input (`Bytes`, `Content`, `CollectPaths`,
`RepsAfter`, `ExecuteAll`, the walks and sums of `Frames`, the stripes of a hash, powers, the
least element of a set of naturals) the proofs do the induction with sets: `NatSet`, any
set of naturals with 0 and every successor is `Nat`, from the well-foundedness of
`<` and `WFMin`.

Only model-checked:

- `EntropyTablesAgree`, `DictionariesServe`, `LiteralsReadBack`, `SequencesDecode`:
  they are stated in `MCFormats`, which reaches RECURSIVE
  operators through the entropy coders, and tlapm has no SMT backend for a module
  with one;
- liveness (`CallReturns`, `EndedFrameDone`, `WholeDecided`, `Returns`), which is
  out of the prover's reach;
- the three properties that do not hold (`cut`, `ignore`, `far`).

## Plan

Done: the two streaming types, the block codec's memory, the multi-threaded
encoder, rsync sections; the finders and the one-shot encoder, the entropy coders,
headers, walks over frames, the seekable format, dictionaries and their training,
parameters, the content hash, the digest cache, the command line's files. What is
left, in order:

1. The composition of `Compressor` and `Decompressor` with `BlockCodec`'s
   contract between them: every frame written decodes however it is cut, and
   every match a block may use finds its source after any slide. Abstract
   specification: a frame is a pair of its content and its end. The parts of it
   that are proved: `FullWindow` (the encoder keeps a window), `SequencesRebuild`
   (no match leaves it, also across a slide), `OutputIsContent` (the decoder keeps
   one too).
2. The entropy coders with recursive functions instead of RECURSIVE operators, so
   that what their proofs would need is visible to the provers: first the FSE tables
   (`EntropyTablesAgree`), then the sections of a block on top of them.

## Not modelled

- SIMD and BMI2 twins, and copies of one loop for constants known at compile
  time: the model has the loop once. The two-way pipelines of the fast finders
  and the interleaved decoders reorder loads, not decisions.
- Knobs, censuses and profile counters, a large part of the lines of `encode.rs`,
  `encode/knobs.rs` and `encode/fast.rs`: what they decide is heuristic and left
  open, what they count nobody reads. With the tests, the benchmarks and the
  example programs they are most of the repository, and the reason that the map
  names a minor part of its lines.
- The arithmetic of the content hash, and the allocator.
- The search inside the trainer's harvest: what it finds is an input of `Train`.
- Scratch pools: a lease begins empty and belongs to one thread.
- What `select_seq_table` then writes for a code its table lacks (run `far`): the
  model marks it garbled.
- `set_dictionary` and `set_prefix` of the decompressor inside a frame, which
  replace the history its matches reach into (`stream.rs:707`), and calls after an
  error that moved the cursor: neither is documented, and there is nothing to
  compare them with.
- A command whose `-o` names its own source with `--rm`; the listing,
  training and benchmarking commands, and pipes.
