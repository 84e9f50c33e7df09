----------------------------- MODULE Parameters -----------------------------
(***************************************************************************)
(* Compression parameters (params.rs): derived from a level and what is    *)
(* known of the source's size, set one by one from an option string, and   *)
(* forced into range where a caller's own come in.  Strategies are their   *)
(* ids, from 1 for Fast to 9 for BtUltra2; the long-distance and threading *)
(* fields, which nothing here reads, are left out.  A hint is a sequence,  *)
(* empty when the size is not known.                                       *)
(***************************************************************************)
EXTENDS Numbers

Clamp(n, low, high) == Min({Max({n, low}), high})

BtLazy2 == 6
BlockMaxBytes == Pow(2, 17)

-----------------------------------------------------------------------------
(* A row: window, chain, hash and search log, least match, target length,    *)
(* strategy.                                                                *)

TableDefault ==
    <<<<19, 12, 13, 1, 6, 1, 1>>, <<19, 13, 14, 1, 7, 0, 1>>, <<20, 15, 16, 1, 6, 0, 1>>,
      <<21, 16, 17, 1, 5, 0, 2>>, <<21, 18, 18, 1, 5, 0, 2>>, <<21, 18, 19, 3, 5, 2, 3>>,
      <<21, 18, 19, 3, 5, 4, 4>>, <<21, 19, 20, 4, 5, 8, 4>>, <<21, 19, 20, 4, 5, 16, 5>>,
      <<22, 20, 21, 4, 5, 16, 5>>, <<22, 21, 22, 5, 5, 16, 5>>, <<22, 21, 22, 6, 5, 16, 5>>,
      <<22, 22, 23, 6, 5, 32, 5>>, <<22, 22, 22, 4, 5, 32, 6>>, <<22, 22, 23, 5, 5, 32, 6>>,
      <<22, 23, 23, 6, 5, 32, 6>>, <<22, 22, 22, 5, 5, 48, 7>>, <<23, 23, 22, 5, 4, 64, 7>>,
      <<23, 23, 22, 6, 3, 64, 8>>, <<23, 24, 22, 7, 3, 256, 9>>, <<25, 25, 23, 7, 3, 256, 9>>,
      <<26, 26, 24, 7, 3, 512, 9>>, <<27, 27, 25, 9, 3, 999, 9>>>>

Table256K ==
    <<<<18, 12, 13, 1, 5, 1, 1>>, <<18, 13, 14, 1, 6, 0, 1>>, <<18, 14, 14, 1, 5, 0, 2>>,
      <<18, 16, 16, 1, 4, 0, 2>>, <<18, 16, 17, 3, 5, 2, 3>>, <<18, 17, 18, 5, 5, 2, 3>>,
      <<18, 18, 19, 3, 5, 4, 4>>, <<18, 18, 19, 4, 4, 4, 4>>, <<18, 18, 19, 4, 4, 8, 5>>,
      <<18, 18, 19, 5, 4, 8, 5>>, <<18, 18, 19, 6, 4, 8, 5>>, <<18, 18, 19, 5, 4, 12, 6>>,
      <<18, 19, 19, 7, 4, 12, 6>>, <<18, 18, 19, 4, 4, 16, 7>>, <<18, 18, 19, 4, 3, 32, 7>>,
      <<18, 18, 19, 6, 3, 128, 7>>, <<18, 19, 19, 6, 3, 128, 8>>, <<18, 19, 19, 8, 3, 256, 8>>,
      <<18, 19, 19, 6, 3, 128, 9>>, <<18, 19, 19, 8, 3, 256, 9>>, <<18, 19, 19, 10, 3, 512, 9>>,
      <<18, 19, 19, 12, 3, 512, 9>>, <<18, 19, 19, 13, 3, 999, 9>>>>

Table128K ==
    <<<<17, 12, 12, 1, 5, 1, 1>>, <<17, 12, 13, 1, 6, 0, 1>>, <<17, 13, 15, 1, 5, 0, 1>>,
      <<17, 15, 16, 2, 5, 0, 2>>, <<17, 17, 17, 2, 4, 0, 2>>, <<17, 16, 17, 3, 4, 2, 3>>,
      <<17, 16, 17, 3, 4, 4, 4>>, <<17, 16, 17, 3, 4, 8, 5>>, <<17, 16, 17, 4, 4, 8, 5>>,
      <<17, 16, 17, 5, 4, 8, 5>>, <<17, 16, 17, 6, 4, 8, 5>>, <<17, 17, 17, 5, 4, 8, 6>>,
      <<17, 18, 17, 7, 4, 12, 6>>, <<17, 18, 17, 3, 4, 12, 7>>, <<17, 18, 17, 4, 3, 32, 7>>,
      <<17, 18, 17, 6, 3, 256, 7>>, <<17, 18, 17, 6, 3, 128, 8>>, <<17, 18, 17, 8, 3, 256, 8>>,
      <<17, 18, 17, 10, 3, 512, 8>>, <<17, 18, 17, 5, 3, 256, 9>>, <<17, 18, 17, 7, 3, 512, 9>>,
      <<17, 18, 17, 9, 3, 512, 9>>, <<17, 18, 17, 11, 3, 999, 9>>>>

Table16K ==
    <<<<14, 12, 13, 1, 5, 1, 1>>, <<14, 14, 15, 1, 5, 0, 1>>, <<14, 14, 15, 1, 4, 0, 1>>,
      <<14, 14, 15, 2, 4, 0, 2>>, <<14, 14, 14, 4, 4, 2, 3>>, <<14, 14, 14, 3, 4, 4, 4>>,
      <<14, 14, 14, 4, 4, 8, 5>>, <<14, 14, 14, 6, 4, 8, 5>>, <<14, 14, 14, 8, 4, 8, 5>>,
      <<14, 15, 14, 5, 4, 8, 6>>, <<14, 15, 14, 9, 4, 8, 6>>, <<14, 15, 14, 3, 4, 12, 7>>,
      <<14, 15, 14, 4, 3, 24, 7>>, <<14, 15, 14, 5, 3, 32, 8>>, <<14, 15, 15, 6, 3, 64, 8>>,
      <<14, 15, 15, 7, 3, 256, 8>>, <<14, 15, 15, 5, 3, 48, 9>>, <<14, 15, 15, 6, 3, 128, 9>>,
      <<14, 15, 15, 7, 3, 256, 9>>, <<14, 15, 15, 8, 3, 256, 9>>, <<14, 15, 15, 8, 3, 512, 9>>,
      <<14, 15, 15, 9, 3, 512, 9>>, <<14, 15, 15, 10, 3, 999, 9>>>>

\* table_for_size.
TableForSize(hint) ==
    IF hint = <<>> THEN TableDefault
    ELSE IF hint[1] <= 16 * 1024 THEN Table16K
    ELSE IF hint[1] <= 128 * 1024 THEN Table128K
    ELSE IF hint[1] <= 256 * 1024 THEN Table256K
    ELSE TableDefault

\* row_to_params.
RowToParams(row) ==
    [window_log |-> row[1], chain_log |-> row[2], hash_log |-> row[3], search_log |-> row[4],
     min_match |-> row[5], target_length |-> row[6], strategy |-> row[7]]

-----------------------------------------------------------------------------
(* compression_params, as it is without its bench arms.                     *)

\* What is outside of them is InvalidLevel.
Levels == -7..22

SrcLog(n) == Log2(Max({n, 64}) - 1) + 1

\* Levels below 0 are the fastest row with a target length.
LevelParams(level, table) ==
    CASE level < 0 -> [RowToParams(table[1]) EXCEPT !.target_length = -level]
      [] level = 0 -> RowToParams(table[4])
      [] level > 0 -> RowToParams(table[level + 1])

\* The window: no larger than the source needs, and 10 at least.
FitWindow(p, hint) ==
    LET known == hint # <<>> /\ hint # <<0>>
        log == IF known THEN Min({p.window_log, Max({SrcLog(hint[1]), 10})}) ELSE p.window_log
    IN [p EXCEPT !.window_log = Max({log, 10})]

\* The hash: a bucket for each position of a known source, two of the window.
FitHash(p, hint) ==
    LET log == Min({Clamp(p.hash_log, 6, 24), p.window_log + 1})
        known == hint # <<>> /\ hint # <<0>>
        tight == IF known THEN Min({log, SrcLog(hint[1])}) ELSE log
    IN [p EXCEPT !.hash_log = Clamp(tight, 6, 24)]

\* ZSTD_cycleLog: the tree has two slots for a position.
CycleLog(p) == p.chain_log - (IF p.strategy >= BtLazy2 THEN 1 ELSE 0)

\* The chain: no longer than the window.
FitChain(p) ==
    LET q == [p EXCEPT !.chain_log = Min({@, 24})]
        over == Max({CycleLog(q) - q.window_log, 0})
    IN [q EXCEPT !.chain_log = Max({@ - over, 6})]

CompressionParams(level, hint) ==
    LET p == FitWindow(LevelParams(level, TableForSize(hint)), hint)
    IN [FitChain(FitHash(p, hint)) EXCEPT !.min_match = Clamp(@, 3, 7)]

-----------------------------------------------------------------------------
(* clamped, with the bounds of a 64-bit build, and apply_zstd_kv.  A value   *)
(* below 0 is a large one where it is cast before it is clamped.            *)

Clamped(p) ==
    [p EXCEPT !.window_log = Clamp(@, 10, 31), !.chain_log = Clamp(@, 6, 30),
              !.hash_log = Clamp(@, 6, 30), !.search_log = Clamp(@, 1, 30),
              !.min_match = Clamp(@, 3, 7), !.target_length = Min({@, BlockMaxBytes})]

CastClamp(value, low, high) == IF value < 0 THEN high ELSE Clamp(value, low, high)

\* No record of parameters is empty: <<>> is the error.
ApplyKV(p, key, value) ==
    CASE key = "windowLog" -> [p EXCEPT !.window_log = Max({value, 10})]
      [] key = "chainLog" -> [p EXCEPT !.chain_log = Max({value, 6})]
      [] key = "hashLog" -> [p EXCEPT !.hash_log = Max({value, 6})]
      [] key = "searchLog" -> [p EXCEPT !.search_log = Max({value, 1})]
      [] key = "minMatch" -> [p EXCEPT !.min_match = CastClamp(value, 3, 7)]
      [] key = "targetLength" -> [p EXCEPT !.target_length = Max({value, 0})]
      [] key = "strategy" ->
           IF value \in 1..9 THEN [p EXCEPT !.strategy = value] ELSE <<>>
      [] OTHER -> <<>>

\* apply_zstd_option_string, up to the first assignment that is wrong.
ApplyOptions(p, options) ==
    LET a[i \in 0..Len(options)] ==
          IF i = 0 THEN p
          ELSE IF a[i - 1] = <<>> THEN <<>>
          ELSE ApplyKV(a[i - 1], options[i][1], options[i][2])
    IN  a[Len(options)]

\* to_zstd_option_string.
OptionString(p) ==
    <<<<"windowLog", p.window_log>>, <<"chainLog", p.chain_log>>, <<"hashLog", p.hash_log>>,
      <<"searchLog", p.search_log>>, <<"minMatch", p.min_match>>,
      <<"targetLength", p.target_length>>, <<"strategy", p.strategy>>>>

-----------------------------------------------------------------------------

\* The parameters of a level are in the encoder's range as they are: streams,
\* which take only levels, do not clamp them.  A source of a known size up to
\* the largest table's is covered by its window; no table of the finders holds
\* more than the window; and the option string says all there is to say.
LevelInRange(level, hint, other) ==
    LET p == CompressionParams(level, hint)
    IN /\ Clamped(p) = p
       /\ hint # <<>> /\ hint[1] <= 256 * 1024 => Pow(2, p.window_log) >= hint[1]
       /\ p.hash_log <= p.window_log + 1
       /\ CycleLog(p) <= p.window_log
       /\ ApplyOptions(other, OptionString(p)) = p
=============================================================================
