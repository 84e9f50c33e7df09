------------------------------ MODULE FseTables ------------------------------
(***************************************************************************)
(* Finite state entropy tables (fse.rs, encode/block.rs): a histogram is   *)
(* normalised to a power of two, written to the block as an NCount header, *)
(* and turned into an encoding table; the decoder parses the header and    *)
(* builds the decoding table from it.  Symbols count from 0, so a norm is  *)
(* a function on 0..n; probability -1 is one slot at the table's end.      *)
(***************************************************************************)
EXTENDS BitStreams, Functions

CONSTANTS
    NoTable,    \* what a side holds before the first table of a kind
    MinLog,     \* 5: the least accuracy log
    MaxLog,     \* 9: the greatest
    WeightLog   \* 6: the greatest of a table for Huffman weights

ASSUME LogsOrdered == MinLog \in Nat /\ MinLog <= WeightLog /\ WeightLog <= MaxLog

LOCAL Abs(n) == IF n < 0 THEN -n ELSE n
LOCAL Total(f) == MapThenSumSet(LAMBDA s : f[s], DOMAIN f)

\* Slots of a symbol in the table.
Slots(p) == Abs(p)

-----------------------------------------------------------------------------
(* optimal_table_log and normalize_count.                                   *)

OptimalTableLog(max_log, src_size, max_symbol) ==
    LET max_bits_src == Max({0, HighBit(src_size - 1) - 2})
        min_bits == Min({HighBit(src_size) + 1, HighBit(max_symbol) + 2})
    IN IF src_size <= 1 THEN MinLog
       ELSE Min({MaxLog, Max({Min({max_log, max_bits_src}), min_bits, MinLog})})

RoundUpAbove == <<0, 473195, 504333, 520860, 550000, 700000, 750000, 830000>>

\* c * (2^62 / total) shifted down to the table's log.  The division rounds
\* the step down, so a share that is a whole number comes out one less, and
\* nearly one short, unless total divides 2^62.  Shares under 8 round up when
\* what is cut off passes a threshold in units of 2^-20.
Share(c, total, log) ==
    LET product == c * 2^log
        whole == product \div total
        cut == product % total
        exact == \E k \in 0..HighBit(total) : total = 2^k
        short == cut = 0 /\ ~exact
        p == IF short THEN whole - 1 ELSE whole
        up == short \/ cut * 2^20 > RoundUpAbove[p + 1] * total
    IN IF p < 8 /\ up THEN p + 1 ELSE p

\* The fallback: every counted symbol its share rounded down, one at least, and
\* the rest to or from the largest.
ScaleByTableSize(count, log, total, largest) ==
    LET w == [s \in DOMAIN count |->
                IF count[s] = 0 THEN 0 ELSE Max({1, (count[s] * 2^log) \div total})]
    IN [w EXCEPT ![largest] = Max({1, @ + 2^log - Total(w)})]

NormalizeCount(count, log, total, low_prob) ==
    LET low == total \div 2^log
        rare(s) == count[s] \in 1..low
        norm == [s \in DOMAIN count |->
                   IF count[s] = 0 THEN 0
                   ELSE IF rare(s) THEN low_prob ELSE Share(count[s], total, log)]
        shares == {s \in DOMAIN count : ~rare(s) /\ norm[s] > 0}
        largest == IF shares = {} THEN 0
                   ELSE Min({s \in shares : \A x \in shares : norm[x] <= norm[s]})
        still == 2^log - MapThenSumSet(LAMBDA s : Slots(norm[s]), DOMAIN norm)
    IN IF \E s \in DOMAIN count : count[s] = total THEN Corrupt
       ELSE IF still < 0 /\ -still >= Slots(norm[largest]) \div 2
            THEN ScaleByTableSize(count, log, total, largest)
            ELSE [norm EXCEPT ![largest] = Max({1, @ + still})]

-----------------------------------------------------------------------------
(* The NCount header.  `left` slots and one more are to be shared out; the   *)
(* next probability takes as many bits as `left` has, or one fewer when it   *)
(* is small enough that the larger values leave the short code free.        *)

Threshold(left) == 2^HighBit(left)
ShortBelow(left) == 2 * Threshold(left) - 1 - left

Probability_mut(left, p) ==
    LET v == p + 1
        code == IF v >= Threshold(left) THEN v + ShortBelow(left) ELSE v
    IN Field(code, HighBit(left) + (IF code <= ShortBelow(left) THEN 0 ELSE 1))

Probability(left, p) ==
    LET v == p + 1
        code == IF v >= Threshold(left) THEN v + ShortBelow(left) ELSE v
    IN Field(code, HighBit(left) + (IF code < ShortBelow(left) THEN 0 ELSE 1))

\* More zeros after a zero, three at a time.
ZeroRun(n) == [i \in 1..(2 * (n \div 3)) |-> 1] \o Field(n % 3, 2)

NoRun == -1

NCountStep(w, p) ==
    IF w.left <= 1 THEN w
    ELSE IF w.zeros # NoRun /\ p = 0 THEN [w EXCEPT !.zeros = @ + 1]
    ELSE [bits |-> w.bits \o (IF w.zeros = NoRun THEN <<>> ELSE ZeroRun(w.zeros))
                          \o Probability(w.left, p),
          left |-> w.left - Slots(p),
          zeros |-> IF p = 0 THEN 0 ELSE NoRun]

WriteNCount(norm, log) ==
    LET start == [bits |-> Field(log - MinLog, 4), left |-> 2^log + 1, zeros |-> NoRun]
        end == FoldLeft(NCountStep, start, [i \in 1..Cardinality(DOMAIN norm) |-> norm[i - 1]])
    IN IF end.left # 1 THEN Corrupt ELSE Padded(end.bits)

\* parse_ncount_into.  `src` holds whatever follows the header too.
RECURSIVE ParseCounts(_, _, _)
ParseCounts(src, max_symbol, r) ==
    LET n == HighBit(r.left) + 1
        have(k) == r.pos + k <= Len(src)
        peek(k) == Number(SubSeq(src, r.pos + 1, r.pos + k))
        short == peek(n - 1) < ShortBelow(r.left)
        wide == peek(n)
        code == IF short THEN peek(n - 1)
                ELSE IF wide >= Threshold(r.left) THEN wide - ShortBelow(r.left) ELSE wide
        p == code - 1
    IN CASE r.left = 1 /\ ~r.zeros -> [norm |-> r.norm, pos |-> r.pos]
         [] r.zeros ->
              IF ~have(2) \/ Len(r.norm) + peek(2) > max_symbol THEN Corrupt
              ELSE ParseCounts(src, max_symbol,
                     [r EXCEPT !.pos = @ + 2, !.zeros = peek(2) = 3,
                               !.norm = @ \o [i \in 1..peek(2) |-> 0]])
         [] OTHER ->
              IF r.left < 1 \/ ~have(n) \/ Len(r.norm) > max_symbol THEN Corrupt
              ELSE ParseCounts(src, max_symbol,
                     [pos |-> r.pos + (IF short THEN n - 1 ELSE n),
                      left |-> r.left - Slots(p), norm |-> Append(r.norm, p),
                      zeros |-> p = 0])

ParseNCount(src, max_symbol, max_log) ==
    LET log == Number(SubSeq(src, 1, 4)) + MinLog
        start == [pos |-> 4, left |-> 2^log + 1, norm |-> <<>>, zeros |-> FALSE]
    IN IF Len(src) < 4 \/ log > max_log THEN Corrupt
       ELSE Then(ParseCounts(src, max_symbol, start), LAMBDA counts :
              [log |-> log, bytes |-> (counts.pos + 7) \div 8,
               norm |-> [s \in 0..(Len(counts.norm) - 1) |-> counts.norm[s + 1]]])

-----------------------------------------------------------------------------
(* The tables.  Symbols of probability -1 take the last slots; the others    *)
(* are dealt out over the rest with a stride that visits every slot.        *)

LOCAL UpTo(n) == [i \in 1..n |-> i - 1]

Lows(norm) == SelectSeq(UpTo(Cardinality(DOMAIN norm)), LAMBDA s : norm[s] = -1)

Spread(norm, log) ==
    LET size == 2^log
        lows == Lows(norm)
        high == size - 1 - Len(lows)
        step == (size \div 2) + (size \div 8) + 3
        visit == SelectSeq([i \in 1..size |-> ((i - 1) * step) % size],
                           LAMBDA x : x <= high)
        deal == FlattenSeq([i \in 1..Cardinality(DOMAIN norm) |->
                   [j \in 1..Max({0, norm[i - 1]}) |-> i - 1]])
        empty == [x \in 0..(size - 1) |-> IF x > high THEN lows[size - x] ELSE 0]
    IN FoldLeft(LAMBDA at, i : [at EXCEPT ![visit[i]] = deal[i]], empty, [i \in DOMAIN visit |-> i])

\* FseTable::from_norm_buf.  The slots of a symbol are numbered from its
\* probability on; a slot's number tells the bits to read and where they lead.
DecodeTable(norm, log) ==
    LET at == Spread(norm, log)
        next(x) == Slots(norm[at[x]]) + Cardinality({y \in 0..(x - 1) : at[y] = at[x]})
        num_bits(x) == log - HighBit(next(x))
    IN [x \in DOMAIN at |-> [symbol |-> at[x], num_bits |-> num_bits(x),
                             baseline |-> next(x) * 2^num_bits(x) - 2^log]]

\* The most bits a step over a symbol of probability p writes.
MaxBitsOut(p, log) == IF Slots(p) = 1 THEN log ELSE log - HighBit(p - 1)

\* FseCTable::from_norm.  The state table lists the slots symbol by symbol.  A
\* symbol's delta packs max_bits and min_state into one word, so that adding a
\* state and shifting gives the bits to write: `find` moves on to its slots.
EncodeTable(norm, log) ==
    LET at == Spread(norm, log)
        slots(s) == SelectSeq(UpTo(2^log), LAMBDA x : at[x] = s)
        before(s) == Cardinality({x \in DOMAIN at : at[x] < s})
    IN [log |-> log,
        states |-> FlattenSeq([i \in 1..Cardinality(DOMAIN norm) |-> slots(i - 1)]),
        delta |-> [s \in {t \in DOMAIN norm : norm[t] # 0} |->
                     [max_bits |-> MaxBitsOut(norm[s], log),
                      min_state |-> Slots(norm[s]) * 2^MaxBitsOut(norm[s], log),
                      find |-> before(s) - Slots(norm[s])]]]

\* init_state2 and encode.  A state is 2^log and a slot.
StateAt(table, i) == 2^table.log + table.states[i + 1]

InitState(table, s) ==
    LET d == table.delta[s] IN StateAt(table, (d.min_state \div 2^d.max_bits) + d.find)

BitsOut(table, state, s) ==
    LET d == table.delta[s]
    IN IF state >= d.min_state THEN d.max_bits ELSE d.max_bits - 1

NextState(table, state, s) ==
    StateAt(table, (state \div 2^BitsOut(table, state, s)) + table.delta[s].find)

-----------------------------------------------------------------------------
(* ncount_and_norm and ncount_seq_norm: the last symbol of a sequence table  *)
(* is only a first state, and is left out of the counts when it can be.     *)

Without(count, last_sym) ==
    IF count[last_sym] > 1 THEN [count EXCEPT ![last_sym] = @ - 1] ELSE count

NormAndHeader(count, log, total, low_prob) ==
    Then(NormalizeCount(count, log, total, low_prob), LAMBDA norm :
      Then(WriteNCount(norm, log), LAMBDA header :
        [norm |-> norm, log |-> log, header |-> header]))

NCountAndNorm(count, max_log, low_prob) ==
    LET total == Total(count)
        max_sv == Max({s \in DOMAIN count : count[s] > 0})
    IN NormAndHeader(Restrict(count, 0..max_sv), OptimalTableLog(max_log, total, max_sv),
                     total, low_prob)

-----------------------------------------------------------------------------
(* Huffman weights under two states that take turns.  compress_using_ctable *)
(* goes from the last weight to the first; the last two are first states.   *)

EncodeWeights(ws, table) ==
    LET n == Len(ws)
        start == [even |-> InitState(table, ws[IF n % 2 = 1 THEN n ELSE n - 1]),
                  odd |-> InitState(table, ws[IF n % 2 = 1 THEN n - 1 ELSE n]),
                  bits |-> <<>>]
        write(i, c) ==
            LET state == IF i % 2 = 1 THEN c.even ELSE c.odd
                next == NextState(table, state, ws[i])
                bits == c.bits \o Field(state, BitsOut(table, state, ws[i]))
            IN IF i % 2 = 1 THEN [c EXCEPT !.even = next, !.bits = bits]
                            ELSE [c EXCEPT !.odd = next, !.bits = bits]
        end == FoldRight(write, [i \in 1..(n - 2) |-> i], start)
    IN Close(end.bits \o Field(end.odd, table.log) \o Field(end.even, table.log))

\* weights_into_body.  Nothing says how many weights there are: the state whose
\* bits are no longer there was the last but one, and the other is the last.
RECURSIVE DecodeTurns(_, _, _, _, _, _)
DecodeTurns(table, bits, a, b, out, max_out) ==
    LET e == table[a]
        rest == Skip(bits, e.num_bits)
        grown == Append(out, e.symbol)
    IN CASE Len(out) >= max_out -> Corrupt
         [] Len(out) < max_out /\ rest = Corrupt ->
              IF Len(grown) < max_out THEN Append(grown, table[b].symbol) ELSE grown
         [] OTHER -> DecodeTurns(table, rest, b, e.baseline + Look(bits, e.num_bits),
                                 grown, max_out)

DecodeWeights(table, log, closed, max_out) ==
    LET bits == Opened(closed)
    IN IF bits = Corrupt THEN Corrupt
       ELSE DecodeTurns(table, Skip(Skip(bits, log), log), Look(bits, log),
                        Look(Skip(bits, log), log), <<>>, max_out)

\* write_tree_fse, up to the bytes that follow one another in the tree.
WriteWeights(ws) ==
    LET max_sv == Max(Range(ws))
        count == [w \in 0..max_sv |-> Cardinality({i \in DOMAIN ws : ws[i] = w})]
        log == Min({WeightLog, OptimalTableLog(WeightLog, Len(ws), max_sv)})
    IN IF Len(ws) <= 2 THEN Corrupt
       ELSE Then(NormAndHeader(count, log, Len(ws), 1), LAMBDA n :
              [header |-> n.header, payload |-> EncodeWeights(ws, EncodeTable(n.norm, log))])

-----------------------------------------------------------------------------
(* What the tables must do for each other.                                  *)

\* The bits an encoder writes to pass from one state to another over a symbol
\* are the ones that bring the decoder back, whatever the two states are.
TablesInvert(norm, log) ==
    LET enc == EncodeTable(norm, log)
        dec == DecodeTable(norm, log)
    IN \A s \in DOMAIN enc.delta :
         /\ dec[InitState(enc, s) - 2^log].symbol = s
         /\ \A state \in (2^log)..(2^(log + 1) - 1) :
              LET n == BitsOut(enc, state, s)
                  e == dec[NextState(enc, state, s) - 2^log]
              IN /\ e.symbol = s /\ e.num_bits = n
                 /\ e.baseline + (state % 2^n) = state - 2^log

\* The header gives the decoder the norm, the log and its own length, whatever
\* bytes follow it.
NCountReadsBack(norm, log, header, max_symbol, max_log) ==
    \A tail \in {[i \in 1..64 |-> 0], [i \in 1..64 |-> 1]} :
        ParseNCount(header \o tail, max_symbol, max_log)
          = [log |-> log, bytes |-> ByteLen(header), norm |-> norm]
=============================================================================
