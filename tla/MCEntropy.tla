----------------------------- MODULE MCEntropy -----------------------------
(***************************************************************************)
(* Inputs for the entropy coders: histograms in which every rounding of a  *)
(* count occurs, literals that end up in every kind of section, and blocks *)
(* of sequences that end up with every kind of table, one after another,   *)
(* and samples to train a dictionary on.                                   *)
(***************************************************************************)
EXTENDS Dictionaries

-----------------------------------------------------------------------------
(* Histograms of sequence codes and of weights.  The steep ones make symbols *)
(* rare, the last family makes the repair of a share take too much.         *)

Histograms ==
    {h \in [0..3 -> {0, 1, 5, 30}] : Cardinality(Coded(h)) > 1}
    \cup {[s \in 0..2 |-> h[s + 1]] : h \in {<<1, 1, 999>>, <<300, 2, 1>>, <<100, 999, 1>>}}
    \cup {[s \in 0..15 |-> IF s < k THEN 1 ELSE 25] : k \in 5..7}

\* The tables of a histogram, for use_low and any last code.
TablesRight(h, use_low, last_sym) ==
    \A made \in {NCountAndNorm(Without(h, last_sym), MaxLog, IF use_low THEN -1 ELSE 1)}
                \ {Corrupt} :
         /\ \A s \in Coded(h) : made.norm[s] # 0
         /\ NCountReadsBack(made.norm, made.log, made.header, 52, MaxLog)
         /\ TablesInvert(made.norm, made.log)

-----------------------------------------------------------------------------
(* Frequencies of literals.  Fibonacci-like ones want longer codes than      *)
(* there may be.                                                            *)

Frequent ==
    {f \in [0..3 -> {0, 1, 2, 5}] : Cardinality(Coded(f)) > 1}
    \cup {f \in [0..6 -> {1, 2, 5, 13, 34}] : \A i \in 0..5 : f[i] <= f[i + 1]}

\* Each symbol a few times.
Sample(f) ==
    FlattenSeq([i \in 1..Cardinality(DOMAIN f) |-> [j \in 1..Min({3, f[i - 1]}) |-> i - 1]])

-----------------------------------------------------------------------------
(* Literals of a block.                                                     *)

Uneven(n, k) == [i \in 1..n |-> IF i % 3 # 0 THEN 0 ELSE IF i % k = 0 THEN 2 ELSE 1]
Turned(n) == [i \in 1..n |-> IF i % 3 # 0 THEN 1 ELSE IF i % 2 = 0 THEN 0 ELSE 2]
Various(n) == [i \in 1..n |-> (i * i) % 7]

Literals ==
    {Uneven(n, 5) : n \in {3, 11, 13, 45}}
    \cup {Turned(n) : n \in {20, 44}}
    \cup {Various(33), <<0, 1, 2, 3>>, <<1>>, <<>>, [i \in 1..9 |-> 1]}

-----------------------------------------------------------------------------
(* Sequences of a block.  Lengths and offsets lie where codes begin and end. *)

Seq3(litlen, ov, matchlen) == [litlen |-> litlen, ov |-> ov, matchlen |-> matchlen]

Skewed == [i \in 1..12 |-> Seq3(IF i % 4 = 0 THEN 1 ELSE 0, IF i % 3 = 0 THEN 5 ELSE 1,
                                IF i % 5 = 0 THEN 4 ELSE 3)]
Wide == [i \in 1..9 |-> Seq3(i * i, 2^i, 3 + i * i * i)]
Edges == <<Seq3(65535, 2, 65538), Seq3(65536, 3, 65539), Seq3(15, 4, 34), Seq3(16, 8, 131074)>>
Small == <<Seq3(0, 1, 3), Seq3(1, 5, 4), Seq3(0, 1, 3)>>
Alone == <<Seq3(64, 7, 35)>>

\* Offset codes that the predefined table lacks.
Far == <<Seq3(0, 2^29, 3), Seq3(1, 5, 4), Seq3(0, 2^30, 3)>>

SequenceLists == {Skewed, Wide, Edges, Small, Alone, <<>>}

SequenceCounts == UNION {{n - 1, n, n + 1} : n \in {1, 128, 256, 32512, 32768, 43690}}

-----------------------------------------------------------------------------
(* Samples, and what the search may make of them: literals of no, one and    *)
(* several values, sequences with and without offsets that reach over the   *)
(* content that will be left.                                               *)

Samples ==
    <<Various(24) \o Uneven(20, 5) \o Various(24),
      <<3, 4, 5, 6, 7, 8, 9>>,
      <<>>,
      [i \in 1..60 |-> (i * i * i) % 11] \o Various(30)>>

Find(litlen, offset, matchlen) == [litlen |-> litlen, offset |-> offset, matchlen |-> matchlen]

Founds ==
    {[lits |-> <<>>, seqs |-> <<>>],
     [lits |-> <<5, 5, 5>>, seqs |-> <<Find(0, 4, 6), Find(3, 70, 6)>>],
     [lits |-> Uneven(45, 5), seqs |-> [i \in 1..9 |-> Find(i % 3, 20 * (i % 4) + 7, 5 + i * i)]],
     [lits |-> Various(33), seqs |-> <<Find(2, 150, 8), Find(0, 100, 8), Find(1, 120, 300)>>]}

Options(algo, k, n_train, max_dict) ==
    [algo |-> algo, k |-> k, d |-> 6, steps |-> 2, accel |-> 2,
     max_dict |-> max_dict, n_train |-> n_train]

\* Every id for one way to train, every way to train for one id.
Trainings ==
    {[hash |-> hash, forced |-> <<>>, o |-> Options("fastcover", 8, 1, 110)] :
        hash \in {0, 7, 8, 31, 32, 37, 64, 71}}
    \cup {[hash |-> 9, forced |-> <<3>>, o |-> Options("cover", 0, n_train, max_dict)] :
            n_train \in {1, 4}, max_dict \in {0, 110, 230}}
    \cup {[hash |-> 9, forced |-> <<>>, o |-> Options("legacy", 11, 4, 140)]}

\* What is coded first with a dictionary's tables.
FirstBlocks == <<Skewed, Small>>
FirstLiterals == <<Uneven(45, 5), Turned(20)>>
FirstPays == <<[build |-> TRUE, use |-> TRUE], [build |-> FALSE, use |-> FALSE]>>

\* Segments of k bytes from all samples or the first.
SegmentsWorth(algo, k, n_train, room) ==
    LET train_samples == SubSeq(Samples, 1, n_train)
        freqs == IF algo = "cover" THEN CoverFreqs(train_samples, 6)
                 ELSE FastCoverFreqs(train_samples, 6, 2)
    IN SegmentsWorthTheirRoom(train_samples, k, 6, room, freqs)
=============================================================================
