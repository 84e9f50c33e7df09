------------------------------ MODULE Numbers ------------------------------
(***************************************************************************)
(* Sums, powers and logarithms, each by the recursion that defines it:     *)
(* shifts and leading_zeros in the code.                                   *)
(***************************************************************************)
EXTENDS Integers, Sequences, FiniteSetsExt

SumOf(s) ==
    LET sum[i \in 0..Len(s)] == IF i = 0 THEN 0 ELSE sum[i - 1] + s[i]
    IN  sum[Len(s)]

\* b to the power of n.
Pow(b, n) == LET p[k \in 0..n] == IF k = 0 THEN 1 ELSE b * p[k - 1] IN p[n]

\* The log of n to the base 2, rounded down, and 30 from there on: no window of a
\* table has a log above 27, so a longer source leaves it as it is.
Log2(n) == Max({k \in 0..30 : Pow(2, k) <= n})
=============================================================================
