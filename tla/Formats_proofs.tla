--------------------------- MODULE Formats_proofs ---------------------------
(***************************************************************************)
(* Proofs about the formats, for every content however it is cut, for      *)
(* every source of frames, whole or cut short, for every blob and header,  *)
(* and for every level and size: that a hash does not depend on how its    *)
(* bytes came, that the walks over frames agree, that random access finds  *)
(* what decoding gives, that a header says what was meant, and that a      *)
(* level's parameters are in range.                                        *)
(*                                                                         *)
(* The hasher.  What it is after t bytes is decided by the content alone   *)
(* (HasherIs): the lanes have the whole stripes (Taken), the buffer begins *)
(* with what is left.  New is so, UpdateIs keeps it, and DigestIs makes of *)
(* it what hashing at once does.                                           *)
(*                                                                         *)
(* The walks.  A walk is a recursive function over the frames, and inside  *)
(* of it one over the blocks: it is the only one with its steps (Iterates, *)
(* Alike), so what every step keeps holds at its end (Throughout).  Each   *)
(* loop is taken in two parts: an iteration does not go back, leaves the   *)
(* types and fails in a named way; and a loop that ended without an error  *)
(* has read exactly the bytes of what it went through (DecodedTo,          *)
(* SkippedTo, CountedTo; DecompressedTo, ListedTo).  A decoder that        *)
(* accepts a source then vouches for what the others ask of its frames     *)
(* (Reads), and the sums of lengths meet.  For a limit, two decoders are   *)
(* followed side by side (Follows), and for ignored checksums (Forgiven).  *)
(*                                                                         *)
(* The seekable format.  Offsets are sums of the lengths of tokens, so a   *)
(* byte offset at which a token begins names it (AtIs), and the table's    *)
(* header, entries and footer are where ParseSeekTable looks for them      *)
(* (TableAt, FieldAt).  Chunks lie end to end (Pieces), so the sums of the *)
(* entries are where chunks and frames lie (BlobSums), and the first entry *)
(* that covers a byte is that of its chunk (FrameAtIs).                    *)
(*                                                                         *)
(* Headers and levels.  The bytes of a number are its digits, so they give *)
(* it back if there are enough of them (BytesAre, by the laws of powers),  *)
(* and the fields lie where the descriptor says (SizeIs, IdIs, LaidIs).    *)
(* The tables' rows are in ranges (TablesAre) which each step of           *)
(* compression_params keeps or narrows (FitWindowIs, FitHashIs,            *)
(* FitChainIs), and an option string sets every field (OptionsIs).         *)
(***************************************************************************)
EXTENDS Formats, SequenceTheorems, FiniteSetTheorems, WellFoundedInduction, NaturalsInduction, TLAPS

-----------------------------------------------------------------------------
(* Numbers and sequences. *)

\* A set of naturals that is not empty has a least member.
LEMMA Least ==
  ASSUME NEW T \in SUBSET Nat, T # {}
  PROVE  \E x \in T : \A y \in T : x <= y
<1>1. \E R : IsWellFoundedOn(R, Nat) /\ \A x, y \in Nat : <<y, x>> \in R <=> y < x
  <2> DEFINE R == OpToRel(<, Nat)
  <2>1. IsWellFoundedOn(R, Nat)
    BY NatLessThanWellFounded
  <2>2. \A x, y \in Nat : <<y, x>> \in R <=> y < x
    BY DEF OpToRel
  <2> HIDE DEF R
  <2> QED BY <2>1, <2>2, Zenon
<1>2. PICK R : IsWellFoundedOn(R, Nat) /\ \A x, y \in Nat : <<y, x>> \in R <=> y < x
  BY <1>1, Zenon
<1>3. PICK x \in T : \A y \in T : ~(<<y, x>> \in R)
  BY <1>2, WFMin, Zenon
<1>4. \A y \in T : ~(y < x)
  BY <1>2, <1>3
<1> QED BY <1>3, <1>4

\* Induction over the naturals, for a set.
LEMMA NatSet ==
  ASSUME NEW S \in SUBSET Nat, 0 \in S, \A n \in S : n + 1 \in S
  PROVE  S = Nat
<1> DEFINE T == Nat \ S
<1>1. SUFFICES ASSUME T # {} PROVE FALSE
  OBVIOUS
<1>2. PICK x \in T : \A y \in T : x <= y
  <2> T \in SUBSET Nat
    OBVIOUS
  <2> HIDE DEF T
  <2> QED BY <1>1, Least
<1>3. x \in Nat \ {0}
  OBVIOUS
<1>4. x - 1 \in Nat /\ x - 1 < x /\ (x - 1) + 1 = x
  BY <1>3
<1>5. x - 1 \in S
  BY <1>2, <1>4
<1> QED BY <1>4, <1>5

\* q is the part of s from a on, up to b.
Part(s, a, b, q) == q \in Seq(Nat) /\ Len(q) = b - a /\ \A i \in 1..(b - a) : q[i] = s[a + i]

\* SubSeq takes a part.
LEMMA PartIs ==
  ASSUME NEW s \in Seq(Nat), NEW a \in Nat, NEW b \in Nat, a <= b, b <= Len(s)
  PROVE  Part(s, a, b, SubSeq(s, a + 1, b))
<1>1. \A i \in (a + 1)..b : s[i] \in Nat
  OBVIOUS
<1>2. a + 1 \in Int /\ b \in Int
  OBVIOUS
<1>3. /\ SubSeq(s, a + 1, b) \in Seq(Nat)
      /\ Len(SubSeq(s, a + 1, b)) = IF a + 1 <= b THEN b - (a + 1) + 1 ELSE 0
      /\ \A i \in 1..(b - (a + 1) + 1) : SubSeq(s, a + 1, b)[i] = s[(a + 1) + i - 1]
  BY <1>1, <1>2, SubSeqProperties
<1>4. Len(SubSeq(s, a + 1, b)) = b - a
  BY <1>3
<1>5. ASSUME NEW i \in 1..(b - a) PROVE SubSeq(s, a + 1, b)[i] = s[a + i]
  <2>1. i \in 1..(b - (a + 1) + 1) /\ (a + 1) + i - 1 = a + i
    OBVIOUS
  <2> QED BY <1>3, <2>1
<1> QED BY <1>3, <1>4, <1>5 DEF Part

\* There is one part between two places.
LEMMA PartOne ==
  ASSUME NEW s, NEW a \in Nat, NEW b \in Nat, NEW q, NEW r, Part(s, a, b, q), Part(s, a, b, r)
  PROVE  q = r
<1>1. q \in Seq(Nat) /\ r \in Seq(Nat) /\ Len(q) = Len(r) /\ \A i \in 1..Len(q) : q[i] = r[i]
  BY DEF Part
<1> QED BY <1>1, SeqEqual

(* What follows one step at a time: two that do are alike, and one exists. *)

StepAlike(n, f, g) == f[0] = g[0] /\ \A k \in 1..n : f[k - 1] = g[k - 1] => f[k] = g[k]
AlikeTo(n, f, g) == \A k \in 0..n : f[k] = g[k]

\* Two that begin alike and go on alike are alike.
LEMMA Alike == \A n \in Nat : \A f, g : StepAlike(n, f, g) => AlikeTo(n, f, g)
<1> SUFFICES ASSUME NEW n \in Nat, NEW f, NEW g, f[0] = g[0],
                    \A k \in 1..n : f[k - 1] = g[k - 1] => f[k] = g[k]
             PROVE  \A k \in 0..n : f[k] = g[k]
  BY DEF StepAlike, AlikeTo
<1> DEFINE T == {k \in 0..n : f[k] # g[k]}
<1>1. SUFFICES ASSUME T # {} PROVE FALSE
  OBVIOUS
<1>2. PICK k \in T : \A y \in T : k <= y
  <2> T \in SUBSET Nat
    OBVIOUS
  <2> HIDE DEF T
  <2> QED BY <1>1, Least
<1>3. k \in 1..n /\ k - 1 \in 0..n /\ ~(k <= k - 1)
  OBVIOUS
<1>4. f[k - 1] = g[k - 1]
  BY <1>2, <1>3
<1> QED BY <1>3, <1>4

Iterated(n, X, b, F) ==
  \E f \in [0..n -> X] : f[0] = b /\ \A k \in 1..n : f[k] = F[<<k, f[k - 1]>>]

\* What a function gives at each step from the one before exists: a value for every step.
LEMMA Iterates ==
  \A n \in Nat : \A X : \A b \in X : \A F \in [(1..n) \X X -> X] : Iterated(n, X, b, F)
<1> SUFFICES ASSUME NEW n \in Nat, NEW X, NEW b \in X, NEW F \in [(1..n) \X X -> X]
             PROVE  \E f \in [0..n -> X] : f[0] = b /\ \A k \in 1..n : f[k] = F[<<k, f[k - 1]>>]
  BY DEF Iterated
<1> DEFINE Q(m, f) == f[0] = b /\ \A k \in 1..m : f[k] = F[<<k, f[k - 1]>>]
           S == {m \in Nat : m <= n => \E f \in [0..m -> X] : Q(m, f)}
<1>1. 0 \in S
  <2>1. [k \in 0..0 |-> b] \in [0..0 -> X] /\ Q(0, [k \in 0..0 |-> b])
    OBVIOUS
  <2> HIDE DEF Q
  <2> QED BY <2>1
<1>2. ASSUME NEW m \in S PROVE m + 1 \in S
  <2>1. SUFFICES ASSUME m + 1 <= n PROVE \E f \in [0..(m + 1) -> X] : Q(m + 1, f)
    <3> HIDE DEF Q
    <3> QED OBVIOUS
  <2>2. PICK f \in [0..m -> X] : Q(m, f)
    <3> HIDE DEF Q
    <3> QED BY <2>1
  <2> DEFINE y == F[<<m + 1, f[m]>>]
             g == [k \in 0..(m + 1) |-> IF k <= m THEN f[k] ELSE y]
  <2>3. m \in Nat /\ m \in 0..m /\ m + 1 \in 1..n /\ f[m] \in X
    BY <2>1
  <2>4. y \in X
    BY <2>3
  <2> HIDE DEF y
  <2>5. g \in [0..(m + 1) -> X]
    BY <2>3, <2>4
  <2>6. (\A k \in 0..m : g[k] = f[k]) /\ g[m + 1] = y
    BY <2>3
  <2> HIDE DEF g
  <2>7. ASSUME NEW k \in 1..(m + 1) PROVE g[k] = F[<<k, g[k - 1]>>]
    <3>1. CASE k = m + 1
      <4>1. g[k - 1] = f[m]
        BY <2>3, <2>6, <3>1
      <4> QED BY <2>6, <3>1, <4>1 DEF y
    <3>2. CASE k # m + 1
      <4>1. k \in 1..m /\ k \in 0..m /\ k - 1 \in 0..m
        BY <2>3, <3>2
      <4>2. f[k] = F[<<k, f[k - 1]>>]
        BY <2>2, <4>1
      <4> QED BY <2>6, <4>1, <4>2
    <3> QED BY <3>1, <3>2
  <2>8. g[0] = b
    BY <2>2, <2>3, <2>6
  <2>9. Q(m + 1, g)
    BY <2>7, <2>8
  <2> HIDE DEF Q
  <2> QED BY <2>5, <2>9
<1>3. S = Nat
  <2>1. S \in SUBSET Nat
    OBVIOUS
  <2> HIDE DEF S
  <2> QED BY <1>1, <1>2, <2>1, NatSet
<1>4. \E f \in [0..n -> X] : Q(n, f)
  <2> HIDE DEF Q
  <2> QED BY <1>3
<1> QED BY <1>4

-----------------------------------------------------------------------------
(* The hasher. *)

\* The part of a part is a part.
LEMMA SubSeqSub ==
  ASSUME NEW s \in Seq(Nat), NEW a \in Nat, NEW b \in Nat, a <= b, b <= Len(s),
         NEW i \in Nat, NEW j \in Nat, i <= j, a + j <= b
  PROVE  /\ SubSeq(SubSeq(s, a + 1, b), i + 1, j) = SubSeq(s, (a + i) + 1, a + j)
         /\ SubSeq(s, a + 1, b) \in Seq(Nat) /\ Len(SubSeq(s, a + 1, b)) = b - a
<1> DEFINE p == SubSeq(s, a + 1, b)
           l == SubSeq(p, i + 1, j)
           r == SubSeq(s, (a + i) + 1, a + j)
<1>1. p \in Seq(Nat) /\ Len(p) = b - a /\ \A k \in 1..(b - a) : p[k] = s[a + k]
  BY PartIs DEF Part
<1> HIDE DEF p
<1>2. l \in Seq(Nat) /\ Len(l) = j - i /\ \A k \in 1..(j - i) : l[k] = p[i + k]
  <2>1. j <= Len(p)
    BY <1>1
  <2> QED BY <1>1, <2>1, PartIs DEF Part
<1>3. r \in Seq(Nat) /\ Len(r) = j - i /\ \A k \in 1..(j - i) : r[k] = s[(a + i) + k]
  <2>1. a + i \in Nat /\ a + j \in Nat /\ a + i <= a + j /\ a + j <= Len(s) /\ (a + j) - (a + i) = j - i
    OBVIOUS
  <2> QED BY <2>1, PartIs DEF Part
<1> HIDE DEF l, r
<1>4. ASSUME NEW k \in 1..(j - i) PROVE l[k] = r[k]
  <2>1. i + k \in 1..(b - a) /\ a + (i + k) = (a + i) + k
    OBVIOUS
  <2>2. p[i + k] = s[a + (i + k)]
    BY <1>1, <2>1
  <2> QED BY <1>2, <1>3, <2>1, <2>2
<1>5. l = r
  BY <1>2, <1>3, <1>4, SeqEqual
<1> QED BY <1>1, <1>5 DEF l, r, p

\* A sequence has a length and as many elements.
LEMMA SeqHas ==
  ASSUME NEW X, NEW s \in Seq(X)
  PROVE  Len(s) \in Nat /\ \A i \in 1..Len(s) : s[i] \in X
OBVIOUS

\* The elements of two sequences end to end.
LEMMA JoinHas ==
  ASSUME NEW X, NEW s \in Seq(X), NEW t \in Seq(X)
  PROVE  /\ s \o t \in Seq(X) /\ Len(s \o t) = Len(s) + Len(t)
         /\ \A i \in 1..(Len(s) + Len(t)) : (s \o t)[i] = IF i <= Len(s) THEN s[i] ELSE t[i - Len(s)]
BY ConcatProperties

\* A sequence and one element more.
LEMMA GoesOn ==
  ASSUME NEW X, NEW s \in Seq(X), NEW t \in Seq(X), NEW x \in X, Len(t) = Len(s) + 1,
         \A i \in 1..Len(s) : s[i] = t[i], x = t[Len(s) + 1]
  PROVE  Append(s, x) = t
<1>1. Append(s, x) \in Seq(X) /\ Len(Append(s, x)) = Len(s) + 1
  OBVIOUS
<1>2. \A i \in 1..Len(t) : Append(s, x)[i] = t[i]
  OBVIOUS
<1> QED BY <1>1, <1>2, SeqEqual

\* A full buffer is a sequence.
LEMMA BufferSeq ==
  ASSUME NEW buf \in [1..32 -> Nat]
  PROVE  buf \in Seq(Nat) /\ Len(buf) = 32
<1>1. buf = [i \in 1..32 |-> buf[i]] /\ \A i \in 1..32 : buf[i] \in Nat
  OBVIOUS
<1>2. [i \in 1..32 |-> buf[i]] \in Seq(Nat) /\ Len([i \in 1..32 |-> buf[i]]) = 32
  BY <1>1
<1> QED BY <1>1, <1>2, Zenon

\* A place, and one further on.
LEMMA Places ==
  ASSUME NEW a \in Nat, NEW r \in 0..31, NEW n \in Nat
  PROVE  a + r \in Nat /\ a + r + n \in Nat /\ a + r <= a + r + n /\ (a + r + n) - (a + r) = n
OBVIOUS

\* What fits into a buffer is no longer than it.
LEMMA FitsBuffer ==
  ASSUME NEW n \in Nat, NEW at \in 0..31, at + n <= 32
  PROVE  n \in 0..32
OBVIOUS

\* What a buffer keeps of a stripe is short of it.
LEMMA ShortOfBuffer ==
  ASSUME NEW r \in 0..31
  PROVE  r \in Nat /\ 0 <= r /\ r <= 32
OBVIOUS

\* Two moves of one width, the first from the start and the second up to the end.
LEMMA MovesCover ==
  ASSUME NEW n \in 0..32, NEW w \in 0..16, w <= n, n <= 2 * w, NEW at \in 0..31, NEW j \in 1..32
  PROVE  /\ j - at - 0 \in 1..w => j - at \in 1..n
         /\ j - at - (n - w) \in 1..w => j - at \in 1..n
         /\ j - at \in 1..n => j - at - 0 \in 1..w \/ j - at - (n - w) \in 1..w
OBVIOUS

\* The width of a move covers half of what is moved, and no more than all of it.
LEMMA WidthIs ==
  ASSUME NEW n \in 0..32, NEW W,
         W = CASE n >= 16 -> 16
               [] n \in 8..15 -> 8
               [] n \in 4..7 -> 4
               [] n \in 2..3 -> 2
               [] OTHER -> n
  PROVE  W \in 0..16 /\ W <= n /\ n <= 2 * W
<1>1. CASE n >= 16
  <2>1. n \notin 8..15 /\ n \notin 4..7 /\ n \notin 2..3
    BY <1>1
  <2>2. W = 16
    BY <1>1, <2>1, Zenon
  <2> QED BY <1>1, <2>2
<1>2. CASE n \in 8..15
  <2>1. ~(n >= 16) /\ n \notin 4..7 /\ n \notin 2..3
    BY <1>2
  <2>2. W = 8
    BY <1>2, <2>1, Zenon
  <2> QED BY <1>2, <2>2
<1>3. CASE n \in 4..7
  <2>1. ~(n >= 16) /\ n \notin 8..15 /\ n \notin 2..3
    BY <1>3
  <2>2. W = 4
    BY <1>3, <2>1, Zenon
  <2> QED BY <1>3, <2>2
<1>4. CASE n \in 2..3
  <2>1. ~(n >= 16) /\ n \notin 8..15 /\ n \notin 4..7
    BY <1>4
  <2>2. W = 2
    BY <1>4, <2>1, Zenon
  <2> QED BY <1>4, <2>2
<1>5. CASE n \in 0..1
  <2>1. ~(n >= 16) /\ n \notin 8..15 /\ n \notin 4..7 /\ n \notin 2..3
    BY <1>5
  <2>2. W = n
    BY <2>1, Zenon
  <2> QED BY <1>5, <2>2
<1> QED BY <1>1, <1>2, <1>3, <1>4, <1>5

\* copy_into_buf moves all of src, and nothing else changes.
LEMMA CopyIntoBufIs ==
  ASSUME NEW buf \in [1..32 -> Nat], NEW at \in 0..31, NEW src \in Seq(Nat), at + Len(src) <= 32
  PROVE  /\ CopyIntoBuf(buf, at, src) \in [1..32 -> Nat]
         /\ \A j \in 1..32 : CopyIntoBuf(buf, at, src)[j] =
              IF j - at \in 1..Len(src) THEN src[j - at] ELSE buf[j]
<1>1. PICK n \in Nat : n = Len(src)
  <2> Len(src) \in Nat
    OBVIOUS
  <2> QED OBVIOUS
<1>2. n \in 0..32 /\ \A i \in 1..n : src[i] \in Nat
  <2>1. \A i \in 1..n : src[i] \in Nat
    BY <1>1, SeqHas
  <2>2. at + n <= 32
    BY <1>1, Zenon
  <2>3. n \in 0..32
    BY <2>2, FitsBuffer, Zenon
  <2> QED BY <2>1, <2>3
<1> DEFINE W == CASE n >= 16 -> 16
                  [] n \in 8..15 -> 8
                  [] n \in 4..7 -> 4
                  [] n \in 2..3 -> 2
                  [] OTHER -> n
<1> DEFINE first == [i \in DOMAIN buf |-> IF i - at - 0 \in 1..W THEN src[i - at] ELSE buf[i]]
           second == [i \in DOMAIN first |->
                        IF i - at - (n - W) \in 1..W THEN src[i - at] ELSE first[i]]
<1>3. CopyIntoBuf(buf, at, src) = second
  BY <1>1, Zenon DEF CopyIntoBuf
<1>4. W \in 0..16 /\ W <= n /\ n <= 2 * W
  BY <1>2, WidthIs, Zenon
<1> HIDE DEF W
<1>5. ASSUME NEW j \in 1..32
      PROVE  second[j] = IF j - at \in 1..n THEN src[j - at] ELSE buf[j]
  <2>1. j \in DOMAIN buf /\ DOMAIN first = DOMAIN buf
    OBVIOUS
  <2>2. first[j] = IF j - at - 0 \in 1..W THEN src[j - at] ELSE buf[j]
    BY <2>1
  <2>3. second[j] = IF j - at - (n - W) \in 1..W THEN src[j - at] ELSE first[j]
    BY <2>1
  <2>4. /\ j - at - 0 \in 1..W => j - at \in 1..n
        /\ j - at - (n - W) \in 1..W => j - at \in 1..n
        /\ j - at \in 1..n => j - at - 0 \in 1..W \/ j - at - (n - W) \in 1..W
    BY <1>2, <1>4, MovesCover, Zenon
  <2> HIDE DEF first, second
  <2> QED BY <2>2, <2>3, <2>4, Zenon
<1>6. DOMAIN second = 1..32
  OBVIOUS
<1>7. second = [j \in 1..32 |-> second[j]]
  BY <1>6
<1> HIDE DEF first, second
<1>8. ASSUME NEW j \in 1..32 PROVE second[j] \in Nat
  <2>1. j - at \in 1..n => src[j - at] \in Nat
    BY <1>2, Zenon
  <2>2. buf[j] \in Nat
    OBVIOUS
  <2> QED BY <1>5, <2>1, <2>2
<1>9. second \in [1..32 -> Nat]
  BY <1>7, <1>8
<1> QED BY <1>1, <1>3, <1>5, <1>9, Zenon

\* What each accumulator has had after q stripes of the content.
Taken(q) == [k \in 1..4 |-> [i \in 1..q |-> Word(Content, 32 * (i - 1) + 8 * (k - 1))]]

\* A buffer that begins with m bytes of the content from a on.
Begins(buf, a, m) == buf \in [1..32 -> Nat] /\ \A j \in 1..m : buf[j] = Content[a + j]

\* A hasher that counts t bytes, and has had q stripes and r bytes more.
HasherIs(h, t, q, r) ==
  /\ h = [total |-> t, v |-> Taken(q), buf |-> h.buf, buf_len |-> r]
  /\ Begins(h.buf, 32 * q, r)

\* A word of the content is eight bytes.
LEMMA WordIs ==
  ASSUME NEW i \in Nat, i + 8 <= Len(Content)
  PROVE  Word(Content, i) \in Seq(Nat)
<1>1. Content \in Seq(Nat) /\ i + 8 \in Nat /\ i <= i + 8
  BY FormatsAssumption
<1>2. SubSeq(Content, i + 1, i + 8) \in Seq(Nat)
  BY <1>1, PartIs DEF Part
<1> QED BY <1>2 DEF Word

\* So is one of a part of it.
LEMMA WordOfPart ==
  ASSUME NEW a \in Nat, NEW b \in Nat, a <= b, b <= Len(Content), NEW i \in Nat, a + i + 8 <= b
  PROVE  Word(SubSeq(Content, a + 1, b), i) = Word(Content, a + i)
<1>1. Content \in Seq(Nat) /\ i + 8 \in Nat /\ i <= i + 8 /\ a + (i + 8) <= b
  BY FormatsAssumption
<1>2. SubSeq(SubSeq(Content, a + 1, b), i + 1, i + 8) = SubSeq(Content, (a + i) + 1, a + (i + 8))
  BY <1>1, SubSeqSub
<1>3. a + (i + 8) = (a + i) + 8
  OBVIOUS
<1> QED BY <1>2, <1>3 DEF Word

\* The words an accumulator has had are words.
LEMMA TakenIs ==
  ASSUME NEW q \in Nat, 32 * q <= Len(Content), NEW k \in 1..4
  PROVE  /\ Taken(q)[k] \in Seq(Seq(Nat)) /\ Len(Taken(q)[k]) = q
         /\ \A i \in 1..q : Taken(q)[k][i] = Word(Content, 32 * (i - 1) + 8 * (k - 1))
<1>1. Taken(q)[k] = [i \in 1..q |-> Word(Content, 32 * (i - 1) + 8 * (k - 1))]
  BY DEF Taken
<1>2. ASSUME NEW i \in 1..q PROVE Word(Content, 32 * (i - 1) + 8 * (k - 1)) \in Seq(Nat)
  <2>1. 32 * (i - 1) + 8 * (k - 1) \in Nat /\ (32 * (i - 1) + 8 * (k - 1)) + 8 <= 32 * q
    OBVIOUS
  <2>2. Len(Content) \in Nat
    BY FormatsAssumption
  <2> QED BY <2>1, <2>2, WordIs
<1> QED BY <1>1, <1>2

\* The stripes of a part that begins where one does are the next of the content.
LEMMA StripesAllIs ==
  ASSUME NEW q \in Nat, NEW m \in Nat, 32 * q + m <= Len(Content)
  PROVE  \E d \in Nat, e \in 0..31 :
           /\ m = 32 * d + e
           /\ StripesAll(SubSeq(Content, 32 * q + 1, 32 * q + m), Taken(q))
                = [v |-> Taken(q + d),
                   rest |-> SubSeq(Content, 32 * (q + d) + 1, 32 * (q + d) + e)]
<1> DEFINE data == SubSeq(Content, 32 * q + 1, 32 * q + m)
           more(k, n) == [i \in 1..n |-> Word(data, 32 * (i - 1) + 8 * (k - 1))]
<1>1. PICK d \in Nat, e \in 0..31 : m = 32 * d + e /\ m \div 32 = d
  OBVIOUS
<1>2. PICK N \in Nat : Len(Content) = N /\ Content \in Seq(Nat)
  BY FormatsAssumption
<1>3. PICK a \in Nat, b \in Nat : a = 32 * q /\ b = 32 * q + m /\ a <= b /\ b <= N
  BY <1>2
<1>4. data \in Seq(Nat) /\ Len(data) = m
  <2>1. SubSeq(Content, a + 1, b) \in Seq(Nat) /\ Len(SubSeq(Content, a + 1, b)) = b - a
    BY <1>2, <1>3, PartIs DEF Part
  <2> QED BY <1>3, <2>1
<1>5. SubSeq(data, 32 * d + 1, m) = SubSeq(Content, 32 * (q + d) + 1, 32 * (q + d) + e)
  <2>1. SubSeq(SubSeq(Content, a + 1, b), 32 * d + 1, m) = SubSeq(Content, (a + 32 * d) + 1, a + m)
    BY <1>1, <1>2, <1>3, SubSeqSub
  <2>2. a + 32 * d = 32 * (q + d) /\ a + m = 32 * (q + d) + e
    BY <1>1, <1>3
  <2> QED BY <1>3, <2>1, <2>2
<1>6. ASSUME NEW k \in 1..4 PROVE Taken(q)[k] \o more(k, d) = Taken(q + d)[k]
  <2>1. ASSUME NEW i \in 1..d
        PROVE  Word(data, 32 * (i - 1) + 8 * (k - 1)) = Word(Content, 32 * ((q + i) - 1) + 8 * (k - 1))
    <3>1. PICK j \in Nat : j = 32 * (i - 1) + 8 * (k - 1)
      OBVIOUS
    <3>2. a + j + 8 <= b
      BY <1>1, <1>3, <3>1
    <3>3. Word(SubSeq(Content, a + 1, b), j) = Word(Content, a + j)
      BY <1>2, <1>3, <3>2, WordOfPart
    <3>4. a + j = 32 * ((q + i) - 1) + 8 * (k - 1)
      BY <1>3, <3>1
    <3> QED BY <1>3, <3>1, <3>3, <3>4
  <2>2. 32 * q <= Len(Content) /\ q + d \in Nat /\ 32 * (q + d) <= Len(Content)
    BY <1>1, <1>2
  <2>3. /\ Taken(q)[k] \in Seq(Seq(Nat)) /\ Len(Taken(q)[k]) = q
        /\ \A i \in 1..q : Taken(q)[k][i] = Word(Content, 32 * (i - 1) + 8 * (k - 1))
    BY <2>2, TakenIs
  <2>4. /\ Taken(q + d)[k] \in Seq(Seq(Nat)) /\ Len(Taken(q + d)[k]) = q + d
        /\ \A i \in 1..(q + d) : Taken(q + d)[k][i] = Word(Content, 32 * (i - 1) + 8 * (k - 1))
    BY <2>2, TakenIs
  <2>5. /\ more(k, d) \in Seq(Seq(Nat)) /\ Len(more(k, d)) = d
        /\ \A i \in 1..d : more(k, d)[i] = Taken(q + d)[k][q + i]
    <3>1. ASSUME NEW i \in 1..d
          PROVE  /\ Word(data, 32 * (i - 1) + 8 * (k - 1)) = Taken(q + d)[k][q + i]
                 /\ Taken(q + d)[k][q + i] \in Seq(Nat)
      <4>1. q + i \in 1..(q + d)
        OBVIOUS
      <4> HIDE DEF data
      <4> QED BY <2>1, <2>4, <4>1
    <3> HIDE DEF data
    <3> QED BY <1>1, <3>1
  <2> DEFINE l == Taken(q)[k] \o more(k, d)
             t == Taken(q)[k]
             u == more(k, d)
             w == Taken(q + d)[k]
  <2> HIDE DEF t, u, w
  <2>6. t \in Seq(Seq(Nat)) /\ u \in Seq(Seq(Nat)) /\ w \in Seq(Seq(Nat))
        /\ Len(t) = q /\ Len(u) = d /\ Len(w) = q + d
    BY <2>3, <2>4, <2>5 DEF t, u, w
  <2>7. /\ t \o u \in Seq(Seq(Nat)) /\ Len(t \o u) = q + d
        /\ \A i \in 1..(q + d) : (t \o u)[i] = IF i <= q THEN t[i] ELSE u[i - q]
    <3>1. /\ t \o u \in Seq(Seq(Nat)) /\ Len(t \o u) = Len(t) + Len(u)
          /\ \A i \in 1..(Len(t) + Len(u)) : (t \o u)[i] = IF i <= Len(t) THEN t[i] ELSE u[i - Len(t)]
      BY <2>6, JoinHas, Zenon
    <3> QED BY <2>6, <3>1
  <2>8. ASSUME NEW i \in 1..(q + d) PROVE (t \o u)[i] = w[i]
    <3>1. CASE i <= q
      <4>1. i \in 1..q
        BY <3>1
      <4> QED BY <2>3, <2>4, <2>7, <3>1, <4>1 DEF t, w
    <3>2. CASE ~(i <= q)
      <4>1. i - q \in 1..d /\ q + (i - q) = i
        BY <3>2
      <4>2. u[i - q] = w[q + (i - q)]
        BY <2>5, <4>1 DEF u, w
      <4> QED BY <2>7, <3>2, <4>1, <4>2
    <3> QED BY <3>1, <3>2
  <2>9. t \o u = w
    BY <2>6, <2>7, <2>8, SeqEqual
  <2> QED BY <2>9 DEF t, u, w
<1> DEFINE result == StripesAll(data, Taken(q))
<1>7. result = [v |-> [k \in 1..4 |-> Taken(q)[k] \o more(k, d)], rest |-> SubSeq(data, 32 * d + 1, m)]
  <2> HIDE DEF data
  <2> QED BY <1>1, <1>4 DEF StripesAll, Drop
<1>8. [k \in 1..4 |-> Taken(q)[k] \o more(k, d)] = Taken(q + d)
  <2>1. Taken(q + d) = [k \in 1..4 |-> Taken(q + d)[k]]
    BY DEF Taken
  <2> HIDE DEF more
  <2> QED BY <1>6, <2>1
<1>9. result = [v |-> Taken(q + d), rest |-> SubSeq(Content, 32 * (q + d) + 1, 32 * (q + d) + e)]
  BY <1>5, <1>7, <1>8
<1> QED BY <1>1, <1>9

\* The bytes of a part of the content.
LEMMA PartHas ==
  ASSUME NEW a \in Nat, NEW b \in Nat, a <= b, b <= Len(Content)
  PROVE  /\ SubSeq(Content, a + 1, b) \in Seq(Nat) /\ Len(SubSeq(Content, a + 1, b)) = b - a
         /\ \A i \in 1..(b - a) : SubSeq(Content, a + 1, b)[i] = Content[a + i]
<1>1. Content \in Seq(Nat)
  BY FormatsAssumption
<1> QED BY <1>1, PartIs DEF Part

\* What is copied behind the bytes of a part goes on with it.
LEMMA CopyGoesOn ==
  ASSUME NEW buf, NEW a \in Nat, NEW r \in 0..31, NEW n \in Nat, r + n <= 32,
         a + r + n <= Len(Content), Begins(buf, a, r)
  PROVE  Begins(CopyIntoBuf(buf, r, SubSeq(Content, (a + r) + 1, a + r + n)), a, r + n)
<1>0. buf \in [1..32 -> Nat] /\ \A j \in 1..r : buf[j] = Content[a + j]
  BY DEF Begins
<1> DEFINE src == SubSeq(Content, (a + r) + 1, a + r + n)
           next == CopyIntoBuf(buf, r, src)
<1>1. src \in Seq(Nat) /\ Len(src) = n /\ \A i \in 1..n : src[i] = Content[(a + r) + i]
  <2>1. a + r \in Nat /\ a + r + n \in Nat /\ a + r <= a + r + n /\ (a + r + n) - (a + r) = n
    BY Places, Zenon
  <2> QED BY <2>1, PartHas
<1> HIDE DEF src
<1>2. r + Len(src) <= 32
  BY <1>1
<1>3. /\ next \in [1..32 -> Nat]
      /\ \A j \in 1..32 : next[j] = IF j - r \in 1..Len(src) THEN src[j - r] ELSE buf[j]
  BY <1>0, <1>1, <1>2, CopyIntoBufIs
<1> HIDE DEF next
<1>4. ASSUME NEW j \in 1..(r + n) PROVE next[j] = Content[a + j]
  <2>1. j \in 1..32
    OBVIOUS
  <2>2. next[j] = IF j - r \in 1..n THEN src[j - r] ELSE buf[j]
    BY <1>1, <1>3, <2>1
  <2>3. CASE j <= r
    <3>1. j \in 1..r /\ j - r \notin 1..n
      BY <2>3
    <3> QED BY <1>0, <2>2, <3>1
  <2>4. CASE ~(j <= r)
    <3>1. j - r \in 1..n /\ (a + r) + (j - r) = a + j
      BY <2>4
    <3>2. src[j - r] = Content[(a + r) + (j - r)]
      BY <1>1, <3>1
    <3> QED BY <2>2, <3>1, <3>2
  <2> QED BY <2>3, <2>4
<1>5. Begins(next, a, r + n)
  BY <1>3, <1>4 DEF Begins
<1> QED BY <1>5 DEF next, src

\* A buffer that is a stripe of the content is one.
LEMMA BufferIsPart ==
  ASSUME NEW buf, NEW a \in Nat, a + 32 <= Len(Content), Begins(buf, a, 32)
  PROVE  buf = SubSeq(Content, a + 1, a + 32)
<1>1. /\ SubSeq(Content, a + 1, a + 32) \in Seq(Nat) /\ Len(SubSeq(Content, a + 1, a + 32)) = 32
      /\ \A i \in 1..32 : SubSeq(Content, a + 1, a + 32)[i] = Content[a + i]
  <2>1. a + 32 \in Nat /\ a <= a + 32 /\ (a + 32) - a = 32
    OBVIOUS
  <2> QED BY <2>1, PartHas
<1>2. buf \in Seq(Nat) /\ Len(buf) = 32 /\ \A j \in 1..32 : buf[j] = Content[a + j]
  BY BufferSeq DEF Begins
<1> DEFINE part == SubSeq(Content, a + 1, a + 32)
<1> HIDE DEF part
<1>3. part \in Seq(Nat) /\ Len(buf) = Len(part) /\ \A i \in 1..Len(buf) : buf[i] = part[i]
  BY <1>1, <1>2 DEF part
<1>4. buf = part
  BY <1>2, <1>3, SeqEqual, Zenon
<1> QED BY <1>4 DEF part

\* A stripe goes into the accumulators.
LEMMA StripeIs ==
  ASSUME NEW q \in Nat, 32 * q + 32 <= Len(Content)
  PROVE  Stripe(Taken(q), SubSeq(Content, 32 * q + 1, 32 * q + 32)) = Taken(q + 1)
<1> DEFINE stripe == SubSeq(Content, 32 * q + 1, 32 * q + 32)
<1>1. PICK N \in Nat : Len(Content) = N
  BY FormatsAssumption
<1>2. ASSUME NEW k \in 1..4 PROVE Append(Taken(q)[k], Word(stripe, 8 * (k - 1))) = Taken(q + 1)[k]
  <2>1. PICK a \in Nat, i \in Nat : a = 32 * q /\ i = 8 * (k - 1) /\ i + 8 <= 32
    OBVIOUS
  <2>2. Word(SubSeq(Content, a + 1, a + 32), i) = Word(Content, a + i)
    <3>1. a + 32 \in Nat /\ a <= a + 32 /\ a + 32 <= Len(Content) /\ a + i + 8 <= a + 32
      BY <2>1
    <3> QED BY <3>1, WordOfPart
  <2>3. Word(stripe, 8 * (k - 1)) = Word(Content, 32 * q + 8 * (k - 1))
    BY <2>1, <2>2
  <2>4. 32 * q <= Len(Content) /\ q + 1 \in Nat /\ 32 * (q + 1) <= Len(Content)
    BY <1>1
  <2>5. /\ Taken(q)[k] \in Seq(Seq(Nat)) /\ Len(Taken(q)[k]) = q
        /\ \A j \in 1..q : Taken(q)[k][j] = Word(Content, 32 * (j - 1) + 8 * (k - 1))
    BY <2>4, TakenIs
  <2>6. /\ Taken(q + 1)[k] \in Seq(Seq(Nat)) /\ Len(Taken(q + 1)[k]) = q + 1
        /\ \A j \in 1..(q + 1) : Taken(q + 1)[k][j] = Word(Content, 32 * (j - 1) + 8 * (k - 1))
    BY <2>4, TakenIs
  <2> DEFINE t == Taken(q)[k]
             u == Taken(q + 1)[k]
             w == Word(stripe, 8 * (k - 1))
  <2>7. w = u[q + 1] /\ w \in Seq(Nat)
    <3>1. q + 1 \in 1..(q + 1) /\ 32 * ((q + 1) - 1) + 8 * (k - 1) = 32 * q + 8 * (k - 1)
      OBVIOUS
    <3>2. u[q + 1] = Word(Content, 32 * ((q + 1) - 1) + 8 * (k - 1))
      BY <2>6, <3>1, Zenon
    <3>3. w = u[q + 1]
      BY <2>3, <3>1, <3>2, Zenon
    <3>4. u[q + 1] \in Seq(Nat)
      BY <2>6, <3>1, SeqHas
    <3> QED BY <3>3, <3>4
  <2>8. \A j \in 1..q : t[j] = u[j]
    <3> SUFFICES ASSUME NEW j \in 1..q PROVE t[j] = u[j]
      OBVIOUS
    <3>1. j \in 1..(q + 1)
      OBVIOUS
    <3> QED BY <2>5, <2>6, <3>1, Zenon
  <2>9. t \in Seq(Seq(Nat)) /\ Len(t) = q /\ u \in Seq(Seq(Nat)) /\ Len(u) = q + 1
    BY <2>5, <2>6
  <2> HIDE DEF t, u, w
  <2>10. Append(t, w) = u
    BY <2>7, <2>8, <2>9, GoesOn
  <2> QED BY <2>10 DEF t, u, w
<1>3. Taken(q + 1) = [k \in 1..4 |-> Taken(q + 1)[k]]
  BY DEF Taken
<1>4. Stripe(Taken(q), stripe) = [k \in 1..4 |-> Append(Taken(q)[k], Word(stripe, 8 * (k - 1)))]
  BY DEF Stripe
<1> HIDE DEF stripe
<1>5. Stripe(Taken(q), stripe) = Taken(q + 1)
  BY <1>2, <1>3, <1>4
<1> QED BY <1>5 DEF stripe

\* The whole stripes of what comes in go to the accumulators, the rest to the buffer.
LEMMA AbsorbIs ==
  ASSUME NEW q \in Nat, NEW m \in Nat, 32 * q + m <= Len(Content), NEW t \in Nat, NEW h,
         HasherIs(h, t, q, 0)
  PROVE  \E d \in Nat, e \in 0..31 :
           /\ m = 32 * d + e
           /\ HasherIs(Absorb(h, SubSeq(Content, 32 * q + 1, 32 * q + m)), t, q + d, e)
<1> DEFINE data == SubSeq(Content, 32 * q + 1, 32 * q + m)
           all == StripesAll(data, Taken(q))
           g == Absorb(h, data)
<1>1. PICK d \in Nat, e \in 0..31 :
        /\ m = 32 * d + e
        /\ all = [v |-> Taken(q + d), rest |-> SubSeq(Content, 32 * (q + d) + 1, 32 * (q + d) + e)]
  BY StripesAllIs
<1>2. PICK a \in Nat : a = 32 * (q + d) /\ a + e <= Len(Content)
  <2>1. 32 * (q + d) \in Nat /\ 32 * (q + d) + e = 32 * q + m
    BY <1>1
  <2> QED BY <2>1
<1>3. h.v = Taken(q) /\ h.total = t /\ h.buf_len = 0
  BY DEF HasherIs
<1> DEFINE rest == SubSeq(Content, a + 1, a + e)
<1>4. all.v = Taken(q + d) /\ all.rest = rest
  BY <1>1, <1>2
<1>5. rest \in Seq(Nat) /\ Len(rest) = e
  <2>1. a + e \in Nat /\ a <= a + e /\ (a + e) - a = e
    OBVIOUS
  <2> QED BY <1>2, <2>1, PartHas
<1>6. g = IF rest = <<>> THEN [h EXCEPT !.v = Taken(q + d)]
          ELSE [h EXCEPT !.v = Taken(q + d), !.buf = CopyIntoBuf(@, 0, rest), !.buf_len = e]
  BY <1>3, <1>4, <1>5, Zenon DEF Absorb
<1>7. CASE rest = <<>>
  <2>1. e = 0
    BY <1>5, <1>7
  <2>2. g = [total |-> t, v |-> Taken(q + d), buf |-> h.buf, buf_len |-> 0]
    BY <1>3, <1>6, <1>7 DEF HasherIs
  <2>3. g.buf = h.buf
    BY <2>2
  <2>4. HasherIs(g, t, q + d, e)
    <3> HIDE DEF g
    <3> QED BY <2>1, <2>2, <2>3 DEF HasherIs, Begins
  <2> QED BY <1>1, <2>4
<1>8. CASE rest # <<>>
  <2> DEFINE buf == CopyIntoBuf(h.buf, 0, rest)
  <2>1. Begins(buf, a, e)
    <3>1. 0 \in 0..31 /\ e \in Nat /\ 0 + e <= 32 /\ a + 0 + e <= Len(Content)
      BY <1>2
    <3>2. Begins(h.buf, a, 0)
      BY <1>2 DEF HasherIs, Begins
    <3>3. Begins(CopyIntoBuf(h.buf, 0, SubSeq(Content, (a + 0) + 1, a + 0 + e)), a, 0 + e)
      BY <3>1, <3>2, CopyGoesOn
    <3>4. a + 0 = a /\ a + 0 + e = a + e /\ 0 + e = e
      OBVIOUS
    <3> QED BY <3>3, <3>4
  <2>2. g = [total |-> t, v |-> Taken(q + d), buf |-> buf, buf_len |-> e]
    <3> HIDE DEF rest, g
    <3> QED BY <1>3, <1>6, <1>8 DEF HasherIs
  <2> HIDE DEF buf, g
  <2>3. HasherIs(g, t, q + d, e)
    BY <1>2, <2>1, <2>2 DEF HasherIs
  <2> QED BY <1>1, <2>3 DEF g
<1> QED BY <1>7, <1>8

\* A part that does not fill the buffer goes into it.
LEMMA BufferedIs ==
  ASSUME NEW q \in Nat, NEW r \in 0..31, NEW n \in Nat, r + n < 32, 32 * q + r + n <= Len(Content),
         NEW t \in Nat, NEW h, HasherIs(h, t, q, r)
  PROVE  HasherIs(Buffered(h, SubSeq(Content, (32 * q + r) + 1, 32 * q + r + n)), t, q, r + n)
<1> DEFINE data == SubSeq(Content, (32 * q + r) + 1, 32 * q + r + n)
           buf == CopyIntoBuf(h.buf, r, data)
           g == Buffered(h, data)
<1>1. PICK a \in Nat : a = 32 * q
  OBVIOUS
<1>2. Len(data) = n
  <2>1. a + r \in Nat /\ a + r + n \in Nat /\ a + r <= a + r + n /\ (a + r + n) - (a + r) = n
    BY Places, Zenon
  <2>2. Len(SubSeq(Content, (a + r) + 1, a + r + n)) = (a + r + n) - (a + r)
    BY <1>1, <2>1, PartHas
  <2> QED BY <1>1, <2>1, <2>2
<1>3. h.v = Taken(q) /\ h.total = t /\ h.buf_len = r /\ Begins(h.buf, a, r)
  BY <1>1 DEF HasherIs
<1>4. Begins(buf, a, r + n)
  <2>1. r + n <= 32 /\ a + r + n <= Len(Content)
    BY <1>1
  <2>2. Begins(CopyIntoBuf(h.buf, r, SubSeq(Content, (a + r) + 1, a + r + n)), a, r + n)
    BY <1>3, <2>1, CopyGoesOn
  <2> QED BY <1>1, <2>2
<1>5. g = [h EXCEPT !.buf = buf, !.buf_len = r + n]
  BY <1>2, <1>3, Zenon DEF Buffered
<1>6. g = [total |-> t, v |-> Taken(q), buf |-> buf, buf_len |-> r + n]
  <2> HIDE DEF g, buf
  <2> QED BY <1>3, <1>5 DEF HasherIs
<1> HIDE DEF g, buf
<1>7. HasherIs(g, t, q, r + n)
  BY <1>1, <1>4, <1>6 DEF HasherIs
<1> QED BY <1>7 DEF g

\* A part that fills the buffer makes a stripe of it.
LEMMA ToppedUpIs ==
  ASSUME NEW q \in Nat, NEW r \in 0..31, 32 * q + 32 <= Len(Content),
         NEW t \in Nat, NEW h, HasherIs(h, t, q, r)
  PROVE  HasherIs(ToppedUp(h, SubSeq(Content, (32 * q + r) + 1, 32 * q + 32)), t, q + 1, 0)
<1> DEFINE head == SubSeq(Content, (32 * q + r) + 1, 32 * q + 32)
           buf == CopyIntoBuf(h.buf, r, head)
           g == ToppedUp(h, head)
<1>1. PICK a \in Nat, n \in Nat : a = 32 * q /\ n = 32 - r /\ r + n = 32 /\ a + r + n = a + 32
  <2>1. 32 * q \in Nat /\ 32 - r \in Nat /\ r + (32 - r) = 32 /\ 32 * q + r + (32 - r) = 32 * q + 32
    OBVIOUS
  <2> QED BY <2>1
<1>2. h.v = Taken(q) /\ h.total = t /\ h.buf_len = r /\ Begins(h.buf, a, r)
  BY <1>1 DEF HasherIs
<1>3. Begins(buf, a, 32)
  <2>1. r + n <= 32 /\ a + r + n <= Len(Content)
    BY <1>1
  <2>2. Begins(CopyIntoBuf(h.buf, r, SubSeq(Content, (a + r) + 1, a + r + n)), a, r + n)
    BY <1>2, <2>1, CopyGoesOn
  <2> QED BY <1>1, <2>2
<1>4. buf = SubSeq(Content, 32 * q + 1, 32 * q + 32)
  <2> HIDE DEF buf
  <2>1. buf = SubSeq(Content, a + 1, a + 32)
    BY <1>1, <1>3, BufferIsPart
  <2> QED BY <1>1, <2>1
<1>5. Stripe(h.v, buf) = Taken(q + 1)
  <2> HIDE DEF buf
  <2> QED BY <1>2, <1>4, StripeIs
<1>6. g = [h EXCEPT !.buf = buf, !.v = Taken(q + 1), !.buf_len = 0]
  BY <1>2, <1>5, Zenon DEF ToppedUp
<1>7. g = [total |-> t, v |-> Taken(q + 1), buf |-> buf, buf_len |-> 0]
  <2> HIDE DEF g, buf
  <2> QED BY <1>2, <1>6 DEF HasherIs
<1> HIDE DEF g, buf
<1>8. HasherIs(g, t, q + 1, 0)
  BY <1>1, <1>3, <1>7 DEF HasherIs, Begins
<1> QED BY <1>8 DEF g

\* A hasher that has counted on has what it had.
LEMMA CountedIs ==
  ASSUME NEW q, NEW r, NEW t \in Nat, NEW n \in Nat, NEW h, HasherIs(h, t, q, r)
  PROVE  HasherIs([h EXCEPT !.total = @ + n], t + n, q, r)
<1> DEFINE g == [h EXCEPT !.total = @ + n]
<1>1. g = [total |-> t + n, v |-> Taken(q), buf |-> h.buf, buf_len |-> r]
  BY DEF HasherIs
<1>2. g.buf = h.buf
  BY <1>1
<1> HIDE DEF g
<1>3. HasherIs(g, t + n, q, r)
  BY <1>1, <1>2 DEF HasherIs
<1> QED BY <1>3 DEF g

\* update: however many bytes come, and wherever they are cut, the hasher has had
\* the stripes and the bytes of all it has been given.
LEMMA UpdateIs ==
  ASSUME NEW q \in Nat, NEW r \in 0..31, NEW n \in Nat, 32 * q + r + n <= Len(Content),
         NEW t \in Nat, NEW h, HasherIs(h, t, q, r)
  PROVE  \E p \in Nat, e \in 0..31 :
           /\ 32 * p + e = 32 * q + r + n
           /\ HasherIs(Update(h, SubSeq(Content, (32 * q + r) + 1, 32 * q + r + n)), t + n, p, e)
<1> DEFINE data == SubSeq(Content, (32 * q + r) + 1, 32 * q + r + n)
           g == [h EXCEPT !.total = @ + n]
           take == 32 - r
           goal(u) == \E p \in Nat, e \in 0..31 :
                        32 * p + e = 32 * q + r + n /\ HasherIs(u, t + n, p, e)
<1>1. PICK a \in Nat : a = 32 * q
  OBVIOUS
<1>2. Content \in Seq(Nat) /\ Len(data) = n
  <2>1. a + r \in Nat /\ a + r + n \in Nat /\ a + r <= a + r + n /\ (a + r + n) - (a + r) = n
    BY Places, Zenon
  <2>2. Len(SubSeq(Content, (a + r) + 1, a + r + n)) = (a + r + n) - (a + r)
    BY <1>1, <2>1, PartHas
  <2>3. Content \in Seq(Nat)
    BY FormatsAssumption
  <2> QED BY <1>1, <2>1, <2>2, <2>3
<1>3. h.buf_len = r /\ HasherIs(g, t + n, q, r) /\ t + n \in Nat
  <2>1. HasherIs(g, t + n, q, r)
    BY CountedIs
  <2> HIDE DEF g
  <2> QED BY <2>1 DEF HasherIs
<1>4. Update(h, data) = IF r + n < 32 THEN Buffered(g, data)
                        ELSE IF r > 0 THEN Absorb(ToppedUp(g, SubSeq(data, 1, take)), Drop(data, take))
                        ELSE Absorb(g, data)
  <2>1. Len(data) = n /\ h.buf_len = r
    BY <1>2, <1>3
  <2> HIDE DEF data
  <2> QED BY <2>1, Zenon DEF Update
<1> HIDE DEF g
<1>5. CASE r + n < 32
  <2>1. HasherIs(Buffered(g, data), t + n, q, r + n)
    BY <1>3, <1>5, BufferedIs
  <2>2. r + n \in 0..31 /\ 32 * q + (r + n) = 32 * q + r + n
    BY <1>5
  <2>3. goal(Buffered(g, data))
    <3> HIDE DEF data
    <3> QED BY <2>1, <2>2
  <2>4. Update(h, data) = Buffered(g, data)
    BY <1>4, <1>5, Zenon
  <2> QED BY <2>3, <2>4
<1>6. CASE ~(r + n < 32) /\ r = 0
  <2>1. 32 * q + n <= Len(Content) /\ 32 * q + r = 32 * q /\ 32 * q + r + n = 32 * q + n
    BY <1>2, <1>6
  <2>2. HasherIs(g, t + n, q, 0)
    BY <1>3, <1>6
  <2>3. PICK d \in Nat, e \in 0..31 :
          /\ n = 32 * d + e
          /\ HasherIs(Absorb(g, SubSeq(Content, 32 * q + 1, 32 * q + n)), t + n, q + d, e)
    BY <1>3, <2>1, <2>2, AbsorbIs
  <2>4. HasherIs(Absorb(g, data), t + n, q + d, e)
    BY <2>1, <2>3
  <2>5. q + d \in Nat /\ 32 * (q + d) + e = 32 * q + r + n
    BY <2>1, <2>3
  <2>6. goal(Absorb(g, data))
    <3> HIDE DEF data
    <3> QED BY <2>4, <2>5
  <2>7. Update(h, data) = Absorb(g, data)
    BY <1>4, <1>6
  <2> QED BY <2>6, <2>7
<1>7. CASE ~(r + n < 32) /\ r > 0
  <2>1. PICK m \in Nat : r + n = 32 + m /\ take \in 0..n
    <3>1. (r + n) - 32 \in Nat /\ r + n = 32 + ((r + n) - 32) /\ take \in 0..n
      BY <1>7
    <3> QED BY <3>1
  <2>2. 32 * q + 32 <= Len(Content) /\ 32 * (q + 1) + m <= Len(Content)
        /\ 32 * (q + 1) + m = 32 * q + r + n
    BY <1>2, <2>1
  <2>3. SubSeq(data, 1, take) = SubSeq(Content, (32 * q + r) + 1, 32 * q + 32)
    <3>1. /\ a + r \in Nat /\ a + r + n \in Nat /\ a + r <= a + r + n /\ a + r + n <= Len(Content)
          /\ 0 \in Nat /\ take \in Nat /\ 0 <= take /\ (a + r) + take <= a + r + n
      BY <1>1, <2>1
    <3>2. SubSeq(SubSeq(Content, (a + r) + 1, a + r + n), 0 + 1, take)
            = SubSeq(Content, ((a + r) + 0) + 1, (a + r) + take)
      BY <1>2, <3>1, SubSeqSub
    <3>3. 0 + 1 = 1 /\ (a + r) + 0 = a + r /\ (a + r) + take = a + 32
      OBVIOUS
    <3> QED BY <1>1, <3>2, <3>3
  <2>4. Drop(data, take) = SubSeq(Content, 32 * (q + 1) + 1, 32 * (q + 1) + m)
    <3>1. /\ a + r \in Nat /\ a + r + n \in Nat /\ a + r <= a + r + n /\ a + r + n <= Len(Content)
          /\ n \in Nat /\ take \in Nat /\ take <= n /\ (a + r) + n <= a + r + n
      BY <1>1, <2>1
    <3>2. SubSeq(SubSeq(Content, (a + r) + 1, a + r + n), take + 1, n)
            = SubSeq(Content, ((a + r) + take) + 1, (a + r) + n)
      BY <1>2, <3>1, SubSeqSub
    <3>3. (a + r) + take = 32 * (q + 1) /\ (a + r) + n = 32 * (q + 1) + m
      BY <1>1, <2>1
    <3>4. Drop(data, take) = SubSeq(data, take + 1, n)
      BY <1>2, Zenon DEF Drop
    <3> QED BY <1>1, <3>2, <3>3, <3>4
  <2> DEFINE f == ToppedUp(g, SubSeq(Content, (32 * q + r) + 1, 32 * q + 32))
  <2>5. HasherIs(f, t + n, q + 1, 0)
    BY <1>3, <2>2, ToppedUpIs
  <2> HIDE DEF f
  <2>6. q + 1 \in Nat
    OBVIOUS
  <2>7. PICK d \in Nat, e \in 0..31 :
          /\ m = 32 * d + e
          /\ HasherIs(Absorb(f, SubSeq(Content, 32 * (q + 1) + 1, 32 * (q + 1) + m)),
                      t + n, (q + 1) + d, e)
    BY <1>3, <2>2, <2>5, <2>6, AbsorbIs
  <2>8. (q + 1) + d \in Nat /\ 32 * ((q + 1) + d) + e = 32 * q + r + n
    BY <2>2, <2>7
  <2>9. Update(h, data) = Absorb(f, SubSeq(Content, 32 * (q + 1) + 1, 32 * (q + 1) + m))
    <3> HIDE DEF data, take
    <3> QED BY <1>4, <1>7, <2>3, <2>4 DEF f
  <2> HIDE DEF data
  <2>10. HasherIs(Update(h, data), t + n, (q + 1) + d, e)
    BY <2>7, <2>9
  <2>11. goal(Update(h, data))
    BY <2>8, <2>10, Zenon
  <2> QED BY <2>11, Zenon DEF data
<1>8. r + n < 32 \/ (~(r + n < 32) /\ r = 0) \/ (~(r + n < 32) /\ r > 0)
  OBVIOUS
<1> QED BY <1>5, <1>6, <1>7, <1>8, Zenon

\* digest: what is made of a hasher is what hashing all of its bytes makes of them.
LEMMA DigestIs ==
  ASSUME NEW q \in Nat, NEW r \in 0..31, 32 * q + r <= Len(Content), NEW h,
         HasherIs(h, 32 * q + r, q, r)
  PROVE  HashesAsOne(h, SubSeq(Content, 1, 32 * q + r))
<1>1. PICK a \in Nat, l \in Nat : a = 32 * q /\ l = a + r /\ l <= Len(Content) /\ l - a = r
  OBVIOUS
<1> DEFINE src == SubSeq(Content, 1, l)
           tail == SubSeq(Content, a + 1, l)
<1>2. src \in Seq(Nat) /\ Len(src) = l
  <2>1. SubSeq(Content, 0 + 1, l) \in Seq(Nat) /\ Len(SubSeq(Content, 0 + 1, l)) = l - 0
    <3>1. 0 \in Nat /\ 0 <= l
      BY <1>1
    <3> QED BY <1>1, <3>1, PartHas
  <2>2. l - 0 = l /\ 0 + 1 = 1
    BY <1>1
  <2> QED BY <2>1, <2>2
<1>3. tail \in Seq(Nat) /\ Len(tail) = r /\ \A i \in 1..r : tail[i] = Content[a + i]
  <2>1. a <= l
    BY <1>1
  <2>2. /\ tail \in Seq(Nat) /\ Len(tail) = l - a
        /\ \A i \in 1..(l - a) : tail[i] = Content[a + i]
    BY <1>1, <2>1, PartHas, Zenon
  <2> HIDE DEF tail
  <2> QED BY <1>1, <2>2, Zenon
<1>4. h.v = Taken(q) /\ h.total = l /\ h.buf_len = r /\ Begins(h.buf, a, r)
  BY <1>1 DEF HasherIs
<1>5. SubSeq(h.buf, 1, r) = tail
  <2> DEFINE held == SubSeq(h.buf, 1, r)
  <2>1. h.buf \in Seq(Nat) /\ Len(h.buf) = 32 /\ \A j \in 1..r : h.buf[j] = Content[a + j]
    BY <1>4, BufferSeq DEF Begins
  <2>2. held \in Seq(Nat) /\ Len(held) = r /\ \A i \in 1..r : held[i] = h.buf[i]
    <3>1. Part(h.buf, 0, r, SubSeq(h.buf, 0 + 1, r))
      <4>1. 0 \in Nat /\ r \in Nat /\ 0 <= r /\ r <= Len(h.buf)
        BY <2>1, ShortOfBuffer
      <4> QED BY <2>1, <4>1, PartIs
    <3>2. r - 0 = r /\ 0 + 1 = 1 /\ \A i \in 1..r : 0 + i = i
      OBVIOUS
    <3> QED BY <3>1, <3>2 DEF Part
  <2> HIDE DEF held, tail
  <2>3. Len(held) = Len(tail) /\ \A i \in 1..Len(held) : held[i] = tail[i]
    BY <1>3, <2>1, <2>2
  <2>4. held = tail
    BY <1>3, <2>2, <2>3, SeqEqual
  <2> QED BY <2>4 DEF held
<1> HIDE DEF tail
<1>6. Digest(h) = FinishTail(tail, IF l >= 32 THEN Taken(q) ELSE NoLanes, l)
  BY <1>4, <1>5, Zenon DEF Digest
<1>7. CASE l >= 32
  <2>1. Taken(0) = Lanes
    BY DEF Taken, Lanes
  <2>2. PICK d \in Nat, e \in 0..31 :
          /\ l = 32 * d + e
          /\ StripesAll(SubSeq(Content, 32 * 0 + 1, 32 * 0 + l), Taken(0))
               = [v |-> Taken(0 + d), rest |-> SubSeq(Content, 32 * (0 + d) + 1, 32 * (0 + d) + e)]
    <3>1. 0 \in Nat /\ 32 * 0 + l <= Len(Content)
      BY <1>1
    <3> QED BY <3>1, StripesAllIs
  <2>3. d = q /\ e = r
    BY <1>1, <2>2
  <2>4. 32 * 0 + 1 = 1 /\ 32 * 0 + l = l /\ 0 + d = q /\ 32 * (0 + d) = a /\ 32 * (0 + d) + e = l
    BY <1>1, <2>2, <2>3
  <2>5. StripesAll(src, Lanes) = [v |-> Taken(q), rest |-> tail]
    BY <2>1, <2>2, <2>4 DEF tail
  <2> HIDE DEF src
  <2>6. Xxh64(src) = FinishTail(tail, Taken(q), l)
    <3>1. Len(src) = l /\ l >= 32
      BY <1>2, <1>7
    <3>2. StripesAll(src, Lanes).v = Taken(q) /\ StripesAll(src, Lanes).rest = tail
      BY <2>5
    <3> QED BY <3>1, <3>2, Zenon DEF Xxh64
  <2>7. Digest(h) = Xxh64(src)
    BY <1>6, <1>7, <2>6
  <2> QED BY <1>1, <1>4, <2>7 DEF HashesAsOne, src
<1>8. CASE ~(l >= 32)
  <2>1. a = 0 /\ a + 1 = 1
    BY <1>1, <1>8
  <2>2. tail = src
    BY <2>1 DEF tail
  <2> HIDE DEF src
  <2>3. Xxh64(src) = FinishTail(src, NoLanes, l)
    BY <1>2, <1>8, Zenon DEF Xxh64
  <2>4. Digest(h) = Xxh64(src)
    BY <1>6, <1>8, <2>2, <2>3
  <2> QED BY <1>1, <1>4, <2>4 DEF HashesAsOne, src
<1> QED BY <1>7, <1>8

\* The inductive invariant: what a hasher has had is the content up to here.
HasherHasHad ==
  input.kind = "content" =>
    /\ DOMAIN input = {"kind", "hasher", "at"}
    /\ \E q \in Nat, r \in 0..31 :
         /\ input.at = 32 * q + r /\ input.at <= Len(Content)
         /\ HasherIs(input.hasher, input.at, q, r)

\* However its bytes are cut into parts, a hasher has what hashing them at once
\* gives (Hasher::update and digest beside xxh64).
THEOREM ChecksumsAlikeHolds == Spec => []ChecksumsAlike
<1>1. Init => HasherHasHad
  BY DEF Init, Idle, HasherHasHad
<1>2. HasherHasHad /\ [Next]_input => HasherHasHad'
  <2> SUFFICES ASSUME HasherHasHad, [Next]_input PROVE HasherHasHad'
    OBVIOUS
  <2>1. CASE UNCHANGED input
    BY <2>1 DEF HasherHasHad
  <2>2. CASE TakeSource
    BY <2>2 DEF TakeSource, HasherHasHad
  <2>3. CASE TakeHeader \/ TakeLevel \/ TakeBlob
    BY <2>3 DEF TakeHeader, TakeLevel, TakeBlob, HasherHasHad
  <2>4. CASE TakeContent
    <3>1. input' = [kind |-> "content", hasher |-> New, at |-> 0]
      BY <2>4 DEF TakeContent
    <3>2. HasherIs(New, 0, 0, 0)
      <4>1. Taken(0) = Lanes
        BY DEF Taken, Lanes
      <4> DEFINE buf == [i \in 1..32 |-> 0]
      <4>2. New = [total |-> 0, v |-> Taken(0), buf |-> buf, buf_len |-> 0]
        BY <4>1, Zenon DEF New
      <4>3. New.buf = buf /\ buf \in [1..32 -> Nat]
        BY <4>2
      <4> HIDE DEF buf
      <4> QED BY <4>2, <4>3 DEF HasherIs, Begins
    <3>3. 0 \in Nat /\ 0 \in 0..31 /\ 0 = 32 * 0 + 0 /\ 0 <= Len(Content)
      BY FormatsAssumption
    <3>4. input'.hasher = New /\ input'.at = 0
      BY <3>1
    <3> QED BY <3>1, <3>2, <3>3, <3>4 DEF HasherHasHad
  <2>5. CASE input.kind = "content" /\ TakePart
    <3>1. PICK n \in PartLens :
            /\ input.at + n <= Len(Content)
            /\ input' = [input EXCEPT !.hasher = Update(@, SubSeq(Content, input.at + 1, input.at + n)),
                                      !.at = @ + n]
      BY <2>5 DEF TakePart
    <3>2. PICK q \in Nat, r \in 0..31 :
            /\ input.at = 32 * q + r /\ input.at <= Len(Content)
            /\ HasherIs(input.hasher, input.at, q, r)
      BY <2>5 DEF HasherHasHad
    <3>3. DOMAIN input = {"kind", "hasher", "at"}
      BY <2>5 DEF HasherHasHad
    <3> DEFINE h == input.hasher
               t == input.at
               u == Update(h, SubSeq(Content, t + 1, t + n))
    <3>4. n \in Nat
      BY FormatsAssumption
    <3>5. t \in Nat /\ 32 * q + r + n <= Len(Content) /\ t + n = 32 * q + r + n /\ t + n \in Nat
      <4>1. t = 32 * q + r /\ t + n <= Len(Content)
        BY <3>1, <3>2, Zenon
      <4>2. 32 * q + r \in Nat /\ 32 * q + r + n \in Nat
        BY <3>4
      <4> QED BY <4>1, <4>2, Zenon
    <3>6. PICK p \in Nat, e \in 0..31 :
            /\ 32 * p + e = 32 * q + r + n
            /\ HasherIs(Update(h, SubSeq(Content, (32 * q + r) + 1, 32 * q + r + n)), t + n, p, e)
      BY <3>2, <3>4, <3>5, UpdateIs
    <3>7. HasherIs(u, t + n, p, e)
      BY <3>2, <3>5, <3>6
    <3>8. input' = [input EXCEPT !.hasher = u, !.at = t + n]
      BY <3>1
    <3> HIDE DEF u
    <3>9. DOMAIN input' = {"kind", "hasher", "at"} /\ input'.hasher = u /\ input'.at = t + n
      BY <3>3, <3>8
    <3>10. t + n <= Len(Content) /\ t + n = 32 * p + e
      BY <3>1, <3>5, <3>6, Zenon
    <3> QED BY <3>7, <3>9, <3>10 DEF HasherHasHad
  <2>6. CASE input' = Idle
    BY <2>6 DEF Idle, HasherHasHad
  <2> QED BY <2>1, <2>2, <2>3, <2>4, <2>5, <2>6 DEF Next
<1>3. HasherHasHad => ChecksumsAlike
  <2> SUFFICES ASSUME HasherHasHad, input.kind = "content"
               PROVE  HashesAsOne(input.hasher, SubSeq(Content, 1, input.at))
    BY DEF ChecksumsAlike
  <2>1. PICK q \in Nat, r \in 0..31 :
          /\ input.at = 32 * q + r /\ input.at <= Len(Content)
          /\ HasherIs(input.hasher, input.at, q, r)
    BY DEF HasherHasHad
  <2>2. HashesAsOne(input.hasher, SubSeq(Content, 1, 32 * q + r))
    BY <2>1, DigestIs
  <2> QED BY <2>1, <2>2
<1> QED BY <1>1, <1>2, <1>3, PTL DEF Spec

-----------------------------------------------------------------------------
(* Sums. *)

\* The sum of the first i of s.
SumTo(s, i) == SumOf(SubSeq(s, 1, i))

\* The steps of a sum.
SumSteps(s, g) ==
  /\ g \in [0..Len(s) -> Nat] /\ g[0] = 0
  /\ \A k \in 1..Len(s) : g[k] = g[k - 1] + s[k]

\* A sum is taken step by step.
LEMMA SumIs ==
  ASSUME NEW s \in Seq(Nat)
  PROVE  \E g : SumSteps(s, g) /\ SumOf(s) = g[Len(s)]
<1>1. PICK n \in Nat : n = Len(s)
  <2> Len(s) \in Nat
    OBVIOUS
  <2> QED OBVIOUS
<1>2. \A k \in 1..n : s[k] \in Nat
  BY <1>1, SeqHas
<1> DEFINE F == [p \in (1..n) \X Nat |-> p[2] + s[p[1]]]
           body(g) == [i \in 0..n |-> IF i = 0 THEN 0 ELSE g[i - 1] + s[i]]
           sum == CHOOSE g : g = body(g)
<1>3. F \in [(1..n) \X Nat -> Nat]
  BY <1>2
<1>4. PICK g \in [0..n -> Nat] : g[0] = 0 /\ \A k \in 1..n : g[k] = F[<<k, g[k - 1]>>]
  <2>1. Iterated(n, Nat, 0, F)
    <3> HIDE DEF F
    <3> QED BY <1>3, Iterates
  <2> QED BY <2>1 DEF Iterated
<1>5. \A k \in 1..n : g[k] = g[k - 1] + s[k]
  <2> SUFFICES ASSUME NEW k \in 1..n PROVE g[k] = g[k - 1] + s[k]
    OBVIOUS
  <2>1. k - 1 \in 0..n
    OBVIOUS
  <2>2. g[k - 1] \in Nat
    BY <2>1
  <2>3. F[<<k, g[k - 1]>>] = g[k - 1] + s[k]
    BY <2>2
  <2> QED BY <1>4, <2>3
<1>6. g = body(g)
  <2>1. g = [i \in 0..n |-> g[i]]
    BY <1>4
  <2>2. ASSUME NEW i \in 0..n PROVE g[i] = IF i = 0 THEN 0 ELSE g[i - 1] + s[i]
    BY <1>4, <1>5
  <2> HIDE DEF F
  <2> QED BY <2>1, <2>2
<1>7. sum = body(sum)
  <2> HIDE DEF body
  <2> QED BY <1>6
<1>8. sum[0] = 0 /\ \A k \in 1..n : sum[k] = sum[k - 1] + s[k]
  <2>1. \A i \in 0..n : body(sum)[i] = IF i = 0 THEN 0 ELSE sum[i - 1] + s[i]
    <3> HIDE DEF sum
    <3> QED OBVIOUS
  <2> HIDE DEF sum, body
  <2>2. \A i \in 0..n : sum[i] = IF i = 0 THEN 0 ELSE sum[i - 1] + s[i]
    BY <1>7, <2>1
  <2>3. 0 \in 0..n /\ \A k \in 1..n : k \in 0..n /\ k # 0
    OBVIOUS
  <2> QED BY <2>2, <2>3, Zenon
<1>9. SumOf(s) = sum[n]
  BY <1>1, Zenon DEF SumOf
<1> HIDE DEF sum, body, F
<1>10. \A k \in 0..n : sum[k] = g[k]
  <2>1. StepAlike(n, sum, g)
    BY <1>4, <1>5, <1>8 DEF StepAlike
  <2> QED BY <2>1, Alike DEF AlikeTo
<1>11. SumOf(s) = g[n]
  BY <1>9, <1>10
<1>12. SumSteps(s, g)
  BY <1>1, <1>4, <1>5 DEF SumSteps
<1> QED BY <1>1, <1>11, <1>12

\* Sums of sequences that begin alike.
LEMMA SumOfPart ==
  ASSUME NEW s \in Seq(Nat), NEW g, SumSteps(s, g), NEW i \in 0..Len(s)
  PROVE  SumTo(s, i) = g[i]
<1> DEFINE p == SubSeq(s, 1, i)
<1>1. p \in Seq(Nat) /\ Len(p) = i /\ \A k \in 1..i : p[k] = s[k]
  <2>1. Part(s, 0, i, SubSeq(s, 0 + 1, i))
    <3>1. 0 \in Nat /\ i \in Nat /\ 0 <= i /\ i <= Len(s)
      OBVIOUS
    <3> QED BY <3>1, PartIs
  <2>2. i - 0 = i /\ 0 + 1 = 1 /\ \A k \in 1..i : 0 + k = k
    OBVIOUS
  <2> QED BY <2>1, <2>2 DEF Part
<1> HIDE DEF p
<1>2. PICK f : SumSteps(p, f) /\ SumOf(p) = f[i]
  BY <1>1, SumIs
<1>3. \A k \in 0..i : f[k] = g[k]
  <2>1. ASSUME NEW k \in 1..i, f[k - 1] = g[k - 1] PROVE f[k] = g[k]
    <3>1. k \in 1..Len(s)
      OBVIOUS
    <3> QED BY <1>1, <1>2, <2>1, <3>1 DEF SumSteps
  <2>2. StepAlike(i, f, g)
    BY <1>2, <2>1 DEF StepAlike, SumSteps
  <2>3. i \in Nat
    OBVIOUS
  <2> QED BY <2>2, <2>3, Alike DEF AlikeTo
<1> QED BY <1>2, <1>3 DEF SumTo, p

\* What the sums of the first elements are.
LEMMA SumToIs ==
  ASSUME NEW s \in Seq(Nat)
  PROVE  /\ SumTo(s, 0) = 0 /\ SumTo(s, Len(s)) = SumOf(s)
         /\ \A i \in 0..Len(s) : SumTo(s, i) \in Nat
         /\ \A i \in 1..Len(s) : SumTo(s, i) = SumTo(s, i - 1) + s[i]
<1>1. PICK g : SumSteps(s, g) /\ SumOf(s) = g[Len(s)]
  BY SumIs
<1>2. PICK n \in Nat : n = Len(s)
  <2> Len(s) \in Nat
    OBVIOUS
  <2> QED OBVIOUS
<1>3. \A i \in 0..n : SumTo(s, i) = g[i]
  BY <1>1, <1>2, SumOfPart
<1>4. /\ g \in [0..n -> Nat] /\ g[0] = 0 /\ \A k \in 1..n : g[k] = g[k - 1] + s[k]
  BY <1>1, <1>2 DEF SumSteps
<1>5. 0 \in 0..n /\ n \in 0..n /\ \A i \in 1..n : i \in 0..n /\ i - 1 \in 0..n
  OBVIOUS
<1>6. SumTo(s, 0) = 0 /\ SumTo(s, n) = SumOf(s) /\ \A i \in 0..n : SumTo(s, i) \in Nat
  BY <1>1, <1>2, <1>3, <1>4, <1>5
<1>7. \A i \in 1..n : SumTo(s, i) = SumTo(s, i - 1) + s[i]
  BY <1>3, <1>4, <1>5
<1> QED BY <1>2, <1>6, <1>7

\* The sums of the first elements grow.
LEMMA SumsGrow ==
  ASSUME NEW s \in Seq(Nat), NEW i \in 0..Len(s), NEW j \in 0..Len(s), i <= j
  PROVE  SumTo(s, i) <= SumTo(s, j)
<1>1. PICK n \in Nat : n = Len(s)
  <2> Len(s) \in Nat
    OBVIOUS
  <2> QED OBVIOUS
<1> DEFINE T == {k \in 0..n : i <= k /\ ~(SumTo(s, i) <= SumTo(s, k))}
<1>2. SUFFICES ASSUME T # {} PROVE FALSE
  BY <1>1
<1>3. PICK k \in T : \A y \in T : k <= y
  <2> T \in SUBSET Nat
    OBVIOUS
  <2> HIDE DEF T
  <2> QED BY <1>2, Least
<1>4. /\ \A x \in 0..n : SumTo(s, x) \in Nat
      /\ \A x \in 1..n : SumTo(s, x) = SumTo(s, x - 1) + s[x] /\ s[x] \in Nat
  BY <1>1, SumToIs, SeqHas
<1>5. k \in 1..n /\ k - 1 \in 0..n /\ i <= k - 1 /\ ~(k <= k - 1)
  <2>1. k # i
    BY <1>1, <1>4
  <2> QED BY <1>1, <2>1
<1>6. SumTo(s, i) <= SumTo(s, k - 1)
  <2>1. k - 1 \notin T
    <3> HIDE DEF T
    <3> QED BY <1>3, <1>5
  <2> QED BY <1>5, <2>1
<1>7. SumTo(s, i) \in Nat /\ SumTo(s, k) \in Nat /\ SumTo(s, k - 1) \in Nat /\ s[k] \in Nat
      /\ SumTo(s, k) = SumTo(s, k - 1) + s[k]
  BY <1>1, <1>4, <1>5
<1>8. SumTo(s, i) <= SumTo(s, k)
  BY <1>6, <1>7
<1> QED BY <1>8

-----------------------------------------------------------------------------
(* Walking over frames: what a reader may be, and what taking bytes does. *)

Errs == Errors \cup {None}
Decoding == [pos : Nat, err : Errs, out : Nat, saw_zstd : BOOLEAN]
Listing == [pos : Nat, err : Errs, list : Seq(Nat)]
Sizing == [pos : Nat, err : Errs, found : BOOLEAN, size : Nat \cup {None}]
Census == [pos : Nat, err : Errs, raw : Nat, rle : Nat, compressed : Nat]
Reading == Decoding \cup Listing \cup Sizing \cup Census
Options == [window_max : Nat, ignore_checksum : BOOLEAN, dict : Nat \cup {None},
            out_cap : 0..Unlimited]

\* A reader that has come to p, or has failed with e.
Reaches(r, t, p, e) ==
  /\ t = [x \in DOMAIN r |-> t[x]] /\ t.pos = p /\ t.err = e
  /\ \A x \in DOMAIN r \ {"pos", "err"} : t[x] = r[x]

\* Any reader has a place and an error.
LEMMA ReadingHas ==
  ASSUME NEW r \in Reading
  PROVE  {"pos", "err"} \subseteq DOMAIN r /\ r.pos \in Nat /\ r.err \in Errs
BY DEF Reading, Decoding, Listing, Sizing, Census

\* An error is not the lack of one.
LEMMA ErrorsAre == \A e \in Errors : e # None /\ e \in Errs
BY FormatsAssumption, Zenon DEF Errs

\* Fail.
LEMMA FailIs ==
  ASSUME NEW r, {"pos", "err"} \subseteq DOMAIN r, NEW e
  PROVE  Reaches(r, Fail(r, e), r.pos, e)
BY DEF Reaches, Fail

\* Take: so many bytes are left, or there are not and nothing moves.
LEMMA TakeIs ==
  ASSUME NEW src, src.len \in Nat, NEW r, {"pos", "err"} \subseteq DOMAIN r, r.pos \in Nat, NEW n \in Nat
  PROVE  /\ r.pos + n <= src.len => Reaches(r, Take(src, r, n), r.pos + n, r.err)
         /\ ~(r.pos + n <= src.len) => Reaches(r, Take(src, r, n), r.pos, "UnexpectedEof")
<1>1. CASE r.pos + n <= src.len
  <2>1. ~(src.len - r.pos < n)
    BY <1>1
  <2>2. Take(src, r, n) = [r EXCEPT !.pos = @ + n]
    BY <2>1 DEF Take, Remaining
  <2>3. Reaches(r, Take(src, r, n), r.pos + n, r.err)
    BY <2>2 DEF Reaches
  <2> QED BY <1>1, <2>3
<1>2. CASE ~(r.pos + n <= src.len)
  <2>1. src.len - r.pos < n
    BY <1>2
  <2>2. Take(src, r, n) = Fail(r, "UnexpectedEof")
    BY <2>1 DEF Take, Remaining
  <2> QED BY <1>2, <2>2, FailIs
<1> QED BY <1>1, <1>2

\* A reader stays of its kind.
LEMMA ReachesIn ==
  ASSUME NEW X \in {Decoding, Listing, Sizing, Census}, NEW r \in X, NEW p \in Nat, NEW e \in Errs,
         NEW t, Reaches(r, t, p, e)
  PROVE  t \in X
<1>1. CASE X = Decoding
  <2>1. t = [x \in DOMAIN t |-> t[x]] /\ DOMAIN t = {"pos", "err", "out", "saw_zstd"} /\ t.pos = p /\ t.err = e
        /\ t.out = r.out /\ t.saw_zstd = r.saw_zstd /\ r.out \in Nat /\ r.saw_zstd \in BOOLEAN
    BY <1>1 DEF Reaches, Decoding
  <2> QED BY <1>1, <2>1 DEF Decoding
<1>2. CASE X = Listing
  <2>1. t = [x \in DOMAIN t |-> t[x]] /\ DOMAIN t = {"pos", "err", "list"} /\ t.pos = p /\ t.err = e
        /\ t.list = r.list /\ r.list \in Seq(Nat)
    BY <1>2 DEF Reaches, Listing
  <2> QED BY <1>2, <2>1 DEF Listing
<1>3. CASE X = Sizing
  <2>1. t = [x \in DOMAIN t |-> t[x]] /\ DOMAIN t = {"pos", "err", "found", "size"} /\ t.pos = p /\ t.err = e
        /\ t.found = r.found /\ t.size = r.size /\ r.found \in BOOLEAN /\ r.size \in Nat \cup {None}
    BY <1>3 DEF Reaches, Sizing
  <2> QED BY <1>3, <2>1 DEF Sizing
<1>4. CASE X = Census
  <2>1. t = [x \in DOMAIN t |-> t[x]] /\ DOMAIN t = {"pos", "err", "raw", "rle", "compressed"} /\ t.pos = p /\ t.err = e
        /\ t.raw = r.raw /\ t.rle = r.rle /\ t.compressed = r.compressed
        /\ r.raw \in Nat /\ r.rle \in Nat /\ r.compressed \in Nat
    BY <1>4 DEF Reaches, Census
  <2> QED BY <1>4, <2>1 DEF Census
<1> QED BY <1>1, <1>2, <1>3, <1>4

\* The largest block of a frame.
LEMMA BlockMaxIs ==
  ASSUME NEW f \in ZstdFrame
  PROVE  BlockMax(f) \in Nat /\ BlockMax(f) <= BlockSizeMax
<1>1. f.window \in Nat /\ BlockSizeMax \in Nat
  BY HeaderConstants DEF ZstdFrame
<1>2. \E x \in {f.window, BlockSizeMax} : \A y \in {f.window, BlockSizeMax} : x <= y
  BY <1>1
<1>3. /\ BlockMax(f) \in {f.window, BlockSizeMax}
      /\ \A y \in {f.window, BlockSizeMax} : BlockMax(f) <= y
  BY <1>2, Zenon DEF BlockMax, Min
<1> QED BY <1>1, <1>3

\* A block's fields.
LEMMA BlockHas ==
  ASSUME NEW b \in Block
  PROVE  /\ b.last \in BOOLEAN /\ b.ty \in {"raw", "rle", "compressed", "reserved"}
         /\ b.size \in Nat /\ b.regen \in Nat /\ PayloadLen(b) \in Nat
BY DEF Block, PayloadLen

\* How many bytes a block stands for.
Stands(b) == IF b.ty = "compressed" THEN b.regen ELSE b.size

\* A block that decodes if its bytes are there.
BlockSound(f, b) ==
  /\ b.ty # "reserved" /\ b.size <= BlockMax(f)
  /\ b.ty = "compressed" => b.regen <= BlockMax(f)

\* The header of a block.
LEMMA BlockHeaderIs ==
  ASSUME NEW src, src.len \in Nat, NEW r \in Reading, r.err = None, NEW b \in Block
  PROVE  LET h == ReadBlockHeader(src, r, b)
         IN  \/ r.pos + 3 <= src.len /\ b.ty # "reserved" /\ Reaches(r, h, r.pos + 3, None)
             \/ r.pos + 3 <= src.len /\ b.ty = "reserved" /\ Reaches(r, h, r.pos + 3, "ReservedBlockType")
             \/ ~(r.pos + 3 <= src.len) /\ Reaches(r, h, r.pos, "UnexpectedEof")
<1> DEFINE h == ReadBlockHeader(src, r, b)
           t == Take(src, r, 3)
<1>1. {"pos", "err"} \subseteq DOMAIN r /\ r.pos \in Nat
  BY ReadingHas
<1>2. h = IF t.err = None /\ b.ty = "reserved" THEN Fail(t, "ReservedBlockType") ELSE t
  BY DEF ReadBlockHeader, BlockHeader
<1>3. /\ r.pos + 3 <= src.len => Reaches(r, t, r.pos + 3, None)
      /\ ~(r.pos + 3 <= src.len) => Reaches(r, t, r.pos, "UnexpectedEof")
  BY <1>1, TakeIs
<1> HIDE DEF h, t
<1>4. CASE ~(r.pos + 3 <= src.len)
  <2>1. t.err = "UnexpectedEof" /\ "UnexpectedEof" # None
    <3>1. t.err = "UnexpectedEof"
      BY <1>3, <1>4 DEF Reaches
    <3>2. "UnexpectedEof" # None
      BY ErrorsAre DEF Errors
    <3> QED BY <3>1, <3>2
  <2> QED BY <1>2, <1>3, <1>4, <2>1 DEF h
<1>5. CASE r.pos + 3 <= src.len /\ b.ty # "reserved"
  BY <1>2, <1>3, <1>5 DEF h
<1>6. CASE r.pos + 3 <= src.len /\ b.ty = "reserved"
  <2>1. Reaches(r, t, r.pos + 3, None)
    BY <1>3, <1>6
  <2>2. DOMAIN t = DOMAIN r /\ t.pos = r.pos + 3 /\ t.err = None
        /\ \A x \in DOMAIN r \ {"pos", "err"} : t[x] = r[x]
    BY <2>1 DEF Reaches
  <2>3. h = Fail(t, "ReservedBlockType")
    BY <1>2, <1>6, <2>2
  <2>4. Reaches(t, h, r.pos + 3, "ReservedBlockType")
    BY <1>1, <2>2, <2>3, FailIs
  <2>5. Reaches(r, h, r.pos + 3, "ReservedBlockType")
    BY <2>2, <2>4 DEF Reaches
  <2> QED BY <1>6, <2>5 DEF h
<1> QED BY <1>4, <1>5, <1>6

\* One after another.
LEMMA ReachesOn ==
  ASSUME NEW r, NEW t, NEW u, NEW p, NEW q, NEW d, NEW e, Reaches(r, t, p, d), Reaches(t, u, q, e)
  PROVE  Reaches(r, u, q, e)
BY DEF Reaches

\* A block is decoded in this order.
LEMMA DecodeBlockOrder ==
  ASSUME NEW src, NEW f, NEW opts, NEW r, NEW b \in Block, BlockMax(f) \in Nat
  PROVE  LET h == ReadBlockHeader(src, r, b)
             t == Take(src, h, PayloadLen(b))
         IN  DecodeBlock(src, f, opts, r, b) =
               IF h.err # None THEN h
               ELSE IF b.size > BlockMax(f) THEN Fail(h, "BlockTooLarge")
               ELSE IF b.ty # "compressed" THEN
                 IF b.size > Less(opts.out_cap, h.out) THEN Fail(h, "ContentSizeTooLarge")
                 ELSE IF t.err # None THEN t
                 ELSE [t EXCEPT !.out = @ + b.size]
               ELSE IF t.err # None THEN t
               ELSE IF b.regen > BlockMax(f) THEN Fail(t, "Corruption")
               ELSE IF t.out + b.regen > opts.out_cap
                 THEN Fail([t EXCEPT !.out = @ + b.regen], "ContentSizeTooLarge")
               ELSE [t EXCEPT !.out = @ + b.regen]
<1> DEFINE h == ReadBlockHeader(src, r, b)
           t == Take(src, h, PayloadLen(b))
<1>1. b.size \in Nat /\ (b.size > BlockMax(f) <=> ~(b.size <= BlockMax(f)))
  BY BlockHas
<1>2. CASE h.err # None
  BY <1>2, Zenon DEF DecodeBlock
<1>3. CASE h.err = None /\ b.size > BlockMax(f)
  BY <1>1, <1>3, Zenon DEF DecodeBlock
<1>4. CASE h.err = None /\ b.size <= BlockMax(f) /\ b.ty # "compressed"
  BY <1>1, <1>4, Zenon DEF DecodeBlock
<1>5. CASE h.err = None /\ b.size <= BlockMax(f) /\ b.ty = "compressed"
  BY <1>1, <1>5, Zenon DEF DecodeBlock
<1> QED BY <1>1, <1>2, <1>3, <1>4, <1>5, Zenon

\* What a step of the decoder that fails leaves.
Failed(r, s, most) ==
  /\ s \in Decoding /\ s.err # None /\ s.saw_zstd = r.saw_zstd
  /\ s.pos \in Nat /\ s.out \in Nat /\ r.out <= s.out /\ s.out <= most

\* A decoded block goes into the output whole, or it is refused.
LEMMA DecodeBlockIs ==
  ASSUME NEW src, src.len \in Nat, NEW f \in ZstdFrame, NEW opts \in Options,
         NEW r \in Decoding, r.err = None, r.out <= opts.out_cap, NEW b \in Block
  PROVE  LET s == DecodeBlock(src, f, opts, r, b)
             n == BlockHeader + PayloadLen(b)
         IN  \/ /\ BlockSound(f, b) /\ r.pos + n <= src.len /\ r.out + Stands(b) <= opts.out_cap
                /\ s \in Decoding /\ s.err = None /\ s.saw_zstd = r.saw_zstd
                /\ s.pos = r.pos + n /\ s.out = r.out + Stands(b)
             \/ /\ ~(BlockSound(f, b) /\ r.pos + n <= src.len /\ r.out + Stands(b) <= opts.out_cap)
                /\ Failed(r, s, opts.out_cap + BlockSizeMax)
<1> DEFINE h == ReadBlockHeader(src, r, b)
           t == Take(src, h, PayloadLen(b))
           s == DecodeBlock(src, f, opts, r, b)
           n == BlockHeader + PayloadLen(b)
           goal == \/ /\ BlockSound(f, b) /\ r.pos + n <= src.len /\ r.out + Stands(b) <= opts.out_cap
                      /\ s \in Decoding /\ s.err = None /\ s.saw_zstd = r.saw_zstd
                      /\ s.pos = r.pos + n /\ s.out = r.out + Stands(b)
                   \/ /\ ~(BlockSound(f, b) /\ r.pos + n <= src.len /\ r.out + Stands(b) <= opts.out_cap)
                      /\ Failed(r, s, opts.out_cap + BlockSizeMax)
<1>1. /\ r \in Reading /\ {"pos", "err"} \subseteq DOMAIN r /\ r.pos \in Nat /\ r.out \in Nat
      /\ r.saw_zstd \in BOOLEAN /\ opts.out_cap \in Nat /\ BlockSizeMax \in Nat
  BY LimitConstant, HeaderConstants DEF Reading, Decoding, Options
<1>2. BlockMax(f) \in Nat /\ BlockMax(f) <= BlockSizeMax
  BY BlockMaxIs
<1>3. b.size \in Nat /\ b.regen \in Nat /\ PayloadLen(b) \in Nat
  BY BlockHas
<1> HIDE DEF goal
<1> SUFFICES goal
  BY DEF goal
<1>4. s = IF h.err # None THEN h
          ELSE IF b.size > BlockMax(f) THEN Fail(h, "BlockTooLarge")
          ELSE IF b.ty # "compressed" THEN
            IF b.size > Less(opts.out_cap, h.out) THEN Fail(h, "ContentSizeTooLarge")
            ELSE IF t.err # None THEN t
            ELSE [t EXCEPT !.out = @ + b.size]
          ELSE IF t.err # None THEN t
          ELSE IF b.regen > BlockMax(f) THEN Fail(t, "Corruption")
          ELSE IF t.out + b.regen > opts.out_cap
            THEN Fail([t EXCEPT !.out = @ + b.regen], "ContentSizeTooLarge")
          ELSE [t EXCEPT !.out = @ + b.regen]
  BY <1>2, DecodeBlockOrder
<1>5. \/ r.pos + 3 <= src.len /\ b.ty # "reserved" /\ Reaches(r, h, r.pos + 3, None)
      \/ r.pos + 3 <= src.len /\ b.ty = "reserved" /\ Reaches(r, h, r.pos + 3, "ReservedBlockType")
      \/ ~(r.pos + 3 <= src.len) /\ Reaches(r, h, r.pos, "UnexpectedEof")
  BY <1>1, BlockHeaderIs
<1>6. h \in Decoding /\ h.out = r.out /\ h.saw_zstd = r.saw_zstd
  <2>1. \A p \in Nat, e \in Errs : Reaches(r, h, p, e) => h \in Decoding
    BY ReachesIn
  <2>2. None \in Errs /\ "ReservedBlockType" \in Errs /\ "UnexpectedEof" \in Errs
    BY DEF Errs, Errors
  <2>3. h \in Decoding
    <3> HIDE DEF h
    <3> QED BY <1>1, <1>5, <2>1, <2>2
  <2>4. {"out", "saw_zstd"} \subseteq DOMAIN r \ {"pos", "err"}
    BY DEF Decoding
  <2>5. \A x \in {"out", "saw_zstd"} : h[x] = r[x]
    <3> HIDE DEF h
    <3> QED BY <1>5, <2>4 DEF Reaches
  <2> HIDE DEF h
  <2> QED BY <2>3, <2>5
<1> HIDE DEF h
<1>7. \A e \in Errs \ {None} : Failed(r, Fail(h, e), opts.out_cap + BlockSizeMax)
  <2> SUFFICES ASSUME NEW e \in Errs \ {None} PROVE Failed(r, Fail(h, e), opts.out_cap + BlockSizeMax)
    OBVIOUS
  <2>1. Fail(h, e) = [h EXCEPT !.err = e]
    BY DEF Fail
  <2> QED BY <1>1, <1>6, <2>1 DEF Failed, Decoding
<1>8. "BlockTooLarge" \in Errs \ {None} /\ "ContentSizeTooLarge" \in Errs \ {None}
      /\ "Corruption" \in Errs \ {None} /\ "UnexpectedEof" \in Errs \ {None}
      /\ "ReservedBlockType" \in Errs \ {None}
  BY ErrorsAre DEF Errors
<1>9. CASE h.err # None
  <2>1. s = h
    BY <1>4, <1>9
  <2>2. Failed(r, s, opts.out_cap + BlockSizeMax)
    <3> HIDE DEF s
    <3> QED BY <1>1, <1>6, <1>9, <2>1 DEF Failed, Decoding
  <2>3. ~(r.pos + 3 <= src.len) \/ b.ty = "reserved"
    BY <1>5, <1>9 DEF Reaches
  <2>4. ~(BlockSound(f, b) /\ r.pos + n <= src.len /\ r.out + Stands(b) <= opts.out_cap)
    BY <1>1, <1>3, <2>3 DEF BlockSound, BlockHeader
  <2> QED BY <2>2, <2>4 DEF goal
<1>10. ASSUME h.err = None PROVE goal
  <2>1. b.ty # "reserved" /\ h.pos = r.pos + 3 /\ {"pos", "err"} \subseteq DOMAIN h /\ h.pos \in Nat
    <3>1. h.pos = r.pos + 3 /\ b.ty # "reserved"
      BY <1>5, <1>8, <1>10 DEF Reaches
    <3> QED BY <1>6, <3>1 DEF Decoding
  <2>2. /\ h.pos + PayloadLen(b) <= src.len => Reaches(h, t, h.pos + PayloadLen(b), None)
        /\ ~(h.pos + PayloadLen(b) <= src.len) => Reaches(h, t, h.pos, "UnexpectedEof")
    BY <1>3, <1>10, <2>1, TakeIs
  <2>3. t \in Decoding /\ t.out = r.out /\ t.saw_zstd = r.saw_zstd
    <3>1. \A p \in Nat, e \in Errs : Reaches(h, t, p, e) => t \in Decoding
      BY <1>6, ReachesIn
    <3>2. h.pos + PayloadLen(b) \in Nat /\ None \in Errs
      BY <1>3, <2>1 DEF Errs
    <3>3. {"out", "saw_zstd"} \subseteq DOMAIN h \ {"pos", "err"}
      BY <1>6 DEF Decoding
    <3> HIDE DEF t
    <3>4. t \in Decoding
      BY <1>8, <2>1, <2>2, <3>1, <3>2
    <3>5. \A x \in {"out", "saw_zstd"} : t[x] = h[x]
      BY <2>2, <3>3 DEF Reaches
    <3> QED BY <1>6, <3>4, <3>5
  <2> HIDE DEF t
  <2>4. t.err # None <=> ~(r.pos + n <= src.len)
    BY <1>1, <1>3, <1>8, <2>1, <2>2 DEF Reaches, BlockHeader
  <2>5. t.err = None => t.pos = r.pos + n
    BY <1>1, <1>3, <1>8, <2>1, <2>2 DEF Reaches, BlockHeader
  <2>6. t.err # None => Failed(r, t, opts.out_cap + BlockSizeMax)
    BY <1>1, <2>3 DEF Failed, Decoding
  <2> HIDE DEF s, n
  <2>7. CASE b.size > BlockMax(f)
    <3>1. s = Fail(h, "BlockTooLarge")
      BY <1>4, <1>10, <2>7
    <3>2. ~BlockSound(f, b)
      BY <1>2, <1>3, <2>7 DEF BlockSound
    <3> QED BY <1>7, <1>8, <3>1, <3>2 DEF goal
  <2>8. CASE ~(b.size > BlockMax(f)) /\ b.ty # "compressed"
    <3>1. Stands(b) = b.size /\ BlockSound(f, b)
      BY <1>2, <1>3, <2>1, <2>8 DEF Stands, BlockSound
    <3>2. b.size > Less(opts.out_cap, h.out) <=> ~(r.out + Stands(b) <= opts.out_cap)
      BY <1>1, <1>3, <1>6, <3>1 DEF Less
    <3>3. s = IF b.size > Less(opts.out_cap, h.out) THEN Fail(h, "ContentSizeTooLarge")
              ELSE IF t.err # None THEN t
              ELSE [t EXCEPT !.out = @ + b.size]
      BY <1>4, <1>10, <2>8
    <3>4. CASE ~(r.out + Stands(b) <= opts.out_cap)
      BY <1>7, <1>8, <3>2, <3>3, <3>4 DEF goal
    <3>5. CASE r.out + Stands(b) <= opts.out_cap /\ t.err # None
      BY <2>4, <2>6, <3>2, <3>3, <3>5 DEF goal
    <3>6. CASE r.out + Stands(b) <= opts.out_cap /\ t.err = None
      <4>1. s = [t EXCEPT !.out = @ + b.size]
        BY <3>2, <3>3, <3>6
      <4>2. s \in Decoding /\ s.err = None /\ s.saw_zstd = r.saw_zstd /\ s.pos = r.pos + n
            /\ s.out = r.out + Stands(b)
        BY <1>1, <1>3, <2>3, <2>5, <3>1, <3>6, <4>1 DEF Decoding
      <4> QED BY <2>4, <3>1, <3>6, <4>2 DEF goal
    <3> QED BY <3>4, <3>5, <3>6
  <2>9. CASE ~(b.size > BlockMax(f)) /\ b.ty = "compressed"
    <3>1. Stands(b) = b.regen /\ (BlockSound(f, b) <=> b.regen <= BlockMax(f))
      BY <1>2, <1>3, <2>1, <2>9 DEF Stands, BlockSound
    <3>2. s = IF t.err # None THEN t
              ELSE IF b.regen > BlockMax(f) THEN Fail(t, "Corruption")
              ELSE IF t.out + b.regen > opts.out_cap
                THEN Fail([t EXCEPT !.out = @ + b.regen], "ContentSizeTooLarge")
              ELSE [t EXCEPT !.out = @ + b.regen]
      BY <1>4, <1>10, <2>9
    <3>3. CASE t.err # None
      BY <2>4, <2>6, <3>2, <3>3 DEF goal
    <3>4. CASE t.err = None /\ b.regen > BlockMax(f)
      <4>1. s = [t EXCEPT !.err = "Corruption"]
        BY <3>2, <3>4 DEF Fail
      <4>2. Failed(r, s, opts.out_cap + BlockSizeMax)
        BY <1>1, <1>8, <2>3, <4>1 DEF Failed, Decoding
      <4>3. ~BlockSound(f, b)
        BY <1>2, <1>3, <3>1, <3>4
      <4> QED BY <4>2, <4>3 DEF goal
    <3>5. CASE t.err = None /\ ~(b.regen > BlockMax(f))
      <4> DEFINE u == [t EXCEPT !.out = @ + b.regen]
      <4>1. u \in Decoding /\ u.err = None /\ u.saw_zstd = r.saw_zstd /\ u.pos = r.pos + n
            /\ u.out = r.out + Stands(b)
        BY <1>1, <1>3, <2>3, <2>5, <3>1, <3>5 DEF Decoding
      <4>2. s = IF t.out + b.regen > opts.out_cap THEN Fail(u, "ContentSizeTooLarge") ELSE u
        BY <3>2, <3>5
      <4>3. BlockSound(f, b) /\ r.pos + n <= src.len
        BY <1>2, <1>3, <2>4, <3>1, <3>5
      <4> HIDE DEF u
      <4>4. CASE r.out + Stands(b) <= opts.out_cap
        <5>1. s = u
          BY <1>1, <1>3, <2>3, <3>1, <4>2, <4>4
        <5> QED BY <4>1, <4>3, <4>4, <5>1 DEF goal
      <4>5. CASE ~(r.out + Stands(b) <= opts.out_cap)
        <5>1. s = [u EXCEPT !.err = "ContentSizeTooLarge"]
          BY <1>1, <1>3, <2>3, <3>1, <4>2, <4>5 DEF Fail
        <5>2. Failed(r, s, opts.out_cap + BlockSizeMax)
          <6>1. r.out <= u.out /\ u.out <= opts.out_cap + BlockSizeMax
            BY <1>1, <1>2, <1>3, <3>1, <3>5, <4>1
          <6> QED BY <1>8, <4>1, <5>1, <6>1 DEF Failed, Decoding
        <5> QED BY <4>5, <5>2 DEF goal
      <4> QED BY <4>4, <4>5
    <3> QED BY <3>3, <3>4, <3>5
  <2> QED BY <2>7, <2>8, <2>9
<1> QED BY <1>9, <1>10

\* A decoder whose output is within its limit as long as it goes on.
Within(opts) == {d \in Decoding : d.err = None => d.out <= opts.out_cap}

\* A step over one block, if there was no error.
DecodeStep(src, f, opts, d, b) == IF d.err # None THEN d ELSE DecodeBlock(src, f, opts, d, b)

\* The blocks of a frame are decoded one after another.
DecodeRun(src, f, opts, r, g) ==
  /\ g \in [0..Len(f.blocks) -> Within(opts)] /\ g[0] = r
  /\ \A k \in 1..Len(f.blocks) : g[k] = DecodeStep(src, f, opts, g[k - 1], f.blocks[k])

\* Where the loop over the blocks of a frame ends.
LoopEnd(f, e) == IF e.err = None /\ ~f.blocks[Len(f.blocks)].last THEN Fail(e, "UnexpectedEof") ELSE e

\* The blocks of a frame.
LEMMA FrameBlocks ==
  ASSUME NEW f \in ZstdFrame
  PROVE  /\ f.blocks \in Seq(Block) /\ Len(f.blocks) \in Nat \ {0}
         /\ \A k \in 1..Len(f.blocks) : f.blocks[k] \in Block
<1>1. f.blocks \in Seq(Block) /\ f.blocks # <<>>
  BY DEF ZstdFrame, BlocksOfFrame
<1>2. Len(f.blocks) \in Nat /\ \A k \in 1..Len(f.blocks) : f.blocks[k] \in Block
  BY <1>1, SeqHas
<1>3. Len(f.blocks) # 0
  BY <1>1
<1> QED BY <1>1, <1>2, <1>3

LEMMA DecodeStepIn ==
  ASSUME NEW src, src.len \in Nat, NEW f \in ZstdFrame, NEW opts \in Options,
         NEW d \in Within(opts), NEW b \in Block
  PROVE  DecodeStep(src, f, opts, d, b) \in Within(opts)
<1>1. CASE d.err # None
  BY <1>1 DEF DecodeStep
<1>2. CASE d.err = None
  <2>1. d \in Decoding /\ d.out <= opts.out_cap
    BY <1>2 DEF Within
  <2>2. \/ /\ d.out + Stands(b) <= opts.out_cap
           /\ DecodeBlock(src, f, opts, d, b) \in Decoding
           /\ DecodeBlock(src, f, opts, d, b).out = d.out + Stands(b)
        \/ Failed(d, DecodeBlock(src, f, opts, d, b), opts.out_cap + BlockSizeMax)
    BY <1>2, <2>1, DecodeBlockIs
  <2>3. DecodeStep(src, f, opts, d, b) = DecodeBlock(src, f, opts, d, b)
    BY <1>2 DEF DecodeStep
  <2> QED BY <2>2, <2>3 DEF Within, Failed
<1> QED BY <1>1, <1>2

\* What decoding the blocks of a frame comes to.
Decoded(src, f, opts, r) == Blocks(src, f, LAMBDA a, b : DecodeBlock(src, f, opts, a, b), r)

LEMMA DecodeRuns ==
  ASSUME NEW src, src.len \in Nat, NEW f \in ZstdFrame, NEW opts \in Options, NEW r \in Within(opts)
  PROVE  \E g : /\ DecodeRun(src, f, opts, r, g)
                /\ Decoded(src, f, opts, r) = LoopEnd(f, g[Len(f.blocks)])
<1> DEFINE n == Len(f.blocks)
           X == Within(opts)
           F == [p \in (1..n) \X X |-> DecodeStep(src, f, opts, p[2], f.blocks[p[1]])]
           body(g) == [i \in 0..n |->
                         IF i = 0 THEN r
                         ELSE IF g[i - 1].err # None THEN g[i - 1]
                         ELSE DecodeBlock(src, f, opts, g[i - 1], f.blocks[i])]
           after == CHOOSE g : g = body(g)
<1>1. n \in Nat \ {0} /\ \A k \in 1..n : f.blocks[k] \in Block
  BY FrameBlocks
<1> HIDE DEF X
<1>2. \A k \in 1..n, d \in X : DecodeStep(src, f, opts, d, f.blocks[k]) \in X
  BY <1>1, DecodeStepIn DEF X
<1> HIDE DEF n
<1>3. F \in [(1..n) \X X -> X] /\ r \in X
  BY <1>2 DEF X
<1>4. \A k \in 1..n, d \in X : F[<<k, d>>] = DecodeStep(src, f, opts, d, f.blocks[k])
  OBVIOUS
<1> HIDE DEF F
<1>5. PICK g \in [0..n -> X] : g[0] = r /\ \A k \in 1..n : g[k] = F[<<k, g[k - 1]>>]
  <2>1. Iterated(n, X, r, F)
    BY <1>1, <1>3, Iterates
  <2> QED BY <2>1 DEF Iterated
<1>6. \A k \in 1..n : g[k] = DecodeStep(src, f, opts, g[k - 1], f.blocks[k])
  <2> SUFFICES ASSUME NEW k \in 1..n PROVE g[k] = DecodeStep(src, f, opts, g[k - 1], f.blocks[k])
    OBVIOUS
  <2>1. k - 1 \in 0..n
    BY <1>1
  <2> QED BY <1>4, <1>5, <2>1
<1>7. g = body(g)
  <2>1. g = [i \in 0..n |-> g[i]]
    BY <1>5
  <2>2. ASSUME NEW i \in 0..n
        PROVE  g[i] = IF i = 0 THEN r
                      ELSE IF g[i - 1].err # None THEN g[i - 1]
                      ELSE DecodeBlock(src, f, opts, g[i - 1], f.blocks[i])
    <3>1. CASE i = 0
      BY <1>5, <3>1
    <3>2. CASE i # 0
      <4>1. i \in 1..n
        BY <3>2
      <4> QED BY <1>6, <3>2, <4>1, Zenon DEF DecodeStep
    <3> QED BY <3>1, <3>2
  <2> QED BY <2>1, <2>2, Zenon
<1>8. after = body(after)
  <2> HIDE DEF body
  <2> QED BY <1>7
<1>9. \A i \in 0..n : after[i] = IF i = 0 THEN r
                                 ELSE IF after[i - 1].err # None THEN after[i - 1]
                                 ELSE DecodeBlock(src, f, opts, after[i - 1], f.blocks[i])
  <2>1. \A i \in 0..n : body(after)[i] = IF i = 0 THEN r
                                 ELSE IF after[i - 1].err # None THEN after[i - 1]
                                 ELSE DecodeBlock(src, f, opts, after[i - 1], f.blocks[i])
    <3> HIDE DEF after
    <3> QED BY Zenon
  <2> HIDE DEF after, body
  <2> QED BY <1>8, <2>1
<1>10. Decoded(src, f, opts, r)
         = IF after[n].err = None /\ ~f.blocks[n].last THEN Fail(after[n], "UnexpectedEof") ELSE after[n]
  BY Zenon DEF Decoded, Blocks, n
<1> HIDE DEF after, body
<1>11. \A k \in 0..n : after[k] = g[k]
  <2>1. ASSUME NEW k \in 1..n, after[k - 1] = g[k - 1] PROVE after[k] = g[k]
    <3>1. k \in 0..n /\ k # 0
      OBVIOUS
    <3> QED BY <1>6, <1>9, <2>1, <3>1, Zenon DEF DecodeStep
  <2>2. 0 \in 0..n
    BY <1>1
  <2>3. after[0] = g[0]
    BY <1>5, <1>9, <2>2, Zenon
  <2>4. StepAlike(n, after, g)
    BY <2>1, <2>3 DEF StepAlike
  <2> QED BY <1>1, <2>4, Alike DEF AlikeTo
<1>12. after[n] = g[n]
  BY <1>1, <1>11
<1>13. DecodeRun(src, f, opts, r, g)
  BY <1>5, <1>6 DEF DecodeRun, n, X
<1>14. Decoded(src, f, opts, r) = LoopEnd(f, g[n])
  BY <1>10, <1>12, Zenon DEF LoopEnd, n
<1> QED BY <1>13, <1>14 DEF n

\* What holds first and goes on from each to the next holds throughout.
LEMMA Throughout ==
  ASSUME NEW n \in Nat, NEW S, 0 \in S, \A k \in 1..n : k - 1 \in S => k \in S
  PROVE  \A k \in 0..n : k \in S
<1> DEFINE T == {k \in Nat : k <= n => k \in S}
<1>1. 0 \in T
  OBVIOUS
<1>2. ASSUME NEW k \in T PROVE k + 1 \in T
  <2>1. CASE k + 1 <= n
    <3>1. k + 1 \in 1..n /\ (k + 1) - 1 = k /\ k <= n
      BY <2>1
    <3> QED BY <3>1
  <2>2. CASE ~(k + 1 <= n)
    BY <2>2
  <2> QED BY <2>1, <2>2
<1>3. T \in SUBSET Nat
  OBVIOUS
<1> HIDE DEF T
<1>4. T = Nat
  BY <1>1, <1>2, <1>3, NatSet
<1> QED BY <1>4 DEF T

\* How long the blocks of a frame are, and how many bytes each stands for.
Lens(f) == [i \in DOMAIN f.blocks |-> BlockHeader + PayloadLen(f.blocks[i])]
Stood(f) == [i \in DOMAIN f.blocks |-> Stands(f.blocks[i])]
Sound(f, k) == \A i \in 1..k : BlockSound(f, f.blocks[i])

\* A sequence of numbers, one for each element of another.
LEMMA NumbersSeq ==
  ASSUME NEW n \in Nat, NEW s, s = [i \in 1..n |-> s[i]], \A i \in 1..n : s[i] \in Nat
  PROVE  s \in Seq(Nat) /\ Len(s) = n
<1>1. [i \in 1..n |-> s[i]] \in Seq(Nat) /\ Len([i \in 1..n |-> s[i]]) = n
  OBVIOUS
<1> QED BY <1>1, Zenon

LEMMA LensAre ==
  ASSUME NEW f \in ZstdFrame
  PROVE  /\ Lens(f) \in Seq(Nat) /\ Len(Lens(f)) = Len(f.blocks)
         /\ Stood(f) \in Seq(Nat) /\ Len(Stood(f)) = Len(f.blocks)
         /\ \A k \in 1..Len(f.blocks) :
              /\ Lens(f)[k] = BlockHeader + PayloadLen(f.blocks[k])
              /\ Stood(f)[k] = Stands(f.blocks[k])
<1>1. PICK n \in Nat : n = Len(f.blocks)
  BY FrameBlocks
<1>2. DOMAIN f.blocks = 1..n /\ \A k \in 1..n : f.blocks[k] \in Block
  BY <1>1, FrameBlocks
<1>3. \A k \in 1..n : Lens(f)[k] = BlockHeader + PayloadLen(f.blocks[k])
                      /\ Stood(f)[k] = Stands(f.blocks[k])
  BY <1>2 DEF Lens, Stood
<1>4. Lens(f) = [i \in 1..n |-> Lens(f)[i]] /\ Stood(f) = [i \in 1..n |-> Stood(f)[i]]
  BY <1>2 DEF Lens, Stood
<1>5. \A k \in 1..n : BlockHeader + PayloadLen(f.blocks[k]) \in Nat /\ Stands(f.blocks[k]) \in Nat
  BY <1>2, BlockHas DEF BlockHeader, Stands
<1>6. Lens(f) \in Seq(Nat) /\ Len(Lens(f)) = n
  BY <1>3, <1>4, <1>5, NumbersSeq
<1>7. Stood(f) \in Seq(Nat) /\ Len(Stood(f)) = n
  BY <1>3, <1>4, <1>5, NumbersSeq
<1> QED BY <1>1, <1>3, <1>6, <1>7

\* How the sums over the blocks go on.
LEMMA BlockSums ==
  ASSUME NEW f \in ZstdFrame
  PROVE  /\ SumTo(Lens(f), 0) = 0 /\ SumTo(Stood(f), 0) = 0
         /\ SumTo(Lens(f), Len(f.blocks)) = BlocksLen(f.blocks)
         /\ SumTo(Stood(f), Len(f.blocks)) = SumOf(Stood(f))
         /\ \A k \in 0..Len(f.blocks) : SumTo(Lens(f), k) \in Nat /\ SumTo(Stood(f), k) \in Nat
         /\ \A k \in 1..Len(f.blocks) :
              /\ SumTo(Lens(f), k) = SumTo(Lens(f), k - 1) + (BlockHeader + PayloadLen(f.blocks[k]))
              /\ SumTo(Stood(f), k) = SumTo(Stood(f), k - 1) + Stands(f.blocks[k])
<1>1. BlocksLen(f.blocks) = SumOf(Lens(f))
  BY Zenon DEF BlocksLen, Lens
<1> QED BY <1>1, LensAre, SumToIs

\* After k blocks: the decoder goes on exactly if they were sound, there and within
\* the limit.
DecodedTo(src, f, opts, r, g, k) ==
  /\ g[k].saw_zstd = r.saw_zstd /\ r.out <= g[k].out /\ g[k].out <= opts.out_cap + BlockSizeMax
  /\ g[k].err = None <=> /\ Sound(f, k) /\ r.pos + SumTo(Lens(f), k) <= src.len
                         /\ r.out + SumTo(Stood(f), k) <= opts.out_cap
  /\ g[k].err = None => /\ g[k].pos = r.pos + SumTo(Lens(f), k)
                        /\ g[k].out = r.out + SumTo(Stood(f), k)

LEMMA DecodedToAll ==
  ASSUME NEW src, src.len \in Nat, NEW f \in ZstdFrame, NEW opts \in Options,
         NEW r \in Decoding, r.err = None, r.pos <= src.len, r.out <= opts.out_cap,
         NEW g, DecodeRun(src, f, opts, r, g)
  PROVE  \A k \in 0..Len(f.blocks) : DecodedTo(src, f, opts, r, g, k)
<1>1. PICK n \in Nat : n = Len(f.blocks)
  BY FrameBlocks
<1>2. /\ SumTo(Lens(f), 0) = 0 /\ SumTo(Stood(f), 0) = 0
      /\ \A k \in 0..n : SumTo(Lens(f), k) \in Nat /\ SumTo(Stood(f), k) \in Nat
      /\ \A k \in 1..n :
           /\ SumTo(Lens(f), k) = SumTo(Lens(f), k - 1) + (BlockHeader + PayloadLen(f.blocks[k]))
           /\ SumTo(Stood(f), k) = SumTo(Stood(f), k - 1) + Stands(f.blocks[k])
  BY <1>1, BlockSums
<1>3. \A k \in 1..n : /\ f.blocks[k] \in Block /\ PayloadLen(f.blocks[k]) \in Nat
                      /\ Stands(f.blocks[k]) \in Nat
  BY <1>1, FrameBlocks, BlockHas DEF Stands
<1>4. /\ \A k \in 0..n : g[k] \in Within(opts)
      /\ g[0] = r /\ \A k \in 1..n : g[k] = DecodeStep(src, f, opts, g[k - 1], f.blocks[k])
  BY <1>1 DEF DecodeRun
<1>5. r.pos \in Nat /\ r.out \in Nat /\ opts.out_cap \in Nat /\ BlockSizeMax \in Nat
  BY LimitConstant, HeaderConstants DEF Decoding, Options
<1> DEFINE S == {k \in 0..n : DecodedTo(src, f, opts, r, g, k)}
<1>6. 0 \in S
  <2>1. Sound(f, 0)
    BY DEF Sound
  <2> QED BY <1>2, <1>4, <1>5, <2>1 DEF DecodedTo
<1>7. ASSUME NEW k \in 1..n, k - 1 \in S PROVE k \in S
  <2> DEFINE d == g[k - 1]
             b == f.blocks[k]
             p == SumTo(Lens(f), k - 1)
             o == SumTo(Stood(f), k - 1)
             m == BlockHeader + PayloadLen(b)
  <2>1. k \in 0..n /\ k - 1 \in 0..n
    OBVIOUS
  <2>2. /\ d.saw_zstd = r.saw_zstd /\ r.out <= d.out /\ d.out <= opts.out_cap + BlockSizeMax
        /\ d.err = None <=> Sound(f, k - 1) /\ r.pos + p <= src.len /\ r.out + o <= opts.out_cap
        /\ d.err = None => d.pos = r.pos + p /\ d.out = r.out + o
    BY <1>7 DEF DecodedTo
  <2>3. p \in Nat /\ o \in Nat /\ m \in Nat /\ Stands(b) \in Nat /\ b \in Block
    BY <1>2, <1>3, <2>1 DEF BlockHeader
  <2>4. SumTo(Lens(f), k) = p + m /\ SumTo(Stood(f), k) = o + Stands(b)
    BY <1>2
  <2>5. Sound(f, k) <=> Sound(f, k - 1) /\ BlockSound(f, b)
    <3>1. \A i : i \in 1..k <=> i \in 1..(k - 1) \/ i = k
      OBVIOUS
    <3> QED BY <3>1 DEF Sound
  <2>6. g[k] = DecodeStep(src, f, opts, d, b) /\ d \in Within(opts)
    BY <1>4, <2>1
  <2> HIDE DEF d, b, p, o, m, S
  <2>7. CASE d.err # None
    <3>1. g[k] = d
      BY <2>6, <2>7 DEF DecodeStep
    <3>2. ~(Sound(f, k) /\ r.pos + (p + m) <= src.len /\ r.out + (o + Stands(b)) <= opts.out_cap)
      BY <1>5, <2>2, <2>3, <2>5, <2>7
    <3>3. DecodedTo(src, f, opts, r, g, k)
      BY <2>2, <2>4, <2>7, <3>1, <3>2 DEF DecodedTo
    <3> QED BY <2>1, <3>3 DEF S
  <2>8. CASE d.err = None
    <3>1. d \in Decoding /\ d.out <= opts.out_cap /\ d.pos = r.pos + p /\ d.out = r.out + o
          /\ d.pos \in Nat /\ d.out \in Nat
      BY <2>2, <2>6, <2>8 DEF Within, Decoding
    <3> DEFINE s == DecodeBlock(src, f, opts, d, b)
    <3>2. g[k] = s
      BY <2>6, <2>8 DEF DecodeStep
    <3>3. \/ /\ BlockSound(f, b) /\ d.pos + m <= src.len /\ d.out + Stands(b) <= opts.out_cap
             /\ s \in Decoding /\ s.err = None /\ s.saw_zstd = d.saw_zstd
             /\ s.pos = d.pos + m /\ s.out = d.out + Stands(b)
          \/ /\ ~(BlockSound(f, b) /\ d.pos + m <= src.len /\ d.out + Stands(b) <= opts.out_cap)
             /\ Failed(d, s, opts.out_cap + BlockSizeMax)
      BY <2>3, <2>8, <3>1, DecodeBlockIs DEF m
    <3> HIDE DEF s
    <3>4. CASE BlockSound(f, b) /\ d.pos + m <= src.len /\ d.out + Stands(b) <= opts.out_cap
      <4>1. s.err = None /\ s.saw_zstd = d.saw_zstd /\ s.pos = d.pos + m /\ s.out = d.out + Stands(b)
        BY <3>3, <3>4
      <4>2. Sound(f, k) /\ r.pos + (p + m) <= src.len /\ r.out + (o + Stands(b)) <= opts.out_cap
        BY <1>5, <2>2, <2>3, <2>5, <2>8, <3>1, <3>4
      <4>3. s.pos = r.pos + (p + m) /\ s.out = r.out + (o + Stands(b)) /\ r.out <= s.out
            /\ s.out <= opts.out_cap + BlockSizeMax
        BY <1>5, <2>3, <3>1, <3>4, <4>1
      <4>4. DecodedTo(src, f, opts, r, g, k)
        BY <2>2, <2>4, <3>2, <4>1, <4>2, <4>3 DEF DecodedTo
      <4> QED BY <2>1, <4>4 DEF S
    <3>5. CASE ~(BlockSound(f, b) /\ d.pos + m <= src.len /\ d.out + Stands(b) <= opts.out_cap)
      <4>1. s.err # None /\ s.saw_zstd = d.saw_zstd /\ d.out <= s.out
            /\ s.out <= opts.out_cap + BlockSizeMax /\ s.out \in Nat
        BY <3>3, <3>5 DEF Failed
      <4>2. ~(Sound(f, k) /\ r.pos + (p + m) <= src.len /\ r.out + (o + Stands(b)) <= opts.out_cap)
        BY <1>5, <2>3, <2>5, <3>1, <3>5
      <4>3. r.out <= s.out
        BY <1>5, <2>3, <3>1, <4>1
      <4>4. DecodedTo(src, f, opts, r, g, k)
        BY <2>2, <2>4, <3>2, <4>1, <4>2, <4>3 DEF DecodedTo
      <4> QED BY <2>1, <4>4 DEF S
    <3> QED BY <3>4, <3>5
  <2> QED BY <2>7, <2>8
<1>8. \A k \in 0..n : k \in S
  <2> HIDE DEF S
  <2> QED BY <1>6, <1>7, Throughout
<1> QED BY <1>1, <1>8

\* How long a Zstd frame is behind its header.
BodyLen(f) == BlocksLen(f.blocks) + (IF f.checksum = "none" THEN 0 ELSE Checksum)

\* All of a frame that a decoder looks at before and between the bytes of its blocks.
HeaderSound(f, opts) ==
  f.window <= opts.window_max /\ (f.dict_id = None \/ f.dict_id = opts.dict)
FrameSound(f, opts) ==
  /\ HeaderSound(f, opts) /\ Sound(f, Len(f.blocks)) /\ f.blocks[Len(f.blocks)].last
  /\ f.checksum = "bad" => opts.ignore_checksum
  /\ f.content_size = None \/ f.content_size = SumOf(Stood(f))

\* A Zstd frame's fields.
LEMMA FrameHas ==
  ASSUME NEW f \in ZstdFrame
  PROVE  /\ f.kind = "zstd" /\ f.header_len \in Nat /\ f.reserved \in BOOLEAN /\ f.window \in Nat
         /\ f.dict_id \in Nat \cup {None} /\ f.content_size \in Nat \cup {None}
         /\ f.checksum \in {"none", "good", "bad"}
         /\ BlocksLen(f.blocks) \in Nat /\ SumOf(Stood(f)) \in Nat /\ BodyLen(f) \in Nat
         /\ \A k \in 1..Len(f.blocks) : f.blocks[k].last \in BOOLEAN
<1>1. PICK n \in Nat \ {0} : n = Len(f.blocks)
  BY FrameBlocks
<1>2. n \in 0..n
  OBVIOUS
<1>3. BlocksLen(f.blocks) \in Nat /\ SumOf(Stood(f)) \in Nat
  BY <1>1, <1>2, BlockSums
<1>4. \A k \in 1..Len(f.blocks) : f.blocks[k].last \in BOOLEAN
  BY FrameBlocks, BlockHas
<1>5. BodyLen(f) \in Nat
  BY <1>3 DEF BodyLen, Checksum
<1> QED BY <1>3, <1>4, <1>5 DEF ZstdFrame

\* What a header is refused for.
LEMMA HeaderRefusedIs ==
  ASSUME NEW f \in ZstdFrame, NEW opts \in Options, NEW r, r.out \in Nat, r.out <= opts.out_cap
  PROVE  LET e == HeaderRefused(f, r, opts)
         IN  /\ e = None \/ e \in Errors
             /\ e = None <=> /\ HeaderSound(f, opts)
                             /\ f.content_size = None \/ r.out + f.content_size <= opts.out_cap
             /\ ~HeaderSound(f, opts) => \A o \in Options : \A q :
                  (o.window_max = opts.window_max /\ o.dict = opts.dict) => HeaderRefused(f, q, o) = e
             /\ HeaderSound(f, opts) => e \in {None, "ContentSizeTooLarge"}
<1> DEFINE e == HeaderRefused(f, r, opts)
           last(q, o) == IF f.content_size # None /\ f.content_size > Less(o.out_cap, q.out)
                           THEN "ContentSizeTooLarge" ELSE None
           chain(q, o) == IF f.window > o.window_max THEN "WindowTooLarge"
                          ELSE IF f.dict_id # None /\ o.dict = None THEN "DictionaryNeeded"
                          ELSE IF f.dict_id # None /\ o.dict # f.dict_id THEN "DictionaryMismatch"
                          ELSE last(q, o)
<1>1. ASSUME NEW o \in Options, NEW q PROVE HeaderRefused(f, q, o) = chain(q, o)
  <2>1. f.window > o.window_max <=> ~(f.window <= o.window_max)
    BY FrameHas DEF Options
  <2>2. CASE f.window > o.window_max
    BY <2>1, <2>2, Zenon DEF HeaderRefused
  <2>3. CASE f.window <= o.window_max /\ f.dict_id # None /\ o.dict = None
    BY <2>1, <2>3, Zenon DEF HeaderRefused
  <2>4. CASE f.window <= o.window_max /\ f.dict_id # None /\ o.dict # None /\ o.dict # f.dict_id
    BY <2>1, <2>4, Zenon DEF HeaderRefused
  <2>5. CASE f.window <= o.window_max /\ (f.dict_id = None \/ (o.dict # None /\ o.dict = f.dict_id))
    BY <2>1, <2>5, Zenon DEF HeaderRefused
  <2> QED BY <2>1, <2>2, <2>3, <2>4, <2>5, Zenon
<1>2. e = chain(r, opts)
  BY <1>1, Zenon
<1>3. opts.window_max \in Nat /\ opts.out_cap \in Nat /\ f.window \in Nat
      /\ f.content_size \in Nat \cup {None} /\ None \notin Nat
  BY FrameHas, LimitConstant, FormatsAssumption DEF Options
<1> HIDE DEF e
<1>4. "WindowTooLarge" # None /\ "DictionaryNeeded" # None /\ "DictionaryMismatch" # None
      /\ "ContentSizeTooLarge" # None
  BY ErrorsAre DEF Errors
<1>5. HeaderSound(f, opts) => e = last(r, opts)
  BY <1>2, <1>3 DEF HeaderSound
<1>6. ~HeaderSound(f, opts) => e \in {"WindowTooLarge", "DictionaryNeeded", "DictionaryMismatch"}
  BY <1>2, <1>3 DEF HeaderSound
<1>7. last(r, opts) = None <=> f.content_size = None \/ r.out + f.content_size <= opts.out_cap
  BY <1>3, <1>4 DEF Less
<1>8. ~HeaderSound(f, opts) => \A o \in Options : \A q :
        (o.window_max = opts.window_max /\ o.dict = opts.dict) => HeaderRefused(f, q, o) = e
  <2> SUFFICES ASSUME ~HeaderSound(f, opts), NEW o \in Options, NEW q,
                      o.window_max = opts.window_max, o.dict = opts.dict
               PROVE  HeaderRefused(f, q, o) = e
    OBVIOUS
  <2>1. HeaderRefused(f, q, o) = chain(q, o)
    BY <1>1
  <2> QED BY <1>2, <1>3, <2>1 DEF HeaderSound
<1>9. e \in {None, "ContentSizeTooLarge"} \/ ~HeaderSound(f, opts)
  BY <1>5
<1> QED BY <1>4, <1>5, <1>6, <1>7, <1>8, <1>9 DEF e, Errors

\* The checksum behind the blocks.
LEMMA DecodeChecksumIs ==
  ASSUME NEW src, src.len \in Nat, NEW f \in ZstdFrame, NEW opts \in Options,
         NEW r \in Decoding, r.err = None, r.pos <= src.len
  PROVE  LET s == DecodeChecksum(src, f, opts, r)
             n == IF f.checksum = "none" THEN 0 ELSE Checksum
         IN  /\ s \in Decoding /\ s.saw_zstd = r.saw_zstd /\ s.out = r.out
             /\ s.err = None <=> r.pos + n <= src.len /\ (f.checksum = "bad" => opts.ignore_checksum)
             /\ s.err = None => s.pos = r.pos + n
<1> DEFINE s == DecodeChecksum(src, f, opts, r)
           t == Take(src, r, Checksum)
<1>1. s = IF f.checksum = "none" THEN r
          ELSE IF t.err = None /\ ~opts.ignore_checksum /\ f.checksum = "bad"
            THEN Fail(t, "ChecksumMismatch") ELSE t
  BY DEF DecodeChecksum
<1>2. /\ {"pos", "err"} \subseteq DOMAIN r /\ r.pos \in Nat /\ opts.ignore_checksum \in BOOLEAN
      /\ f.checksum \in {"none", "good", "bad"}
  BY FrameHas DEF Decoding, Options
<1>3. /\ r.pos + 4 <= src.len => Reaches(r, t, r.pos + 4, None)
      /\ ~(r.pos + 4 <= src.len) => Reaches(r, t, r.pos, "UnexpectedEof")
  BY <1>2, TakeIs DEF Checksum
<1>4. "UnexpectedEof" \in Errs \ {None} /\ "ChecksumMismatch" \in Errs \ {None} /\ None \in Errs
  BY ErrorsAre DEF Errors, Errs
<1> HIDE DEF t, s
<1>5. t \in Decoding /\ t.saw_zstd = r.saw_zstd /\ t.out = r.out
  <2>1. \A p \in Nat, e \in Errs : Reaches(r, t, p, e) => t \in Decoding
    BY ReachesIn
  <2>2. r.pos + 4 \in Nat
    BY <1>2
  <2>3. {"out", "saw_zstd"} \subseteq DOMAIN r \ {"pos", "err"}
    BY DEF Decoding
  <2>4. t \in Decoding
    BY <1>2, <1>3, <1>4, <2>1, <2>2
  <2>5. \A x \in {"out", "saw_zstd"} : t[x] = r[x]
    BY <1>3, <2>3 DEF Reaches
  <2> QED BY <2>4, <2>5
<1>6. t.err = None <=> r.pos + 4 <= src.len
  BY <1>3, <1>4 DEF Reaches
<1>7. t.err = None => t.pos = r.pos + 4
  BY <1>3, <1>4 DEF Reaches
<1>8. CASE f.checksum = "none"
  <2>1. s = r
    BY <1>1, <1>8
  <2>2. r.pos + 0 = r.pos
    BY <1>2
  <2> QED BY <1>8, <2>1, <2>2 DEF s
<1>9. CASE f.checksum # "none" /\ ~(t.err = None /\ ~opts.ignore_checksum /\ f.checksum = "bad")
  <2>1. s = t
    BY <1>1, <1>9
  <2> QED BY <1>5, <1>6, <1>7, <1>9, <2>1 DEF s, Checksum
<1>10. CASE f.checksum # "none" /\ t.err = None /\ ~opts.ignore_checksum /\ f.checksum = "bad"
  <2>1. s = [t EXCEPT !.err = "ChecksumMismatch"]
    BY <1>1, <1>10 DEF Fail
  <2>2. s \in Decoding /\ s.saw_zstd = r.saw_zstd /\ s.out = r.out /\ s.err # None
    BY <1>4, <1>5, <2>1 DEF Decoding
  <2> QED BY <1>10, <2>2 DEF s
<1> QED BY <1>8, <1>9, <1>10

\* A frame that decodes: it is sound, all of it is there and its content fits.
Decodes(src, f, opts, r) ==
  /\ FrameSound(f, opts) /\ r.pos + BodyLen(f) <= src.len
  /\ r.out + SumOf(Stood(f)) <= opts.out_cap

\* Failing keeps the rest of a decoder.
LEMMA FailDecoding ==
  ASSUME NEW d \in Decoding, NEW e \in Errs
  PROVE  /\ Fail(d, e) \in Decoding /\ Fail(d, e).err = e /\ Fail(d, e).out = d.out
         /\ Fail(d, e).saw_zstd = d.saw_zstd /\ Fail(d, e).pos = d.pos
BY DEF Fail, Decoding

\* A frame behind its header goes into the output whole, or decoding fails.
LEMMA DecodeZstdFrameIs ==
  ASSUME NEW src, src.len \in Nat, NEW f \in ZstdFrame, NEW opts \in Options,
         NEW r \in Decoding, r.err = None, r.pos <= src.len, r.out <= opts.out_cap
  PROVE  LET s == DecodeZstdFrame(src, f, opts, r)
         IN  \/ /\ Decodes(src, f, opts, r)
                /\ s \in Decoding /\ s.err = None /\ s.saw_zstd = r.saw_zstd
                /\ s.pos = r.pos + BodyLen(f) /\ s.out = r.out + SumOf(Stood(f))
             \/ ~Decodes(src, f, opts, r) /\ Failed(r, s, opts.out_cap + BlockSizeMax)
<1> DEFINE refused == HeaderRefused(f, r, opts)
           blocks == Decoded(src, f, opts, r)
           sum == DecodeChecksum(src, f, opts, blocks)
           s == DecodeZstdFrame(src, f, opts, r)
           size == SumOf(Stood(f))
           goal == \/ /\ Decodes(src, f, opts, r)
                      /\ s \in Decoding /\ s.err = None /\ s.saw_zstd = r.saw_zstd
                      /\ s.pos = r.pos + BodyLen(f) /\ s.out = r.out + size
                   \/ ~Decodes(src, f, opts, r) /\ Failed(r, s, opts.out_cap + BlockSizeMax)
<1> HIDE DEF goal
<1> SUFFICES goal
  BY DEF goal
<1>1. s = IF refused # None THEN Fail(r, refused) ELSE CheckContentSize(f, r, sum)
  BY Zenon DEF DecodeZstdFrame, Decoded
<1>2. /\ r.pos \in Nat /\ r.out \in Nat /\ opts.out_cap \in Nat /\ BlockSizeMax \in Nat
      /\ size \in Nat /\ BlocksLen(f.blocks) \in Nat /\ BodyLen(f) \in Nat
      /\ f.content_size \in Nat \cup {None} /\ None \notin Nat
      /\ f.checksum \in {"none", "good", "bad"}
  BY FrameHas, LimitConstant, HeaderConstants, FormatsAssumption DEF Decoding, Options
<1>3. /\ refused \in Errs
      /\ refused = None <=> /\ HeaderSound(f, opts)
                            /\ f.content_size = None \/ r.out + f.content_size <= opts.out_cap
  BY <1>2, HeaderRefusedIs DEF Errs
<1>4. PICK n \in Nat \ {0} : n = Len(f.blocks)
  BY FrameBlocks
<1> HIDE DEF refused, blocks, sum, s, size
<1>5. CASE refused # None
  <2>1. s = Fail(r, refused)
    BY <1>1, <1>5
  <2>2. Failed(r, s, opts.out_cap + BlockSizeMax)
    BY <1>2, <1>3, <1>5, <2>1, FailDecoding DEF Failed
  <2>3. ~Decodes(src, f, opts, r)
    BY <1>2, <1>3, <1>5 DEF Decodes, FrameSound, size
  <2> QED BY <2>2, <2>3 DEF goal
<1>6. CASE refused = None
  <2>1. s = CheckContentSize(f, r, sum)
    BY <1>1, <1>6
  <2>2. PICK g : DecodeRun(src, f, opts, r, g) /\ blocks = LoopEnd(f, g[n])
    <3>1. r \in Within(opts)
      BY DEF Within
    <3> QED BY <1>4, <3>1, DecodeRuns DEF blocks
  <2> DEFINE d == g[n]
  <2>3. d \in Decoding /\ n \in 0..n /\ f.blocks[n].last \in BOOLEAN
    BY <1>4, <2>2, FrameHas DEF DecodeRun, Within
  <2>4. DecodedTo(src, f, opts, r, g, n)
    BY <1>4, <2>2, <2>3, DecodedToAll
  <2>5. SumTo(Lens(f), n) = BlocksLen(f.blocks) /\ SumTo(Stood(f), n) = size
    BY <1>4, BlockSums DEF size
  <2>6. /\ d.saw_zstd = r.saw_zstd /\ r.out <= d.out /\ d.out <= opts.out_cap + BlockSizeMax
        /\ d.err = None <=> /\ Sound(f, n) /\ r.pos + BlocksLen(f.blocks) <= src.len
                            /\ r.out + size <= opts.out_cap
        /\ d.err = None => d.pos = r.pos + BlocksLen(f.blocks) /\ d.out = r.out + size
        /\ d.out \in Nat /\ d.pos \in Nat /\ d.err \in Errs
    BY <2>3, <2>4, <2>5 DEF DecodedTo, Decoding
  <2>7. blocks = IF d.err = None /\ ~f.blocks[n].last THEN Fail(d, "UnexpectedEof") ELSE d
    BY <1>4, <2>2 DEF LoopEnd
  <2>8. "UnexpectedEof" \in Errs \ {None} /\ "ContentSizeMismatch" \in Errs \ {None}
    BY ErrorsAre DEF Errors
  <2> HIDE DEF d
  <2>9. /\ blocks \in Decoding /\ blocks.saw_zstd = r.saw_zstd /\ blocks.out = d.out
        /\ blocks.err = None <=> d.err = None /\ f.blocks[n].last
        /\ blocks.err = None => blocks.pos = d.pos
    <3>1. CASE d.err = None /\ ~f.blocks[n].last
      BY <2>3, <2>6, <2>7, <2>8, <3>1, FailDecoding
    <3>2. CASE ~(d.err = None /\ ~f.blocks[n].last)
      BY <2>3, <2>6, <2>7, <3>2
    <3> QED BY <3>1, <3>2
  <2>10. CASE blocks.err # None
    <3>1. sum = blocks
      BY <2>10 DEF DecodeChecksum, sum
    <3>2. s = blocks
      BY <2>1, <2>10, <3>1 DEF CheckContentSize
    <3>3. Failed(r, s, opts.out_cap + BlockSizeMax)
      BY <2>6, <2>9, <2>10, <3>2 DEF Failed, Decoding
    <3>4. ~Decodes(src, f, opts, r)
      <4>1. ~(Sound(f, n) /\ r.pos + BlocksLen(f.blocks) <= src.len
              /\ r.out + size <= opts.out_cap /\ f.blocks[n].last)
        BY <2>6, <2>9, <2>10
      <4>2. r.pos + BodyLen(f) <= src.len => r.pos + BlocksLen(f.blocks) <= src.len
        BY <1>2 DEF BodyLen, Checksum
      <4> QED BY <1>4, <4>1, <4>2 DEF Decodes, FrameSound, size
    <3> QED BY <3>3, <3>4 DEF goal
  <2>11. CASE blocks.err = None
    <3> DEFINE m == IF f.checksum = "none" THEN 0 ELSE Checksum
    <3>1. /\ d.err = None /\ f.blocks[n].last /\ Sound(f, n)
          /\ blocks.pos = r.pos + BlocksLen(f.blocks)
          /\ blocks.out = r.out + size /\ blocks.out <= opts.out_cap /\ blocks.pos <= src.len
      BY <2>6, <2>9, <2>11
    <3>2. /\ sum \in Decoding /\ sum.saw_zstd = blocks.saw_zstd /\ sum.out = blocks.out
          /\ sum.err = None <=> blocks.pos + m <= src.len /\ (f.checksum = "bad" => opts.ignore_checksum)
          /\ sum.err = None => sum.pos = blocks.pos + m
      BY <2>9, <2>11, <3>1, DecodeChecksumIs DEF sum
    <3>3. blocks.pos + m = r.pos + BodyLen(f)
      BY <1>2, <3>1 DEF BodyLen, Checksum
    <3> HIDE DEF m
    <3>4. s = IF sum.err = None /\ f.content_size # None /\ sum.out - r.out # f.content_size
                THEN Fail(sum, "ContentSizeMismatch") ELSE sum
      BY <2>1 DEF CheckContentSize
    <3>5. sum.out - r.out = size
      BY <1>2, <3>1, <3>2
    <3>6. Decodes(src, f, opts, r)
            <=> sum.err = None /\ (f.content_size = None \/ f.content_size = size)
      <4>1. HeaderSound(f, opts)
        BY <1>3, <1>6
      <4> QED BY <1>4, <3>1, <3>2, <3>3, <4>1 DEF Decodes, FrameSound, size
    <3>7. CASE sum.err # None
      <4>1. s = sum /\ ~Decodes(src, f, opts, r)
        BY <3>4, <3>6, <3>7
      <4>2. Failed(r, s, opts.out_cap + BlockSizeMax)
        BY <1>2, <2>6, <2>9, <3>1, <3>2, <3>7, <4>1 DEF Failed, Decoding
      <4> QED BY <4>1, <4>2 DEF goal
    <3>8. CASE sum.err = None /\ f.content_size # None /\ f.content_size # size
      <4>1. s = Fail(sum, "ContentSizeMismatch") /\ ~Decodes(src, f, opts, r)
        BY <3>4, <3>5, <3>6, <3>8
      <4>2. s \in Decoding /\ s.err = "ContentSizeMismatch" /\ s.out = sum.out
            /\ s.saw_zstd = sum.saw_zstd
        BY <2>8, <3>2, <4>1, FailDecoding
      <4>3. Failed(r, s, opts.out_cap + BlockSizeMax)
        BY <1>2, <2>6, <2>8, <2>9, <3>1, <3>2, <4>2 DEF Failed, Decoding
      <4> QED BY <4>1, <4>3 DEF goal
    <3>9. CASE sum.err = None /\ (f.content_size = None \/ f.content_size = size)
      <4>1. s = sum /\ Decodes(src, f, opts, r)
        BY <3>4, <3>5, <3>6, <3>9
      <4>2. sum.saw_zstd = r.saw_zstd /\ sum.pos = r.pos + BodyLen(f) /\ sum.out = r.out + size
        BY <2>9, <3>1, <3>2, <3>3, <3>9
      <4> QED BY <3>2, <3>9, <4>1, <4>2 DEF goal
    <3> QED BY <3>7, <3>8, <3>9
  <2> QED BY <2>10, <2>11
<1> QED BY <1>5, <1>6

-----------------------------------------------------------------------------
(* The header of a frame, whatever reads it. *)

\* A reader fails here.
FailsAt(r, t) == \E p \in Nat, e \in Errors : p >= r.pos /\ Reaches(r, t, p, e)

\* The kinds of frames.
LEMMA FrameKinds ==
  ASSUME NEW f \in Frame
  PROVE  \/ f \in ZstdFrame /\ f.kind = "zstd"
         \/ f.kind = "skippable" /\ f.size \in Nat
         \/ f.kind = "garbage" /\ f.size \in Nat \ {0}
BY FrameHas DEF Frame

\* How long a frame and its header are.
LEMMA FrameLens ==
  ASSUME NEW f \in Frame
  PROVE  /\ HeaderLen(f) \in Nat /\ FrameLen(f) \in Nat \ {0} /\ HeaderLen(f) <= FrameLen(f)
         /\ f.kind = "zstd" => HeaderLen(f) = 4 + f.header_len /\ FrameLen(f) = HeaderLen(f) + BodyLen(f)
         /\ f.kind = "skippable" => HeaderLen(f) = 8 /\ FrameLen(f) = 8 + f.size
<1>1. CASE f \in ZstdFrame /\ f.kind = "zstd"
  <2>1. HeaderLen(f) = Magic + f.header_len
    BY <1>1, Zenon DEF HeaderLen
  <2>2. FrameLen(f) = HeaderLen(f) + BlocksLen(f.blocks) + (IF f.checksum = "none" THEN 0 ELSE Checksum)
    BY <1>1, Zenon DEF FrameLen
  <2>3. BlocksLen(f.blocks) \in Nat /\ BodyLen(f) \in Nat /\ f.header_len \in Nat
    BY <1>1, FrameHas
  <2> QED BY <1>1, <2>1, <2>2, <2>3 DEF Magic, Checksum, BodyLen
<1>2. CASE f.kind = "skippable" /\ f.size \in Nat
  <2>1. "skippable" # "zstd"
    OBVIOUS
  <2>2. HeaderLen(f) = Magic + 4
    BY <1>2, <2>1, Zenon DEF HeaderLen
  <2>3. FrameLen(f) = HeaderLen(f) + f.size
    BY <1>2, <2>1, Zenon DEF FrameLen
  <2> QED BY <1>2, <2>2, <2>3 DEF Magic
<1>3. CASE f.kind = "garbage" /\ f.size \in Nat \ {0}
  <2>1. "garbage" # "zstd" /\ "garbage" # "skippable"
    OBVIOUS
  <2>2. HeaderLen(f) = f.size
    BY <1>3, <2>1, Zenon DEF HeaderLen
  <2>3. FrameLen(f) = f.size
    BY <1>3, <2>1, Zenon DEF FrameLen
  <2> QED BY <1>3, <2>2, <2>3
<1> QED BY <1>1, <1>2, <1>3, FrameKinds

\* A frame whose header is read if it is there.
Begun(f) == f.kind = "skippable" \/ (f.kind = "zstd" /\ ~f.reserved)

LEMMA ParseKindIs ==
  ASSUME NEW src, src.len \in Nat, NEW r \in Reading, r.err = None, r.pos <= src.len, NEW f \in Frame
  PROVE  LET t == ParseKind(src, r, f)
         IN  \/ /\ Begun(f) /\ r.pos + HeaderLen(f) <= src.len
                /\ Reaches(r, t, r.pos + HeaderLen(f), None)
             \/ ~(Begun(f) /\ r.pos + HeaderLen(f) <= src.len) /\ FailsAt(r, t)
<1> DEFINE m == Take(src, r, Magic)
           t == ParseKind(src, r, f)
           h == HeaderLen(f)
           u == Take(src, r, h)
           goal == \/ Begun(f) /\ r.pos + h <= src.len /\ Reaches(r, t, r.pos + h, None)
                   \/ ~(Begun(f) /\ r.pos + h <= src.len) /\ FailsAt(r, t)
<1> HIDE DEF goal
<1> SUFFICES goal
  BY DEF goal
<1>1. {"pos", "err"} \subseteq DOMAIN r /\ r.pos \in Nat /\ h \in Nat
  BY ReadingHas, FrameLens
<1>2. /\ r.pos + 4 <= src.len => Reaches(r, m, r.pos + 4, None)
      /\ ~(r.pos + 4 <= src.len) => Reaches(r, m, r.pos, "UnexpectedEof")
  BY <1>1, TakeIs DEF Magic
<1> HIDE DEF h
<1>3. /\ r.pos + h <= src.len => Reaches(r, u, r.pos + h, None)
      /\ ~(r.pos + h <= src.len) => Reaches(r, u, r.pos, "UnexpectedEof")
  BY <1>1, TakeIs
<1>4. \A e \in Errors : e # None
  BY ErrorsAre
<1>5. "UnexpectedEof" \in Errors /\ "BadMagic" \in Errors /\ "ReservedBitSet" \in Errors
  BY DEF Errors
<1>6. Begun(f) => 4 <= h
  <2>1. f \in ZstdFrame => f.header_len \in Nat
    BY FrameHas
  <2> QED BY <1>1, <2>1, FrameLens, FrameKinds DEF Begun, h
<1>7. m.err = None => {"pos", "err"} \subseteq DOMAIN m /\ m.pos = r.pos + 4 /\ r.pos + 4 <= src.len
  BY <1>1, <1>2, <1>4, <1>5 DEF Reaches
<1>8. ASSUME NEW e \in Errors, m.err = None PROVE FailsAt(r, Fail(m, e))
  <2>1. Reaches(m, Fail(m, e), m.pos, e)
    BY <1>7, <1>8, FailIs
  <2>2. Reaches(r, m, r.pos + 4, None)
    BY <1>2, <1>7, <1>8
  <2>3. Reaches(r, Fail(m, e), m.pos, e)
    BY <2>1, <2>2, ReachesOn
  <2>4. m.pos \in Nat /\ m.pos >= r.pos
    BY <1>1, <1>7, <1>8
  <2> QED BY <2>3, <2>4 DEF FailsAt
<1>9. CASE m.err # None
  <2>1. t = m
    BY <1>9, Zenon DEF ParseKind
  <2>2. ~(r.pos + 4 <= src.len) /\ Reaches(r, m, r.pos, "UnexpectedEof")
    BY <1>2, <1>9 DEF Reaches
  <2>3. FailsAt(r, t)
    BY <1>1, <1>5, <2>1, <2>2 DEF FailsAt
  <2>4. ~(Begun(f) /\ r.pos + h <= src.len)
    BY <1>1, <1>6, <2>2
  <2> QED BY <2>3, <2>4 DEF goal
<1>10. CASE m.err = None /\ f.kind = "garbage"
  <2>1. t = Fail(m, "BadMagic")
    <3>1. "garbage" # "zstd"
      OBVIOUS
    <3> QED BY <1>10, <3>1, Zenon DEF ParseKind
  <2>2. ~Begun(f)
    BY <1>10 DEF Begun
  <2> QED BY <1>5, <1>8, <1>10, <2>1, <2>2 DEF goal
<1>11. CASE m.err = None /\ f.kind = "zstd" /\ f.reserved
  <2>1. t = Fail(m, "UnexpectedEof") \/ t = Fail(m, "ReservedBitSet")
    <3>1. "garbage" # "zstd"
      OBVIOUS
    <3>2. t = IF Remaining(src, m) = 0 THEN Fail(m, "UnexpectedEof") ELSE Fail(m, "ReservedBitSet")
      BY <1>11, <3>1, Zenon DEF ParseKind
    <3> QED BY <3>2, Zenon
  <2>2. ~Begun(f)
    BY <1>11 DEF Begun
  <2> QED BY <1>5, <1>8, <1>11, <2>1, <2>2 DEF goal
<1>12. CASE m.err = None /\ Begun(f)
  <2>1. t = u
    <3>1. ~(f.kind = "garbage") /\ ~(f.kind = "zstd" /\ f.reserved)
      BY <1>12 DEF Begun
    <3> QED BY <1>12, <3>1, Zenon DEF ParseKind, h
  <2>2. CASE r.pos + h <= src.len
    BY <1>3, <1>12, <2>1, <2>2 DEF goal
  <2>3. CASE ~(r.pos + h <= src.len)
    <3>1. Reaches(r, t, r.pos, "UnexpectedEof")
      BY <1>3, <2>1, <2>3
    <3>2. FailsAt(r, t)
      BY <1>1, <1>5, <3>1 DEF FailsAt
    <3> QED BY <2>3, <3>2 DEF goal
  <2> QED BY <2>2, <2>3
<1> QED BY <1>9, <1>10, <1>11, <1>12, FrameKinds DEF Begun

-----------------------------------------------------------------------------
(* Walks that skip blocks. *)

\* Failing, as any reader sees it.
LEMMA FailsHere ==
  ASSUME NEW r \in Reading, NEW t, NEW p \in Nat, p >= r.pos, NEW d, Reaches(r, t, p, d), NEW e \in Errors
  PROVE  FailsAt(r, Fail(t, e))
<1>1. {"pos", "err"} \subseteq DOMAIN r
  BY ReadingHas
<1>2. {"pos", "err"} \subseteq DOMAIN t /\ t.pos = p
  BY <1>1 DEF Reaches
<1>3. Reaches(t, Fail(t, e), p, e)
  BY <1>2, FailIs
<1>4. Reaches(r, Fail(t, e), p, e)
  BY <1>3, ReachesOn
<1> QED BY <1>4 DEF FailsAt

\* A block is skipped whole; a sound one that is there is skipped.
LEMMA SkipBlockIs ==
  ASSUME NEW src, src.len \in Nat, NEW f \in ZstdFrame, NEW r \in Reading, r.err = None, NEW b \in Block
  PROVE  LET s == SkipBlock(src, f, r, b)
             n == BlockHeader + PayloadLen(b)
         IN  \/ r.pos + n <= src.len /\ Reaches(r, s, r.pos + n, None)
             \/ ~(BlockSound(f, b) /\ r.pos + n <= src.len) /\ FailsAt(r, s)
<1> DEFINE h == ReadBlockHeader(src, r, b)
           t == Take(src, h, PayloadLen(b))
           s == SkipBlock(src, f, r, b)
           n == BlockHeader + PayloadLen(b)
           goal == \/ r.pos + n <= src.len /\ Reaches(r, s, r.pos + n, None)
                   \/ ~(BlockSound(f, b) /\ r.pos + n <= src.len) /\ FailsAt(r, s)
<1> HIDE DEF goal
<1> SUFFICES goal
  BY DEF goal
<1>1. /\ {"pos", "err"} \subseteq DOMAIN r /\ r.pos \in Nat /\ PayloadLen(b) \in Nat
      /\ b.size \in Nat /\ BlockMax(f) \in Nat /\ n = 3 + PayloadLen(b)
  BY ReadingHas, BlockHas, BlockMaxIs DEF BlockHeader
<1>2. "UnexpectedEof" \in Errors /\ "ReservedBlockType" \in Errors /\ "BlockTooLarge" \in Errors
  BY DEF Errors
<1>3. \A e \in Errors : e # None
  BY ErrorsAre
<1>4. \/ r.pos + 3 <= src.len /\ b.ty # "reserved" /\ Reaches(r, h, r.pos + 3, None)
      \/ r.pos + 3 <= src.len /\ b.ty = "reserved" /\ Reaches(r, h, r.pos + 3, "ReservedBlockType")
      \/ ~(r.pos + 3 <= src.len) /\ Reaches(r, h, r.pos, "UnexpectedEof")
  BY BlockHeaderIs
<1> HIDE DEF h, n
<1>5. CASE h.err # None
  <2>1. s = h
    BY <1>5, Zenon DEF SkipBlock, h
  <2>2. ~(r.pos + 3 <= src.len /\ b.ty # "reserved") /\ FailsAt(r, h)
    BY <1>1, <1>2, <1>3, <1>4, <1>5 DEF Reaches, FailsAt
  <2>3. ~(BlockSound(f, b) /\ r.pos + n <= src.len)
    BY <1>1, <2>2 DEF BlockSound
  <2> QED BY <2>1, <2>2, <2>3 DEF goal
<1>6. ASSUME h.err = None PROVE goal
  <2>1. Reaches(r, h, r.pos + 3, None) /\ {"pos", "err"} \subseteq DOMAIN h /\ h.pos = r.pos + 3
    BY <1>1, <1>2, <1>3, <1>4, <1>6 DEF Reaches
  <2>2. CASE b.ty # "rle" /\ b.size > BlockMax(f)
    <3>1. s = Fail(h, "BlockTooLarge")
      BY <1>6, <2>2, Zenon DEF SkipBlock, h
    <3>2. ~BlockSound(f, b)
      BY <1>1, <2>2 DEF BlockSound
    <3>3. FailsAt(r, s)
      <4> r.pos + 3 \in Nat /\ r.pos + 3 >= r.pos
        BY <1>1
      <4> QED BY <1>2, <2>1, <3>1, FailsHere
    <3> QED BY <3>2, <3>3 DEF goal
  <2>3. CASE ~(b.ty # "rle" /\ b.size > BlockMax(f))
    <3>1. s = t
      BY <1>6, <2>3, Zenon DEF SkipBlock, h
    <3>2. /\ h.pos + PayloadLen(b) <= src.len => Reaches(h, t, h.pos + PayloadLen(b), None)
          /\ ~(h.pos + PayloadLen(b) <= src.len) => Reaches(h, t, h.pos, "UnexpectedEof")
      BY <1>1, <1>6, <2>1, TakeIs
    <3>3. h.pos + PayloadLen(b) = r.pos + n
      BY <1>1, <2>1
    <3>4. CASE r.pos + n <= src.len
      BY <2>1, <3>1, <3>2, <3>3, <3>4, ReachesOn DEF goal
    <3>5. CASE ~(r.pos + n <= src.len)
      <4>1. Reaches(r, s, r.pos + 3, "UnexpectedEof")
        BY <2>1, <3>1, <3>2, <3>3, <3>5, ReachesOn
      <4>2. r.pos + 3 \in Nat /\ r.pos + 3 >= r.pos
        BY <1>1
      <4> QED BY <1>2, <3>5, <4>1, <4>2 DEF goal, FailsAt
    <3> QED BY <3>4, <3>5
  <2> QED BY <2>2, <2>3
<1> QED BY <1>5, <1>6

\* A step over one block, if there was no error.
SkipStep(src, f, d, b) == IF d.err # None THEN d ELSE SkipBlock(src, f, d, b)

\* A reader that fails stays of its kind.
LEMMA FailsIn ==
  ASSUME NEW X \in {Decoding, Listing, Sizing, Census}, NEW r \in X, NEW t, FailsAt(r, t)
  PROVE  t \in X /\ t.err \in Errors /\ t.err # None
<1>1. PICK p \in Nat, e \in Errors : Reaches(r, t, p, e)
  BY DEF FailsAt
<1>2. t \in X
  BY <1>1, ErrorsAre, ReachesIn
<1>3. t.err = e
  BY <1>1 DEF Reaches
<1> QED BY <1>1, <1>2, <1>3, ErrorsAre

LEMMA SkipStepIn ==
  ASSUME NEW src, src.len \in Nat, NEW f \in ZstdFrame, NEW d \in Listing, NEW b \in Block
  PROVE  SkipStep(src, f, d, b) \in Listing
<1>1. CASE d.err # None
  BY <1>1 DEF SkipStep
<1>2. CASE d.err = None
  <2> DEFINE s == SkipBlock(src, f, d, b)
             n == BlockHeader + PayloadLen(b)
  <2>1. d \in Reading /\ d.pos \in Nat /\ n \in Nat /\ None \in Errs
    BY BlockHas, ReadingHas DEF Reading, BlockHeader, Errs
  <2>2. Reaches(d, s, d.pos + n, None) \/ FailsAt(d, s)
    BY <1>2, <2>1, SkipBlockIs
  <2> HIDE DEF s, n
  <2>3. d.pos + n \in Nat
    BY <2>1
  <2>4. Listing \in {Decoding, Listing, Sizing, Census}
    OBVIOUS
  <2>5. s \in Listing
    BY <2>1, <2>2, <2>3, <2>4, ReachesIn, FailsIn
  <2> QED BY <1>2, <2>5 DEF SkipStep, s
<1> QED BY <1>1, <1>2

\* The blocks of a frame are skipped one after another.
SkipRun(src, f, r, g) ==
  /\ g \in [0..Len(f.blocks) -> Listing] /\ g[0] = r
  /\ \A k \in 1..Len(f.blocks) : g[k] = SkipStep(src, f, g[k - 1], f.blocks[k])

\* What skipping the blocks of a frame comes to.
Skipped(src, f, r) == Blocks(src, f, LAMBDA a, b : SkipBlock(src, f, a, b), r)

LEMMA SkipRuns ==
  ASSUME NEW src, src.len \in Nat, NEW f \in ZstdFrame, NEW r \in Listing
  PROVE  \E g : SkipRun(src, f, r, g) /\ Skipped(src, f, r) = LoopEnd(f, g[Len(f.blocks)])
<1> DEFINE n == Len(f.blocks)
           F == [p \in (1..n) \X Listing |-> SkipStep(src, f, p[2], f.blocks[p[1]])]
           body(g) == [i \in 0..n |->
                         IF i = 0 THEN r
                         ELSE IF g[i - 1].err # None THEN g[i - 1]
                         ELSE SkipBlock(src, f, g[i - 1], f.blocks[i])]
           after == CHOOSE g : g = body(g)
<1>1. n \in Nat \ {0} /\ \A k \in 1..n : f.blocks[k] \in Block
  BY FrameBlocks
<1>2. \A k \in 1..n, d \in Listing : SkipStep(src, f, d, f.blocks[k]) \in Listing
  BY <1>1, SkipStepIn
<1> HIDE DEF n
<1>3. F \in [(1..n) \X Listing -> Listing]
  BY <1>2
<1>4. \A k \in 1..n, d \in Listing : F[<<k, d>>] = SkipStep(src, f, d, f.blocks[k])
  OBVIOUS
<1> HIDE DEF F
<1>5. PICK g \in [0..n -> Listing] : g[0] = r /\ \A k \in 1..n : g[k] = F[<<k, g[k - 1]>>]
  <2>1. Iterated(n, Listing, r, F)
    BY <1>1, <1>3, Iterates
  <2> QED BY <2>1 DEF Iterated
<1>6. \A k \in 1..n : g[k] = SkipStep(src, f, g[k - 1], f.blocks[k])
  <2> SUFFICES ASSUME NEW k \in 1..n PROVE g[k] = SkipStep(src, f, g[k - 1], f.blocks[k])
    OBVIOUS
  <2>1. k - 1 \in 0..n
    BY <1>1
  <2> QED BY <1>4, <1>5, <2>1
<1>7. g = body(g)
  <2>1. g = [i \in 0..n |-> g[i]]
    BY <1>5
  <2>2. ASSUME NEW i \in 0..n
        PROVE  g[i] = IF i = 0 THEN r
                      ELSE IF g[i - 1].err # None THEN g[i - 1]
                      ELSE SkipBlock(src, f, g[i - 1], f.blocks[i])
    <3>1. CASE i = 0
      BY <1>5, <3>1
    <3>2. CASE i # 0
      <4>1. i \in 1..n
        BY <3>2
      <4> QED BY <1>6, <3>2, <4>1, Zenon DEF SkipStep
    <3> QED BY <3>1, <3>2
  <2> QED BY <2>1, <2>2, Zenon
<1>8. after = body(after)
  <2> HIDE DEF body
  <2> QED BY <1>7
<1>9. \A i \in 0..n : after[i] = IF i = 0 THEN r
                                 ELSE IF after[i - 1].err # None THEN after[i - 1]
                                 ELSE SkipBlock(src, f, after[i - 1], f.blocks[i])
  <2>1. \A i \in 0..n : body(after)[i] = IF i = 0 THEN r
                                 ELSE IF after[i - 1].err # None THEN after[i - 1]
                                 ELSE SkipBlock(src, f, after[i - 1], f.blocks[i])
    <3> HIDE DEF after
    <3> QED BY Zenon
  <2> HIDE DEF after, body
  <2> QED BY <1>8, <2>1
<1>10. Skipped(src, f, r)
         = IF after[n].err = None /\ ~f.blocks[n].last THEN Fail(after[n], "UnexpectedEof") ELSE after[n]
  BY Zenon DEF Skipped, Blocks, n
<1> HIDE DEF after, body
<1>11. \A k \in 0..n : after[k] = g[k]
  <2>1. ASSUME NEW k \in 1..n, after[k - 1] = g[k - 1] PROVE after[k] = g[k]
    <3>1. k \in 0..n /\ k # 0
      OBVIOUS
    <3> QED BY <1>6, <1>9, <2>1, <3>1, Zenon DEF SkipStep
  <2>2. 0 \in 0..n
    BY <1>1
  <2>3. after[0] = g[0]
    BY <1>5, <1>9, <2>2, Zenon
  <2>4. StepAlike(n, after, g)
    BY <2>1, <2>3 DEF StepAlike
  <2> QED BY <1>1, <2>4, Alike DEF AlikeTo
<1>12. after[n] = g[n]
  BY <1>1, <1>11
<1>13. SkipRun(src, f, r, g)
  BY <1>5, <1>6 DEF SkipRun, n
<1>14. Skipped(src, f, r) = LoopEnd(f, g[n])
  BY <1>10, <1>12, Zenon DEF LoopEnd, n
<1> QED BY <1>13, <1>14 DEF n

\* After k blocks: the walk stands behind them or has failed, which it has not if they
\* are sound and there.
SkippedTo(src, f, r, g, k) ==
  /\ g[k].err = None => /\ Reaches(r, g[k], r.pos + SumTo(Lens(f), k), None)
                        /\ r.pos + SumTo(Lens(f), k) <= src.len
  /\ Sound(f, k) /\ r.pos + SumTo(Lens(f), k) <= src.len => g[k].err = None

LEMMA SkippedToAll ==
  ASSUME NEW src, src.len \in Nat, NEW f \in ZstdFrame, NEW r \in Listing, r.err = None,
         r.pos <= src.len, NEW g, SkipRun(src, f, r, g)
  PROVE  \A k \in 0..Len(f.blocks) : SkippedTo(src, f, r, g, k)
<1>1. PICK n \in Nat : n = Len(f.blocks)
  BY FrameBlocks
<1>2. /\ SumTo(Lens(f), 0) = 0 /\ \A k \in 0..n : SumTo(Lens(f), k) \in Nat
      /\ \A k \in 1..n :
           SumTo(Lens(f), k) = SumTo(Lens(f), k - 1) + (BlockHeader + PayloadLen(f.blocks[k]))
  BY <1>1, BlockSums
<1>3. \A k \in 1..n : f.blocks[k] \in Block /\ PayloadLen(f.blocks[k]) \in Nat
  BY <1>1, FrameBlocks, BlockHas
<1>4. /\ \A k \in 0..n : g[k] \in Listing
      /\ g[0] = r /\ \A k \in 1..n : g[k] = SkipStep(src, f, g[k - 1], f.blocks[k])
  BY <1>1 DEF SkipRun
<1>5. r.pos \in Nat /\ r = [x \in DOMAIN r |-> r[x]]
  BY DEF Listing
<1> DEFINE S == {k \in 0..n : SkippedTo(src, f, r, g, k)}
<1>6. 0 \in S
  BY <1>2, <1>4, <1>5 DEF SkippedTo, Reaches
<1>7. ASSUME NEW k \in 1..n, k - 1 \in S PROVE k \in S
  <2> DEFINE d == g[k - 1]
             b == f.blocks[k]
             p == SumTo(Lens(f), k - 1)
             m == BlockHeader + PayloadLen(b)
             s == SkipBlock(src, f, d, b)
  <2>1. k \in 0..n /\ k - 1 \in 0..n
    OBVIOUS
  <2>2. /\ d.err = None => Reaches(r, d, r.pos + p, None) /\ r.pos + p <= src.len
        /\ Sound(f, k - 1) /\ r.pos + p <= src.len => d.err = None
    BY <1>7 DEF SkippedTo
  <2>3. p \in Nat /\ m \in Nat /\ b \in Block /\ d \in Listing
    BY <1>2, <1>3, <1>4, <2>1 DEF BlockHeader
  <2>4. SumTo(Lens(f), k) = p + m
    BY <1>2
  <2>5. Sound(f, k) <=> Sound(f, k - 1) /\ BlockSound(f, b)
    <3>1. \A i : i \in 1..k <=> i \in 1..(k - 1) \/ i = k
      OBVIOUS
    <3> QED BY <3>1 DEF Sound
  <2>6. g[k] = SkipStep(src, f, d, b)
    BY <1>4, <2>1
  <2>7. d.err = None => \/ d.pos + m <= src.len /\ Reaches(d, s, d.pos + m, None)
                        \/ ~(BlockSound(f, b) /\ d.pos + m <= src.len) /\ FailsAt(d, s)
    BY <2>3, SkipBlockIs DEF Reading
  <2>8. g[k] = IF d.err # None THEN d ELSE s
    BY <2>6 DEF SkipStep
  <2> HIDE DEF d, b, p, m, S, s
  <2>9. CASE d.err # None
    <3>1. g[k] = d /\ ~(Sound(f, k) /\ r.pos + (p + m) <= src.len)
      BY <1>5, <2>2, <2>3, <2>5, <2>8, <2>9
    <3>2. SkippedTo(src, f, r, g, k)
      BY <2>4, <2>9, <3>1 DEF SkippedTo
    <3> QED BY <2>1, <3>2 DEF S
  <2>10. CASE d.err = None
    <3>1. g[k] = s /\ Reaches(r, d, r.pos + p, None) /\ r.pos + p <= src.len
      BY <2>2, <2>8, <2>10
    <3>2. d.pos = r.pos + p /\ d.pos + m = r.pos + (p + m)
      BY <1>5, <2>3, <3>1 DEF Reaches
    <3>3. CASE d.pos + m <= src.len /\ Reaches(d, s, d.pos + m, None)
      <4>1. Reaches(r, s, r.pos + (p + m), None)
        BY <3>1, <3>2, <3>3, ReachesOn
      <4>2. s.err = None
        BY <4>1 DEF Reaches
      <4>3. SkippedTo(src, f, r, g, k)
        BY <2>4, <3>1, <3>2, <3>3, <4>1, <4>2 DEF SkippedTo
      <4> QED BY <2>1, <4>3 DEF S
    <3>4. CASE ~(BlockSound(f, b) /\ d.pos + m <= src.len) /\ FailsAt(d, s)
      <4>1. s.err # None
        BY <3>4, ErrorsAre DEF FailsAt, Reaches
      <4>2. ~(Sound(f, k) /\ r.pos + (p + m) <= src.len)
        BY <2>5, <3>2, <3>4
      <4>3. SkippedTo(src, f, r, g, k)
        BY <2>4, <3>1, <4>1, <4>2 DEF SkippedTo
      <4> QED BY <2>1, <4>3 DEF S
    <3> QED BY <2>7, <2>10, <3>3, <3>4
  <2> QED BY <2>9, <2>10
<1>8. \A k \in 0..n : k \in S
  <2> HIDE DEF S
  <2> QED BY <1>6, <1>7, Throughout
<1> QED BY <1>1, <1>8

\* Skipping what is behind the header of a frame.
LEMMA SkipBlocksIs ==
  ASSUME NEW src, src.len \in Nat, NEW f \in ZstdFrame, NEW r \in Listing, r.err = None, r.pos <= src.len
  PROVE  LET s == SkipBlocks(src, f, r)
         IN  \/ r.pos + BodyLen(f) <= src.len /\ Reaches(r, s, r.pos + BodyLen(f), None)
             \/ /\ s \in Listing /\ s.err # None
                /\ ~(/\ Sound(f, Len(f.blocks)) /\ f.blocks[Len(f.blocks)].last
                     /\ r.pos + BodyLen(f) <= src.len)
<1> DEFINE s == SkipBlocks(src, f, r)
           blocks == Skipped(src, f, r)
           t == Take(src, blocks, Checksum)
           body == BodyLen(f)
           bl == BlocksLen(f.blocks)
<1>1. PICK n \in Nat \ {0} : n = Len(f.blocks)
  BY FrameBlocks
<1> DEFINE goal == \/ r.pos + body <= src.len /\ Reaches(r, s, r.pos + body, None)
                   \/ /\ s \in Listing /\ s.err # None
                      /\ ~(Sound(f, n) /\ f.blocks[n].last /\ r.pos + body <= src.len)
<1> HIDE DEF goal
<1> SUFFICES goal
  BY <1>1 DEF goal
<1>2. PICK g : SkipRun(src, f, r, g) /\ blocks = LoopEnd(f, g[n])
  BY <1>1, SkipRuns
<1> DEFINE d == g[n]
<1>3. n \in 0..n /\ d \in Listing /\ f.blocks[n].last \in BOOLEAN
  BY <1>1, <1>2, FrameHas DEF SkipRun
<1>4. SkippedTo(src, f, r, g, n)
  BY <1>1, <1>2, <1>3, SkippedToAll
<1>5. SumTo(Lens(f), n) = bl
  BY <1>1, BlockSums
<1>6. /\ d.err = None => Reaches(r, d, r.pos + bl, None) /\ r.pos + bl <= src.len
      /\ Sound(f, n) /\ r.pos + bl <= src.len => d.err = None
  BY <1>4, <1>5 DEF SkippedTo
<1>7. /\ r.pos \in Nat /\ bl \in Nat /\ body \in Nat /\ {"pos", "err"} \subseteq DOMAIN r
      /\ body = bl + (IF f.checksum = "none" THEN 0 ELSE 4)
      /\ Listing \in {Decoding, Listing, Sizing, Census} /\ r \in Reading /\ d \in Reading
  BY <1>3, FrameHas DEF Listing, BodyLen, Checksum, Reading
<1>8. s = IF blocks.err = None /\ f.checksum # "none" THEN t ELSE blocks
  BY Zenon DEF SkipBlocks, Skipped
<1>9. blocks = IF d.err = None /\ ~f.blocks[n].last THEN Fail(d, "UnexpectedEof") ELSE d
  BY <1>1, <1>2 DEF LoopEnd
<1>10. "UnexpectedEof" \in Errors /\ \A e \in Errors : e # None
  BY ErrorsAre DEF Errors
<1> HIDE DEF s, blocks, d, body, bl
<1>11. CASE d.err # None
  <2>1. s = d
    BY <1>8, <1>9, <1>11
  <2>2. ~(Sound(f, n) /\ r.pos + bl <= src.len)
    BY <1>6, <1>11
  <2>3. ~(Sound(f, n) /\ r.pos + body <= src.len)
    BY <1>7, <2>2
  <2> QED BY <1>3, <1>11, <2>1, <2>3 DEF goal
<1>12. CASE d.err = None /\ ~f.blocks[n].last
  <2>1. s = blocks /\ blocks = Fail(d, "UnexpectedEof") /\ blocks.err = "UnexpectedEof"
    <3>1. blocks = Fail(d, "UnexpectedEof")
      BY <1>9, <1>12
    <3>2. blocks = [d EXCEPT !.err = "UnexpectedEof"]
      BY <3>1 DEF Fail
    <3>3. blocks.err = "UnexpectedEof"
      BY <1>3, <3>2 DEF Listing
    <3> QED BY <1>8, <1>10, <3>1, <3>3
  <2>2. d = [x \in DOMAIN d |-> d[x]] /\ d.pos \in Nat /\ d.pos >= d.pos
    BY <1>3 DEF Listing
  <2>3. Reaches(d, d, d.pos, d.err)
    BY <2>2 DEF Reaches
  <2>4. FailsAt(d, blocks)
    BY <1>7, <1>10, <2>1, <2>2, <2>3, FailsHere
  <2>5. s \in Listing /\ s.err # None
    BY <1>3, <1>7, <2>1, <2>4, FailsIn
  <2> QED BY <1>12, <2>5 DEF goal
<1>13. CASE d.err = None /\ f.blocks[n].last
  <2>1. blocks = d /\ Reaches(r, d, r.pos + bl, None) /\ r.pos + bl <= src.len
    BY <1>6, <1>9, <1>13
  <2>2. {"pos", "err"} \subseteq DOMAIN d /\ d.pos = r.pos + bl
    BY <1>7, <2>1 DEF Reaches
  <2>3. CASE f.checksum = "none"
    <3>1. s = d /\ body = bl
      BY <1>7, <1>8, <2>1, <2>3
    <3> QED BY <2>1, <3>1 DEF goal
  <2>4. CASE f.checksum # "none"
    <3>1. s = t /\ body = bl + 4
      BY <1>7, <1>8, <1>13, <2>1, <2>4
    <3>2. /\ d.pos + 4 <= src.len => Reaches(d, t, d.pos + 4, None)
          /\ ~(d.pos + 4 <= src.len) => Reaches(d, t, d.pos, "UnexpectedEof")
      BY <1>7, <1>13, <2>1, <2>2, TakeIs DEF Checksum
    <3>3. d.pos + 4 = r.pos + body
      BY <1>7, <2>2, <3>1
    <3>4. CASE r.pos + body <= src.len
      BY <2>1, <3>1, <3>2, <3>3, <3>4, ReachesOn DEF goal
    <3>5. CASE ~(r.pos + body <= src.len)
      <4>1. d.pos \in Nat /\ d.pos >= d.pos
        BY <1>7, <2>2
      <4>2. FailsAt(d, t)
        BY <1>10, <3>2, <3>3, <3>5, <4>1 DEF FailsAt
      <4>3. s \in Listing /\ s.err # None
        BY <1>3, <1>7, <3>1, <4>2, FailsIn
      <4> QED BY <3>5, <4>3 DEF goal
    <3> QED BY <3>4, <3>5
  <2> QED BY <2>3, <2>4
<1> QED BY <1>3, <1>11, <1>12, <1>13

\* A frame a decoder reads if all of it is there and its content fits.
Reads(f, opts) == Begun(f) /\ (f.kind = "zstd" => FrameSound(f, opts))

\* A frame is found whole; one that can be read and is there is found.
LEMMA FindFrameIs ==
  ASSUME NEW src, src.len \in Nat, NEW r \in Listing, r.err = None, r.pos <= src.len, NEW f \in Frame
  PROVE  LET s == FindFrame(src, r, f)
         IN  \/ r.pos + FrameLen(f) <= src.len /\ Reaches(r, s, r.pos + FrameLen(f), None)
             \/ /\ s \in Listing /\ s.err # None
                /\ \A opts \in Options : ~(Reads(f, opts) /\ r.pos + FrameLen(f) <= src.len)
<1> DEFINE k == ParseKind(src, r, f)
           s == FindFrame(src, r, f)
           h == HeaderLen(f)
           l == FrameLen(f)
           goal == \/ r.pos + l <= src.len /\ Reaches(r, s, r.pos + l, None)
                   \/ /\ s \in Listing /\ s.err # None
                      /\ \A opts \in Options : ~(Reads(f, opts) /\ r.pos + l <= src.len)
<1> HIDE DEF goal
<1> SUFFICES goal
  BY DEF goal
<1>1. /\ r.pos \in Nat /\ h \in Nat /\ l \in Nat /\ h <= l /\ r \in Reading
      /\ Listing \in {Decoding, Listing, Sizing, Census} /\ {"pos", "err"} \subseteq DOMAIN r
  BY FrameLens DEF Listing, Reading
<1>2. \/ Begun(f) /\ r.pos + h <= src.len /\ Reaches(r, k, r.pos + h, None)
      \/ ~(Begun(f) /\ r.pos + h <= src.len) /\ FailsAt(r, k)
  BY <1>1, ParseKindIs
<1>3. \A e \in Errors : e # None
  BY ErrorsAre
<1> HIDE DEF h, l
<1>4. CASE ~(Begun(f) /\ r.pos + h <= src.len) /\ FailsAt(r, k)
  <2>1. k.err # None /\ k \in Listing
    BY <1>1, <1>4, FailsIn
  <2>2. s = k
    BY <2>1, Zenon DEF FindFrame
  <2>3. \A opts \in Options : ~(Reads(f, opts) /\ r.pos + l <= src.len)
    BY <1>1, <1>4 DEF Reads
  <2> HIDE DEF s, k
  <2> QED BY <2>1, <2>2, <2>3 DEF goal, s, k
<1>5. CASE Begun(f) /\ r.pos + h <= src.len /\ Reaches(r, k, r.pos + h, None)
  <2>1. k.err = None /\ k.pos = r.pos + h /\ {"pos", "err"} \subseteq DOMAIN k
    BY <1>1, <1>5 DEF Reaches
  <2>2. k \in Listing
    <3>1. r.pos + h \in Nat /\ None \in Errs
      BY <1>1 DEF Errs
    <3> QED BY <1>1, <1>5, <3>1, ReachesIn
  <2>3. CASE f.kind = "skippable"
    <3> DEFINE t == Take(src, k, f.size)
    <3>1. s = t
      BY <2>1, <2>3, Zenon DEF FindFrame
    <3>2. f.size \in Nat /\ l = h + f.size
      <4>1. f \notin ZstdFrame
        BY <2>3, FrameHas
      <4>2. f.size \in Nat
        BY <2>3, <4>1, FrameKinds
      <4> QED BY <2>3, <4>2, FrameLens DEF h, l
    <3>3. /\ k.pos + f.size <= src.len => Reaches(k, t, k.pos + f.size, None)
          /\ ~(k.pos + f.size <= src.len) => Reaches(k, t, k.pos, "UnexpectedEof")
      BY <1>1, <2>1, <3>2, TakeIs
    <3>4. k.pos + f.size = r.pos + l /\ k.pos \in Nat /\ k.pos >= k.pos
      BY <1>1, <2>1, <3>2
    <3> HIDE DEF t, s, k
    <3>5. CASE r.pos + l <= src.len
      <4>1. Reaches(r, s, r.pos + l, None)
        BY <1>5, <3>1, <3>3, <3>4, <3>5, ReachesOn
      <4> QED BY <3>5, <4>1 DEF goal, s
    <3>6. CASE ~(r.pos + l <= src.len)
      <4>1. FailsAt(k, t)
        BY <3>3, <3>4, <3>6 DEF FailsAt, Errors
      <4>2. s \in Listing /\ s.err # None
        BY <1>1, <2>2, <3>1, <4>1, FailsIn
      <4> QED BY <3>6, <4>2 DEF goal, s
    <3> QED BY <3>5, <3>6
  <2>4. CASE f.kind = "zstd" /\ f \in ZstdFrame
    <3>1. s = SkipBlocks(src, f, k)
      <4>1. "skippable" # "zstd"
        OBVIOUS
      <4> QED BY <2>1, <2>4, <4>1, Zenon DEF FindFrame
    <3>2. l = h + BodyLen(f) /\ BodyLen(f) \in Nat
      BY <2>4, FrameLens, FrameHas DEF h, l
    <3>3. k.pos + BodyLen(f) = r.pos + l
      BY <1>1, <2>1, <3>2
    <3> HIDE DEF s, k
    <3>4. \/ k.pos + BodyLen(f) <= src.len /\ Reaches(k, s, k.pos + BodyLen(f), None)
          \/ /\ s \in Listing /\ s.err # None
             /\ ~(/\ Sound(f, Len(f.blocks)) /\ f.blocks[Len(f.blocks)].last
                  /\ k.pos + BodyLen(f) <= src.len)
      BY <1>5, <2>1, <2>2, <2>4, <3>1, SkipBlocksIs
    <3>5. CASE r.pos + l <= src.len /\ Reaches(k, s, r.pos + l, None)
      <4>1. Reaches(r, s, r.pos + l, None)
        BY <1>5, <3>5, ReachesOn
      <4> QED BY <3>5, <4>1 DEF goal, s
    <3>6. CASE s \in Listing /\ s.err # None
               /\ ~(Sound(f, Len(f.blocks)) /\ f.blocks[Len(f.blocks)].last /\ r.pos + l <= src.len)
      <4>1. \A opts \in Options : ~(Reads(f, opts) /\ r.pos + l <= src.len)
        BY <2>4, <3>6 DEF Reads, FrameSound
      <4> QED BY <3>6, <4>1 DEF goal, s
    <3> QED BY <3>3, <3>4, <3>5, <3>6
  <2> QED BY <1>5, <2>3, <2>4, FrameKinds DEF Begun
<1> QED BY <1>2, <1>4, <1>5

-----------------------------------------------------------------------------
(* The census of a frame's blocks. *)

\* What a block adds to the bytes the census counts itself.
Plain(b) == IF b.ty = "compressed" THEN 0 ELSE b.size

LEMMA BlockCounted ==
  ASSUME NEW r \in Census, NEW b \in Block, b.ty # "reserved"
  PROVE  /\ Counted(r, b) \in Census /\ Counted(r, b).pos = r.pos /\ Counted(r, b).err = r.err
         /\ Counted(r, b).raw + Counted(r, b).rle = r.raw + r.rle + Plain(b)
<1>1. b.size \in Nat /\ b.ty \in {"raw", "rle", "compressed"}
  BY BlockHas
<1>2. CASE b.ty = "raw"
  <2>1. Counted(r, b) = [r EXCEPT !.raw = @ + b.size]
    BY <1>2, Zenon DEF Counted
  <2> QED BY <1>1, <1>2, <2>1 DEF Census, Plain
<1>3. CASE b.ty = "rle"
  <2>1. "rle" # "raw"
    OBVIOUS
  <2>2. Counted(r, b) = [r EXCEPT !.rle = @ + b.size]
    BY <1>3, <2>1, Zenon DEF Counted
  <2> QED BY <1>1, <1>3, <2>2 DEF Census, Plain
<1>4. CASE b.ty = "compressed"
  <2>1. "compressed" # "raw" /\ "compressed" # "rle"
    OBVIOUS
  <2>2. Counted(r, b) = [r EXCEPT !.compressed = @ + b.size]
    BY <1>4, <2>1, Zenon DEF Counted
  <2> QED BY <1>1, <1>4, <2>2 DEF Census, Plain
<1> QED BY <1>1, <1>2, <1>3, <1>4

\* A block that is there is counted, and what fails stays a census.
LEMMA CensusBlockIs ==
  ASSUME NEW src, src.len \in Nat, NEW r \in Census, r.err = None, NEW b \in Block
  PROVE  LET s == CensusBlock(src, r, b)
             n == BlockHeader + PayloadLen(b)
         IN  /\ s \in Census
             /\ b.ty # "reserved" /\ r.pos + n <= src.len =>
                  /\ s.err = None /\ s.pos = r.pos + n
                  /\ s.raw + s.rle = r.raw + r.rle + Plain(b)
<1> DEFINE h == ReadBlockHeader(src, r, b)
           c == Counted(h, b)
           t == Take(src, c, PayloadLen(b))
           s == CensusBlock(src, r, b)
           n == BlockHeader + PayloadLen(b)
<1>1. /\ r.pos \in Nat /\ PayloadLen(b) \in Nat /\ n = 3 + PayloadLen(b) /\ r \in Reading
      /\ Census \in {Decoding, Listing, Sizing, Census} /\ {"pos", "err"} \subseteq DOMAIN r
  BY BlockHas DEF Census, BlockHeader, Reading
<1>2. "UnexpectedEof" \in Errors /\ "ReservedBlockType" \in Errors /\ \A e \in Errors : e # None /\ e \in Errs
  BY ErrorsAre DEF Errors
<1>3. \/ r.pos + 3 <= src.len /\ b.ty # "reserved" /\ Reaches(r, h, r.pos + 3, None)
      \/ r.pos + 3 <= src.len /\ b.ty = "reserved" /\ Reaches(r, h, r.pos + 3, "ReservedBlockType")
      \/ ~(r.pos + 3 <= src.len) /\ Reaches(r, h, r.pos, "UnexpectedEof")
  BY <1>1, BlockHeaderIs
<1>4. s = IF h.err # None THEN h ELSE t
  BY DEF CensusBlock
<1>5. h \in Census
  <2>1. r.pos + 3 \in Nat /\ None \in Errs
    BY <1>1 DEF Errs
  <2> HIDE DEF h
  <2> QED BY <1>1, <1>2, <1>3, <2>1, ReachesIn
<1> HIDE DEF h, s, n
<1>6. CASE h.err # None
  <2>1. s = h
    BY <1>4, <1>6
  <2>2. ~(b.ty # "reserved" /\ r.pos + n <= src.len)
    BY <1>1, <1>3, <1>6 DEF Reaches
  <2> QED BY <1>5, <2>1, <2>2 DEF s, n
<1>7. CASE h.err = None
  <2>1. s = t
    BY <1>4, <1>7
  <2>2. b.ty # "reserved" /\ Reaches(r, h, r.pos + 3, None)
    BY <1>2, <1>3, <1>7 DEF Reaches
  <2>3. h.pos = r.pos + 3 /\ h.raw = r.raw /\ h.rle = r.rle
    <3>1. {"raw", "rle"} \subseteq DOMAIN r \ {"pos", "err"}
      BY DEF Census
    <3>2. \A x \in {"raw", "rle"} : h[x] = r[x]
      BY <2>2, <3>1 DEF Reaches
    <3> QED BY <2>2, <3>2 DEF Reaches
  <2>4. c \in Census /\ c.pos = h.pos /\ c.err = None /\ c.raw + c.rle = r.raw + r.rle + Plain(b)
    BY <1>5, <1>7, <2>2, <2>3, BlockCounted
  <2> HIDE DEF c
  <2>5. {"pos", "err"} \subseteq DOMAIN c /\ c.pos \in Nat /\ c.pos + PayloadLen(b) = r.pos + n
    BY <1>1, <2>3, <2>4 DEF Census
  <2>6. /\ c.pos + PayloadLen(b) <= src.len => Reaches(c, t, c.pos + PayloadLen(b), None)
        /\ ~(c.pos + PayloadLen(b) <= src.len) => Reaches(c, t, c.pos, "UnexpectedEof")
    BY <1>1, <2>4, <2>5, TakeIs
  <2> HIDE DEF t
  <2>7. t \in Census
    <3>1. c.pos + PayloadLen(b) \in Nat /\ None \in Errs
      BY <1>1, <2>5 DEF Errs
    <3> QED BY <1>1, <1>2, <2>4, <2>5, <2>6, <3>1, ReachesIn
  <2>8. ASSUME r.pos + n <= src.len
        PROVE  t.err = None /\ t.pos = r.pos + n /\ t.raw + t.rle = r.raw + r.rle + Plain(b)
    <3>1. Reaches(c, t, r.pos + n, None)
      BY <2>5, <2>6, <2>8
    <3>2. {"raw", "rle"} \subseteq DOMAIN c \ {"pos", "err"}
      BY <2>4 DEF Census
    <3>3. \A x \in {"raw", "rle"} : t[x] = c[x]
      BY <3>1, <3>2 DEF Reaches
    <3> QED BY <2>4, <3>1, <3>3 DEF Reaches
  <2> QED BY <2>1, <2>7, <2>8 DEF s, n
<1> QED BY <1>6, <1>7

\* A step over one block, if there was no error.
CensusStep(src, d, b) == IF d.err # None THEN d ELSE CensusBlock(src, d, b)

\* The blocks of a frame are counted one after another.
CensusRun(src, f, r, g) ==
  /\ g \in [0..Len(f.blocks) -> Census] /\ g[0] = r
  /\ \A k \in 1..Len(f.blocks) : g[k] = CensusStep(src, g[k - 1], f.blocks[k])

\* What counting the blocks of a frame comes to.
CensusOf(src, f, r) == Blocks(src, f, LAMBDA a, b : CensusBlock(src, a, b), r)

LEMMA CensusRuns ==
  ASSUME NEW src, src.len \in Nat, NEW f \in ZstdFrame, NEW r \in Census
  PROVE  \E g : CensusRun(src, f, r, g) /\ CensusOf(src, f, r) = LoopEnd(f, g[Len(f.blocks)])
<1> DEFINE n == Len(f.blocks)
           F == [p \in (1..n) \X Census |-> CensusStep(src, p[2], f.blocks[p[1]])]
           body(g) == [i \in 0..n |->
                         IF i = 0 THEN r
                         ELSE IF g[i - 1].err # None THEN g[i - 1]
                         ELSE CensusBlock(src, g[i - 1], f.blocks[i])]
           after == CHOOSE g : g = body(g)
<1>1. n \in Nat \ {0} /\ \A k \in 1..n : f.blocks[k] \in Block
  BY FrameBlocks
<1>2. \A k \in 1..n, d \in Census : CensusStep(src, d, f.blocks[k]) \in Census
  BY <1>1, CensusBlockIs DEF CensusStep
<1> HIDE DEF n
<1>3. F \in [(1..n) \X Census -> Census]
  BY <1>2
<1>4. \A k \in 1..n, d \in Census : F[<<k, d>>] = CensusStep(src, d, f.blocks[k])
  OBVIOUS
<1> HIDE DEF F
<1>5. PICK g \in [0..n -> Census] : g[0] = r /\ \A k \in 1..n : g[k] = F[<<k, g[k - 1]>>]
  <2>1. Iterated(n, Census, r, F)
    BY <1>1, <1>3, Iterates
  <2> QED BY <2>1 DEF Iterated
<1>6. \A k \in 1..n : g[k] = CensusStep(src, g[k - 1], f.blocks[k])
  <2> SUFFICES ASSUME NEW k \in 1..n PROVE g[k] = CensusStep(src, g[k - 1], f.blocks[k])
    OBVIOUS
  <2>1. k - 1 \in 0..n
    BY <1>1
  <2> QED BY <1>4, <1>5, <2>1
<1>7. g = body(g)
  <2>1. g = [i \in 0..n |-> g[i]]
    BY <1>5
  <2>2. ASSUME NEW i \in 0..n
        PROVE  g[i] = IF i = 0 THEN r
                      ELSE IF g[i - 1].err # None THEN g[i - 1]
                      ELSE CensusBlock(src, g[i - 1], f.blocks[i])
    <3>1. CASE i = 0
      BY <1>5, <3>1
    <3>2. CASE i # 0
      <4>1. i \in 1..n
        BY <3>2
      <4> QED BY <1>6, <3>2, <4>1, Zenon DEF CensusStep
    <3> QED BY <3>1, <3>2
  <2> QED BY <2>1, <2>2, Zenon
<1>8. after = body(after)
  <2> HIDE DEF body
  <2> QED BY <1>7
<1>9. \A i \in 0..n : after[i] = IF i = 0 THEN r
                                 ELSE IF after[i - 1].err # None THEN after[i - 1]
                                 ELSE CensusBlock(src, after[i - 1], f.blocks[i])
  <2>1. \A i \in 0..n : body(after)[i] = IF i = 0 THEN r
                                 ELSE IF after[i - 1].err # None THEN after[i - 1]
                                 ELSE CensusBlock(src, after[i - 1], f.blocks[i])
    <3> HIDE DEF after
    <3> QED BY Zenon
  <2> HIDE DEF after, body
  <2> QED BY <1>8, <2>1
<1>10. CensusOf(src, f, r)
         = IF after[n].err = None /\ ~f.blocks[n].last THEN Fail(after[n], "UnexpectedEof") ELSE after[n]
  BY Zenon DEF CensusOf, Blocks, n
<1> HIDE DEF after, body
<1>11. \A k \in 0..n : after[k] = g[k]
  <2>1. ASSUME NEW k \in 1..n, after[k - 1] = g[k - 1] PROVE after[k] = g[k]
    <3>1. k \in 0..n /\ k # 0
      OBVIOUS
    <3> QED BY <1>6, <1>9, <2>1, <3>1, Zenon DEF CensusStep
  <2>2. 0 \in 0..n
    BY <1>1
  <2>3. after[0] = g[0]
    BY <1>5, <1>9, <2>2, Zenon
  <2>4. StepAlike(n, after, g)
    BY <2>1, <2>3 DEF StepAlike
  <2> QED BY <1>1, <2>4, Alike DEF AlikeTo
<1>12. after[n] = g[n]
  BY <1>1, <1>11
<1>13. CensusRun(src, f, r, g)
  BY <1>5, <1>6 DEF CensusRun, n
<1>14. CensusOf(src, f, r) = LoopEnd(f, g[n])
  BY <1>10, <1>12, Zenon DEF LoopEnd, n
<1> QED BY <1>13, <1>14 DEF n


\* What the compressed blocks of a frame regenerate.
Regens(f) == [i \in DOMAIN f.blocks |-> IF f.blocks[i].ty = "compressed" THEN f.blocks[i].regen ELSE 0]

LEMMA RegenSums ==
  ASSUME NEW f \in ZstdFrame
  PROVE  /\ SumTo(Regens(f), 0) = 0 /\ SumTo(Regens(f), Len(f.blocks)) = Regenerated(f.blocks)
         /\ \A k \in 0..Len(f.blocks) : SumTo(Regens(f), k) \in Nat
         /\ \A k \in 1..Len(f.blocks) :
              /\ SumTo(Regens(f), k) = SumTo(Regens(f), k - 1) + Regens(f)[k]
              /\ Regens(f)[k] \in Nat /\ Regens(f)[k] + Plain(f.blocks[k]) = Stands(f.blocks[k])
<1>1. PICK n \in Nat : n = Len(f.blocks)
  BY FrameBlocks
<1>2. DOMAIN f.blocks = 1..n /\ \A k \in 1..n : f.blocks[k] \in Block
  BY <1>1, FrameBlocks
<1>3. \A k \in 1..n : Regens(f)[k] = IF f.blocks[k].ty = "compressed" THEN f.blocks[k].regen ELSE 0
  BY <1>2 DEF Regens
<1>4. Regens(f) = [i \in 1..n |-> Regens(f)[i]]
  BY <1>2 DEF Regens
<1>5. \A k \in 1..n : Regens(f)[k] \in Nat /\ Regens(f)[k] + Plain(f.blocks[k]) = Stands(f.blocks[k])
  BY <1>2, <1>3, BlockHas DEF Plain, Stands
<1>6. Regens(f) \in Seq(Nat) /\ Len(Regens(f)) = n
  BY <1>4, <1>5, NumbersSeq
<1>7. Regenerated(f.blocks) = SumOf(Regens(f))
  BY Zenon DEF Regenerated, Regens
<1> QED BY <1>1, <1>5, <1>6, <1>7, SumToIs

\* After k blocks that are sound and there, what they stand for is accounted for.
CountedTo(src, f, r, g, k) ==
  Sound(f, k) /\ r.pos + SumTo(Lens(f), k) <= src.len =>
    /\ g[k].err = None /\ g[k].pos = r.pos + SumTo(Lens(f), k)
    /\ g[k].raw + g[k].rle + SumTo(Regens(f), k) = r.raw + r.rle + SumTo(Stood(f), k)

LEMMA CountedToAll ==
  ASSUME NEW src, src.len \in Nat, NEW f \in ZstdFrame, NEW r \in Census, r.err = None,
         NEW g, CensusRun(src, f, r, g)
  PROVE  \A k \in 0..Len(f.blocks) : CountedTo(src, f, r, g, k)
<1>1. PICK n \in Nat : n = Len(f.blocks)
  BY FrameBlocks
<1>2. /\ SumTo(Lens(f), 0) = 0 /\ SumTo(Stood(f), 0) = 0 /\ SumTo(Regens(f), 0) = 0
      /\ \A k \in 0..n : /\ SumTo(Lens(f), k) \in Nat /\ SumTo(Stood(f), k) \in Nat
                         /\ SumTo(Regens(f), k) \in Nat
      /\ \A k \in 1..n :
           /\ SumTo(Lens(f), k) = SumTo(Lens(f), k - 1) + (BlockHeader + PayloadLen(f.blocks[k]))
           /\ SumTo(Stood(f), k) = SumTo(Stood(f), k - 1) + Stands(f.blocks[k])
           /\ SumTo(Regens(f), k) = SumTo(Regens(f), k - 1) + Regens(f)[k]
           /\ Regens(f)[k] \in Nat /\ Regens(f)[k] + Plain(f.blocks[k]) = Stands(f.blocks[k])
  BY <1>1, BlockSums, RegenSums
<1>3. \A k \in 1..n : f.blocks[k] \in Block /\ PayloadLen(f.blocks[k]) \in Nat /\ Plain(f.blocks[k]) \in Nat
  BY <1>1, FrameBlocks, BlockHas DEF Plain
<1>4. /\ \A k \in 0..n : g[k] \in Census
      /\ g[0] = r /\ \A k \in 1..n : g[k] = CensusStep(src, g[k - 1], f.blocks[k])
  BY <1>1 DEF CensusRun
<1>5. r.pos \in Nat /\ r.raw \in Nat /\ r.rle \in Nat
  BY DEF Census
<1> DEFINE S == {k \in 0..n : CountedTo(src, f, r, g, k)}
<1>6. 0 \in S
  BY <1>2, <1>4, <1>5 DEF CountedTo
<1>7. ASSUME NEW k \in 1..n, k - 1 \in S PROVE k \in S
  <2> DEFINE d == g[k - 1]
             b == f.blocks[k]
             p == SumTo(Lens(f), k - 1)
             o == SumTo(Stood(f), k - 1)
             c == SumTo(Regens(f), k - 1)
             m == BlockHeader + PayloadLen(b)
             s == CensusBlock(src, d, b)
  <2>1. k \in 0..n /\ k - 1 \in 0..n
    OBVIOUS
  <2>2. Sound(f, k - 1) /\ r.pos + p <= src.len =>
          d.err = None /\ d.pos = r.pos + p /\ d.raw + d.rle + c = r.raw + r.rle + o
    BY <1>7 DEF CountedTo
  <2>3. /\ p \in Nat /\ o \in Nat /\ c \in Nat /\ m \in Nat /\ b \in Block /\ d \in Census
        /\ Plain(b) \in Nat /\ Regens(f)[k] \in Nat /\ Regens(f)[k] + Plain(b) = Stands(b)
    BY <1>2, <1>3, <1>4, <2>1 DEF BlockHeader
  <2>4. /\ SumTo(Lens(f), k) = p + m /\ SumTo(Stood(f), k) = o + Stands(b)
        /\ SumTo(Regens(f), k) = c + Regens(f)[k]
    BY <1>2
  <2>5. Sound(f, k) => Sound(f, k - 1) /\ b.ty # "reserved"
    BY DEF Sound, BlockSound
  <2>6. g[k] = IF d.err # None THEN d ELSE s
    BY <1>4, <2>1 DEF CensusStep
  <2>7. d.err = None /\ b.ty # "reserved" /\ d.pos + m <= src.len =>
          s.err = None /\ s.pos = d.pos + m /\ s.raw + s.rle = d.raw + d.rle + Plain(b)
    BY <2>3, CensusBlockIs
  <2> HIDE DEF d, b, p, o, c, m, s, S
  <2>8. SUFFICES ASSUME Sound(f, k), r.pos + (p + m) <= src.len
                 PROVE  /\ g[k].err = None /\ g[k].pos = r.pos + (p + m)
                        /\ g[k].raw + g[k].rle + (c + Regens(f)[k]) = r.raw + r.rle + (o + Stands(b))
    BY <2>1, <2>4 DEF S, CountedTo
  <2>9. d.err = None /\ d.pos = r.pos + p /\ d.raw + d.rle + c = r.raw + r.rle + o
    BY <1>5, <2>2, <2>3, <2>5, <2>8
  <2>10. d.pos + m = r.pos + (p + m) /\ d.raw \in Nat /\ d.rle \in Nat
    BY <1>5, <2>3, <2>9 DEF Census
  <2>11. g[k] = s /\ s.err = None /\ s.pos = r.pos + (p + m) /\ s.raw + s.rle = d.raw + d.rle + Plain(b)
    BY <2>5, <2>6, <2>7, <2>8, <2>9, <2>10
  <2>12. d.raw + d.rle + Plain(b) + (c + Regens(f)[k]) = r.raw + r.rle + (o + Stands(b))
    BY <1>5, <2>3, <2>9, <2>10
  <2> QED BY <2>11, <2>12
<1>8. \A k \in 0..n : k \in S
  <2> HIDE DEF S
  <2> QED BY <1>6, <1>7, Throughout
<1> QED BY <1>1, <1>8

\* A source of one frame, all of it there.
LEMMA WholeIs ==
  ASSUME NEW f \in Frame
  PROVE  Whole(<<f>>).frames = <<f>> /\ Whole(<<f>>).len = FrameLen(f)
<1> DEFINE s == [i \in DOMAIN <<f>> |-> FrameLen(<<f>>[i])]
<1>1. Whole(<<f>>).frames = <<f>> /\ Whole(<<f>>).len = SumOf(s)
  BY Zenon DEF Whole, WholeLen
<1>2. DOMAIN <<f>> = 1..1 /\ <<f>>[1] = f /\ FrameLen(f) \in Nat
  BY FrameLens
<1>3. s = [i \in 1..1 |-> s[i]] /\ \A i \in 1..1 : s[i] = FrameLen(f)
  BY <1>2
<1> HIDE DEF s
<1>4. s \in Seq(Nat) /\ Len(s) = 1 /\ s[1] = FrameLen(f)
  <2>1. 1 \in Nat /\ 1 \in 1..1 /\ \A i \in 1..1 : s[i] \in Nat
    BY <1>2, <1>3
  <2> QED BY <1>3, <2>1, NumbersSeq
<1>5. SumTo(s, 1) = SumOf(s) /\ SumTo(s, 1) = SumTo(s, 1 - 1) + s[1] /\ SumTo(s, 0) = 0
  BY <1>4, SumToIs
<1>6. SumOf(s) = FrameLen(f)
  BY <1>2, <1>4, <1>5
<1> QED BY <1>1, <1>6

\* The census of a frame that can be read accounts for all the frame stands for.
LEMMA CensusIs ==
  ASSUME NEW f \in ZstdFrame, NEW opts \in Options, Reads(f, opts)
  PROVE  LET c == FrameBlockCensus(Whole(<<f>>))
         IN  c.raw + c.rle + Regenerated(f.blocks) = SumOf(Stood(f))
<1> DEFINE src == Whole(<<f>>)
           r == [pos |-> 0, err |-> None, raw |-> 0, rle |-> 0, compressed |-> 0]
           k == ParseKind(src, r, f)
           e == CensusOf(src, f, k)
           c == FrameBlockCensus(src)
           h == HeaderLen(f)
<1>1. f \in Frame /\ f.kind = "zstd" /\ "skippable" # "zstd"
  BY FrameHas DEF Frame
<1>2. src.frames = <<f>> /\ src.len = FrameLen(f) /\ <<f>>[1] = f
  BY <1>1, WholeIs
<1> HIDE DEF src
<1>3. /\ h \in Nat /\ FrameLen(f) \in Nat /\ FrameLen(f) = h + BodyLen(f) /\ BodyLen(f) \in Nat
      /\ BlocksLen(f.blocks) \in Nat /\ h + BlocksLen(f.blocks) <= FrameLen(f)
  <2>1. BodyLen(f) = BlocksLen(f.blocks) + (IF f.checksum = "none" THEN 0 ELSE 4)
        /\ BlocksLen(f.blocks) \in Nat
    BY FrameHas DEF BodyLen, Checksum
  <2> QED BY <1>1, <2>1, FrameLens, FrameHas
<1>4. r \in Census /\ r.pos = 0 /\ r.err = None /\ r.raw = 0 /\ r.rle = 0
  BY DEF Census, Errs
<1>5. c = IF k.err # None THEN k ELSE e
  <2>1. c = CASE k.err # None -> k
              [] k.err = None /\ f.kind = "skippable" -> Fail(k, "BadMagic")
              [] OTHER -> Blocks(src, f, LAMBDA a, b : CensusBlock(src, a, b), k)
    BY <1>2, Zenon DEF FrameBlockCensus
  <2>2. CASE k.err # None
    BY <2>1, <2>2, Zenon
  <2>3. CASE k.err = None
    BY <1>1, <2>1, <2>3, Zenon DEF CensusOf
  <2> QED BY <2>2, <2>3
<1> HIDE DEF r, h, c
<1>6. Reaches(r, k, h, None)
  <2>1. r \in Reading /\ r.pos <= src.len /\ src.len \in Nat
    BY <1>2, <1>3, <1>4 DEF Reading
  <2>2. \/ Begun(f) /\ r.pos + h <= src.len /\ Reaches(r, k, r.pos + h, None)
        \/ ~(Begun(f) /\ r.pos + h <= src.len) /\ FailsAt(r, k)
    BY <1>1, <1>4, <2>1, ParseKindIs DEF h
  <2>3. Begun(f) /\ r.pos + h <= src.len /\ r.pos + h = h
    BY <1>2, <1>3, <1>4 DEF Reads
  <2> QED BY <2>2, <2>3
<1> HIDE DEF k
<1>7. k \in Census /\ k.err = None /\ k.pos = h /\ k.raw = 0 /\ k.rle = 0
  <2>1. Census \in {Decoding, Listing, Sizing, Census} /\ None \in Errs
    BY DEF Errs
  <2>2. k \in Census
    BY <1>3, <1>4, <1>6, <2>1, ReachesIn
  <2>3. {"raw", "rle"} \subseteq DOMAIN r \ {"pos", "err"}
    BY <1>4 DEF Census
  <2>4. \A x \in {"raw", "rle"} : k[x] = r[x]
    BY <1>6, <2>3 DEF Reaches
  <2> QED BY <1>4, <1>6, <2>2, <2>4 DEF Reaches
<1>8. PICK n \in Nat \ {0} : n = Len(f.blocks)
  BY FrameBlocks
<1>9. PICK g : CensusRun(src, f, k, g) /\ e = LoopEnd(f, g[n])
  BY <1>2, <1>3, <1>7, <1>8, CensusRuns
<1>10. n \in 0..n /\ Sound(f, n) /\ f.blocks[n].last
  BY <1>1, <1>8 DEF Reads, FrameSound
<1>11. CountedTo(src, f, k, g, n)
  BY <1>2, <1>3, <1>7, <1>8, <1>9, <1>10, CountedToAll
<1>12. SumTo(Lens(f), n) = BlocksLen(f.blocks) /\ SumTo(Stood(f), n) = SumOf(Stood(f))
       /\ SumTo(Regens(f), n) = Regenerated(f.blocks)
  BY <1>8, BlockSums, RegenSums
<1>13. g[n].err = None /\ g[n].raw + g[n].rle + Regenerated(f.blocks) = 0 + 0 + SumOf(Stood(f))
  BY <1>2, <1>3, <1>7, <1>10, <1>11, <1>12 DEF CountedTo
<1>14. e = g[n]
  BY <1>8, <1>9, <1>10 DEF LoopEnd
<1>15. SumOf(Stood(f)) \in Nat
  BY FrameHas
<1> HIDE DEF e
<1>16. c.raw + c.rle + Regenerated(f.blocks) = SumOf(Stood(f))
  BY <1>5, <1>7, <1>13, <1>14, <1>15
<1> QED BY <1>16 DEF c, src

-----------------------------------------------------------------------------
(* Decoding one frame after another. *)

\* What a frame adds to the output.
Gives(f) == IF f.kind = "zstd" THEN SumOf(Stood(f)) ELSE 0

\* A frame that a decoder reads where it stands.
Serves(src, f, opts, r) ==
  /\ Reads(f, opts) /\ r.pos + FrameLen(f) <= src.len /\ r.out + Gives(f) <= opts.out_cap

LEMMA GivesIs ==
  ASSUME NEW f \in Frame
  PROVE  Gives(f) \in Nat
<1>1. f.kind = "zstd" => f \in ZstdFrame
  BY FrameKinds
<1> QED BY <1>1, FrameHas DEF Gives

\* What is peeked.
LEMMA PeekedIs ==
  ASSUME NEW src, src.len \in Nat, NEW r \in Decoding, NEW f \in Frame
  PROVE  LET e == Peeked(src, r, f, r.saw_zstd)
         IN  IF r.pos + 4 <= src.len /\ f.kind # "garbage" THEN e = None ELSE e \in Errors
<1> DEFINE e == Peeked(src, r, f, r.saw_zstd)
<1>1. r.pos \in Nat /\ (Remaining(src, r) >= Magic <=> r.pos + 4 <= src.len)
  BY DEF Decoding, Remaining, Magic
<1>2. "TrailingBytes" \in Errors /\ "BadMagic" \in Errors /\ "UnexpectedEof" \in Errors
  BY DEF Errors
<1>3. CASE Remaining(src, r) >= Magic /\ f.kind # "garbage"
  BY <1>1, <1>3, Zenon DEF Peeked
<1>4. CASE Remaining(src, r) >= Magic /\ f.kind = "garbage"
  <2>1. e = IF r.saw_zstd THEN "TrailingBytes" ELSE "BadMagic"
    BY <1>4, Zenon DEF Peeked
  <2> QED BY <1>2, <1>4, <2>1
<1>5. CASE ~(Remaining(src, r) >= Magic)
  <2>1. e = IF r.saw_zstd THEN "TrailingBytes" ELSE "UnexpectedEof"
    BY <1>5, Zenon DEF Peeked
  <2> QED BY <1>1, <1>2, <1>5, <2>1
<1> QED BY <1>3, <1>4, <1>5

\* What is done with a frame, as a chain.
LEMMA DecompressFrameOrder ==
  ASSUME NEW src, NEW opts, NEW r, NEW f
  PROVE  LET peeked == Peeked(src, r, f, r.saw_zstd)
             k == ParseKind(src, r, f)
         IN  DecompressFrame(src, opts, r, f) =
               IF peeked # None THEN Fail(r, peeked)
               ELSE IF k.err # None THEN k
               ELSE IF f.kind = "skippable" THEN Take(src, k, f.size)
               ELSE [DecodeZstdFrame(src, f, opts, k) EXCEPT !.saw_zstd = TRUE]
<1> DEFINE peeked == Peeked(src, r, f, r.saw_zstd)
           k == ParseKind(src, r, f)
<1>1. CASE peeked # None
  BY <1>1, Zenon DEF DecompressFrame
<1>2. CASE peeked = None /\ k.err # None
  BY <1>2, Zenon DEF DecompressFrame
<1>3. CASE peeked = None /\ k.err = None /\ f.kind = "skippable"
  BY <1>3, Zenon DEF DecompressFrame
<1>4. CASE peeked = None /\ k.err = None /\ f.kind # "skippable"
  BY <1>4, Zenon DEF DecompressFrame
<1> QED BY <1>1, <1>2, <1>3, <1>4, Zenon

\* A frame is decoded whole, or decoding fails.
LEMMA DecompressFrameIs ==
  ASSUME NEW src, src.len \in Nat, NEW opts \in Options, NEW r \in Decoding, r.err = None,
         r.pos <= src.len, r.out <= opts.out_cap, NEW f \in Frame
  PROVE  LET s == DecompressFrame(src, opts, r, f)
         IN  \/ /\ Serves(src, f, opts, r) /\ s \in Decoding /\ s.err = None
                /\ s.pos = r.pos + FrameLen(f) /\ s.out = r.out + Gives(f)
                /\ s.saw_zstd = (r.saw_zstd \/ f.kind = "zstd")
             \/ /\ ~Serves(src, f, opts, r) /\ s \in Decoding /\ s.err # None
                /\ s.out <= opts.out_cap + BlockSizeMax
<1> DEFINE peeked == Peeked(src, r, f, r.saw_zstd)
           k == ParseKind(src, r, f)
           s == DecompressFrame(src, opts, r, f)
           h == HeaderLen(f)
           l == FrameLen(f)
           out == Gives(f)
           goal == \/ /\ Serves(src, f, opts, r) /\ s \in Decoding /\ s.err = None
                      /\ s.pos = r.pos + l /\ s.out = r.out + out
                      /\ s.saw_zstd = (r.saw_zstd \/ f.kind = "zstd")
                   \/ /\ ~Serves(src, f, opts, r) /\ s \in Decoding /\ s.err # None
                      /\ s.out <= opts.out_cap + BlockSizeMax
<1> HIDE DEF goal
<1> SUFFICES goal
  BY DEF goal
<1>1. /\ r.pos \in Nat /\ r.out \in Nat /\ r.saw_zstd \in BOOLEAN /\ opts.out_cap \in Nat
      /\ BlockSizeMax \in Nat /\ h \in Nat /\ l \in Nat /\ h <= l /\ out \in Nat
      /\ r \in Reading /\ Decoding \in {Decoding, Listing, Sizing, Census}
      /\ {"pos", "err"} \subseteq DOMAIN r
  BY FrameLens, GivesIs, LimitConstant, HeaderConstants DEF Decoding, Options, Reading
<1>2. Serves(src, f, opts, r) <=> Reads(f, opts) /\ r.pos + l <= src.len /\ r.out + out <= opts.out_cap
  BY DEF Serves
<1>3. IF r.pos + 4 <= src.len /\ f.kind # "garbage" THEN peeked = None ELSE peeked \in Errors
  BY PeekedIs
<1>4. s = IF peeked # None THEN Fail(r, peeked)
          ELSE IF k.err # None THEN k
          ELSE IF f.kind = "skippable" THEN Take(src, k, f.size)
          ELSE [DecodeZstdFrame(src, f, opts, k) EXCEPT !.saw_zstd = TRUE]
  BY DecompressFrameOrder
<1>5. \/ Begun(f) /\ r.pos + h <= src.len /\ Reaches(r, k, r.pos + h, None)
      \/ ~(Begun(f) /\ r.pos + h <= src.len) /\ FailsAt(r, k)
  BY <1>1, ParseKindIs
<1>6. \A e \in Errors : e # None /\ e \in Errs
  BY ErrorsAre
<1>7. Begun(f) => 4 <= h
  <2>1. f \in ZstdFrame => f.header_len \in Nat
    BY FrameHas
  <2> QED BY <1>1, <2>1, FrameLens, FrameKinds DEF Begun
<1>8. Begun(f) => f.kind # "garbage"
  BY DEF Begun
<1>9. ASSUME NEW t, FailsAt(r, t)
      PROVE  t \in Decoding /\ t.err # None /\ t.out = r.out
  <2>1. t \in Decoding /\ t.err # None
    BY <1>1, <1>9, FailsIn
  <2>2. {"out"} \subseteq DOMAIN r \ {"pos", "err"}
    BY DEF Decoding
  <2>3. \A x \in {"out"} : t[x] = r[x]
    BY <1>9, <2>2 DEF FailsAt, Reaches
  <2> QED BY <2>1, <2>3
<1> HIDE DEF peeked, k, s, h, l, out
<1>10. r.out <= opts.out_cap + BlockSizeMax
  BY <1>1
<1>11. CASE peeked # None
  <2>1. s = Fail(r, peeked) /\ peeked \in Errors
    BY <1>3, <1>4, <1>11
  <2>2. s \in Decoding /\ s.err # None /\ s.out = r.out
    BY <1>6, <2>1, FailDecoding
  <2>3. ~Serves(src, f, opts, r)
    BY <1>1, <1>2, <1>3, <1>7, <1>8, <1>11 DEF Reads
  <2> QED BY <1>10, <2>2, <2>3 DEF goal
<1>12. CASE peeked = None /\ ~(Begun(f) /\ r.pos + h <= src.len) /\ FailsAt(r, k)
  <2>1. k \in Decoding /\ k.err # None /\ k.out = r.out
    BY <1>9, <1>12
  <2>2. s = k
    BY <1>4, <1>12, <2>1
  <2>3. ~Serves(src, f, opts, r)
    BY <1>1, <1>2, <1>12 DEF Reads
  <2> QED BY <1>10, <2>1, <2>2, <2>3 DEF goal
<1>13. CASE peeked = None /\ Begun(f) /\ r.pos + h <= src.len /\ Reaches(r, k, r.pos + h, None)
  <2>1. k.err = None /\ k.pos = r.pos + h /\ {"pos", "err"} \subseteq DOMAIN k
    BY <1>1, <1>13 DEF Reaches
  <2>2. k \in Decoding /\ k.out = r.out /\ k.saw_zstd = r.saw_zstd
    <3>1. r.pos + h \in Nat /\ None \in Errs
      BY <1>1 DEF Errs
    <3>2. {"out", "saw_zstd"} \subseteq DOMAIN r \ {"pos", "err"}
      BY DEF Decoding
    <3>3. \A x \in {"out", "saw_zstd"} : k[x] = r[x]
      BY <1>13, <3>2 DEF Reaches
    <3> QED BY <1>1, <1>13, <3>1, <3>3, ReachesIn
  <2>3. CASE f.kind = "skippable"
    <3> DEFINE t == Take(src, k, f.size)
    <3>1. s = t
      BY <1>4, <1>13, <2>1, <2>3
    <3>2. f.size \in Nat /\ l = h + f.size /\ out = 0
      <4>1. f \notin ZstdFrame
        BY <2>3, FrameHas
      <4>2. f.size \in Nat
        BY <2>3, <4>1, FrameKinds
      <4> QED BY <2>3, <4>2, FrameLens DEF h, l, out, Gives
    <3>3. /\ k.pos + f.size <= src.len => Reaches(k, t, k.pos + f.size, None)
          /\ ~(k.pos + f.size <= src.len) => Reaches(k, t, k.pos, "UnexpectedEof")
      BY <1>1, <2>1, <3>2, TakeIs
    <3>4. k.pos + f.size = r.pos + l /\ k.pos \in Nat /\ r.pos + l \in Nat /\ r.out + out = r.out
          /\ k.pos >= r.pos
      BY <1>1, <2>1, <3>2
    <3>5. f.kind # "zstd"
      BY <2>3
    <3> HIDE DEF t
    <3>6. CASE r.pos + l <= src.len
      <4>1. Reaches(r, s, r.pos + l, None)
        BY <1>13, <3>1, <3>3, <3>4, <3>6, ReachesOn
      <4>2. {"out", "saw_zstd"} \subseteq DOMAIN r \ {"pos", "err"} /\ None \in Errs
        BY DEF Decoding, Errs
      <4>3. \A x \in {"out", "saw_zstd"} : s[x] = r[x]
        BY <4>1, <4>2 DEF Reaches
      <4>4. s \in Decoding /\ s.err = None /\ s.pos = r.pos + l
        BY <1>1, <3>4, <4>1, <4>2, ReachesIn DEF Reaches
      <4>5. Serves(src, f, opts, r)
        BY <1>2, <1>13, <3>4, <3>5, <3>6 DEF Reads
      <4> QED BY <1>1, <3>4, <3>5, <4>3, <4>4, <4>5 DEF goal
    <3>7. CASE ~(r.pos + l <= src.len)
      <4>1. Reaches(r, s, k.pos, "UnexpectedEof")
        BY <1>13, <3>1, <3>3, <3>4, <3>7, ReachesOn
      <4>2. FailsAt(r, s)
        BY <3>4, <4>1 DEF FailsAt, Errors
      <4> QED BY <1>2, <1>9, <1>10, <3>7, <4>2 DEF goal
    <3> QED BY <3>6, <3>7
  <2>4. CASE f.kind = "zstd" /\ f \in ZstdFrame
    <3> DEFINE d == DecodeZstdFrame(src, f, opts, k)
    <3>1. s = [d EXCEPT !.saw_zstd = TRUE]
      BY <1>4, <1>13, <2>1, <2>4
    <3>2. l = h + BodyLen(f) /\ BodyLen(f) \in Nat /\ out = SumOf(Stood(f))
      BY <2>4, FrameLens, FrameHas DEF h, l, out, Gives
    <3>3. k.pos + BodyLen(f) = r.pos + l
      BY <1>1, <2>1, <3>2
    <3>4. \/ /\ Decodes(src, f, opts, k)
             /\ d \in Decoding /\ d.err = None /\ d.saw_zstd = k.saw_zstd
             /\ d.pos = k.pos + BodyLen(f) /\ d.out = k.out + out
          \/ ~Decodes(src, f, opts, k) /\ Failed(k, d, opts.out_cap + BlockSizeMax)
      BY <1>13, <2>1, <2>2, <2>4, <3>2, DecodeZstdFrameIs
    <3>5. Decodes(src, f, opts, k) <=> Serves(src, f, opts, r)
      BY <1>2, <1>13, <2>2, <2>4, <3>2, <3>3 DEF Decodes, Reads
    <3> HIDE DEF d
    <3>6. CASE Decodes(src, f, opts, k)
      <4>1. d \in Decoding /\ d.err = None /\ d.pos = r.pos + l /\ d.out = r.out + out
        BY <2>2, <3>3, <3>4, <3>6 DEF Failed
      <4>2. s \in Decoding /\ s.err = None /\ s.pos = r.pos + l /\ s.out = r.out + out /\ s.saw_zstd = TRUE
        BY <3>1, <4>1 DEF Decoding
      <4> QED BY <2>4, <3>5, <3>6, <4>2 DEF goal
    <3>7. CASE ~Decodes(src, f, opts, k)
      <4>1. d \in Decoding /\ d.err # None /\ d.out <= opts.out_cap + BlockSizeMax
        BY <3>4, <3>7 DEF Failed
      <4>2. s \in Decoding /\ s.err # None /\ s.out = d.out
        BY <3>1, <4>1 DEF Decoding
      <4> QED BY <3>5, <3>7, <4>1, <4>2 DEF goal
    <3> QED BY <3>6, <3>7
  <2> QED BY <1>13, <2>3, <2>4, FrameKinds DEF Begun
<1> QED BY <1>5, <1>11, <1>12, <1>13

\* The frames of a source.
LEMMA SourceFrames ==
  ASSUME NEW frames \in Source
  PROVE  Len(frames) \in Nat \ {0} /\ \A k \in 1..Len(frames) : frames[k] \in Frame
<1>1. frames \in Seq(Frame) /\ frames # <<>>
  BY DEF Source
<1>2. Len(frames) \in Nat /\ \A k \in 1..Len(frames) : frames[k] \in Frame
  BY <1>1, SeqHas
<1>3. Len(frames) # 0
  BY <1>1
<1> QED BY <1>2, <1>3

\* How long frames are, and what each gives.
Sizes(frames) == [i \in DOMAIN frames |-> FrameLen(frames[i])]
Given(frames) == [i \in DOMAIN frames |-> Gives(frames[i])]

LEMMA FrameSums ==
  ASSUME NEW frames \in Source
  PROVE  /\ Sizes(frames) \in Seq(Nat) /\ Len(Sizes(frames)) = Len(frames)
         /\ Given(frames) \in Seq(Nat) /\ Len(Given(frames)) = Len(frames)
         /\ SumTo(Sizes(frames), 0) = 0 /\ SumTo(Given(frames), 0) = 0
         /\ SumTo(Sizes(frames), Len(frames)) = WholeLen(frames)
         /\ \A k \in 0..Len(frames) : SumTo(Sizes(frames), k) \in Nat /\ SumTo(Given(frames), k) \in Nat
         /\ \A k \in 1..Len(frames) :
              /\ SumTo(Sizes(frames), k) = SumTo(Sizes(frames), k - 1) + FrameLen(frames[k])
              /\ SumTo(Given(frames), k) = SumTo(Given(frames), k - 1) + Gives(frames[k])
              /\ Sizes(frames)[k] = FrameLen(frames[k]) /\ Given(frames)[k] = Gives(frames[k])
<1>1. PICK n \in Nat : n = Len(frames)
  BY SourceFrames
<1>2. DOMAIN frames = 1..n /\ \A k \in 1..n : frames[k] \in Frame
  BY <1>1, SourceFrames DEF Source
<1>3. \A k \in 1..n : Sizes(frames)[k] = FrameLen(frames[k]) /\ Given(frames)[k] = Gives(frames[k])
  BY <1>2 DEF Sizes, Given
<1>4. Sizes(frames) = [i \in 1..n |-> Sizes(frames)[i]] /\ Given(frames) = [i \in 1..n |-> Given(frames)[i]]
  BY <1>2 DEF Sizes, Given
<1>5. \A k \in 1..n : FrameLen(frames[k]) \in Nat /\ Gives(frames[k]) \in Nat
  BY <1>2, FrameLens, GivesIs
<1>6. Sizes(frames) \in Seq(Nat) /\ Len(Sizes(frames)) = n
  BY <1>3, <1>4, <1>5, NumbersSeq
<1>7. Given(frames) \in Seq(Nat) /\ Len(Given(frames)) = n
  BY <1>3, <1>4, <1>5, NumbersSeq
<1>8. WholeLen(frames) = SumOf(Sizes(frames))
  BY Zenon DEF WholeLen, Sizes
<1> QED BY <1>1, <1>3, <1>6, <1>7, <1>8, SumToIs

\* A source: whole frames, cut anywhere.
IsSource(src) == src.frames \in Source /\ src.len \in Nat /\ src.len <= WholeLen(src.frames)

\* Where decoding begins, and what it may be on the way.
Begin == [pos |-> 0, err |-> None, out |-> 0, saw_zstd |-> FALSE]
Going(src, opts) == {d \in Decoding : d.err = None => d.pos <= src.len /\ d.out <= opts.out_cap}

\* A step over one frame, if there is more to read.
FrameStep(src, opts, d, f) == IF ~More(src, d) THEN d ELSE DecompressFrame(src, opts, d, f)

LEMMA MoreIs ==
  ASSUME NEW src, src.len \in Nat, NEW r, r.pos \in Nat
  PROVE  More(src, r) <=> r.err = None /\ r.pos < src.len
BY DEF More, Remaining

LEMMA FrameStepIn ==
  ASSUME NEW src, IsSource(src), NEW opts \in Options, NEW d \in Going(src, opts), NEW f \in Frame
  PROVE  FrameStep(src, opts, d, f) \in Going(src, opts)
<1>1. CASE ~More(src, d)
  BY <1>1 DEF FrameStep
<1>2. CASE More(src, d)
  <2> DEFINE s == DecompressFrame(src, opts, d, f)
  <2>1. d \in Decoding /\ d.err = None /\ d.pos <= src.len /\ d.out <= opts.out_cap /\ src.len \in Nat
    BY <1>2 DEF Going, More, IsSource
  <2>2. \/ /\ Serves(src, f, opts, d) /\ s \in Decoding /\ s.err = None
           /\ s.pos = d.pos + FrameLen(f) /\ s.out = d.out + Gives(f)
        \/ s \in Decoding /\ s.err # None
    BY <2>1, DecompressFrameIs
  <2> HIDE DEF s
  <2>3. s \in Going(src, opts)
    BY <2>2 DEF Going, Serves
  <2> QED BY <1>2, <2>3 DEF FrameStep, s
<1> QED BY <1>1, <1>2

\* The frames of a source are decoded one after another.
DecompressRun(src, opts, g) ==
  /\ g \in [0..Len(src.frames) -> Going(src, opts)] /\ g[0] = Begin
  /\ \A k \in 1..Len(src.frames) : g[k] = FrameStep(src, opts, g[k - 1], src.frames[k])

LEMMA DecompressRuns ==
  ASSUME NEW src, IsSource(src), NEW opts \in Options
  PROVE  \E g : DecompressRun(src, opts, g) /\ Decompress(src, opts) = NeedsZstd(g[Len(src.frames)])
<1> DEFINE n == Len(src.frames)
           X == Going(src, opts)
           F == [p \in (1..n) \X X |-> FrameStep(src, opts, p[2], src.frames[p[1]])]
           body(g) == [i \in 0..n |->
                         IF i = 0 THEN [pos |-> 0, err |-> None, out |-> 0, saw_zstd |-> FALSE]
                         ELSE IF ~More(src, g[i - 1]) THEN g[i - 1]
                         ELSE DecompressFrame(src, opts, g[i - 1], src.frames[i])]
           after == CHOOSE g : g = body(g)
<1>1. n \in Nat \ {0} /\ \A k \in 1..n : src.frames[k] \in Frame
  BY SourceFrames DEF IsSource
<1>2. Begin \in X
  BY LimitConstant DEF Begin, Going, Decoding, IsSource, Options, Errs
<1> HIDE DEF X
<1>3. \A k \in 1..n, d \in X : FrameStep(src, opts, d, src.frames[k]) \in X
  BY <1>1, FrameStepIn DEF X
<1> HIDE DEF n
<1>4. F \in [(1..n) \X X -> X]
  BY <1>3
<1>5. \A k \in 1..n, d \in X : F[<<k, d>>] = FrameStep(src, opts, d, src.frames[k])
  OBVIOUS
<1> HIDE DEF F
<1>6. PICK g \in [0..n -> X] : g[0] = Begin /\ \A k \in 1..n : g[k] = F[<<k, g[k - 1]>>]
  <2>1. Iterated(n, X, Begin, F)
    BY <1>1, <1>2, <1>4, Iterates
  <2> QED BY <2>1 DEF Iterated
<1>7. \A k \in 1..n : g[k] = FrameStep(src, opts, g[k - 1], src.frames[k])
  <2> SUFFICES ASSUME NEW k \in 1..n PROVE g[k] = FrameStep(src, opts, g[k - 1], src.frames[k])
    OBVIOUS
  <2>1. k - 1 \in 0..n
    BY <1>1
  <2> QED BY <1>5, <1>6, <2>1
<1>8. g = body(g)
  <2>1. g = [i \in 0..n |-> g[i]]
    BY <1>6
  <2>2. ASSUME NEW i \in 0..n
        PROVE  g[i] = IF i = 0 THEN Begin
                      ELSE IF ~More(src, g[i - 1]) THEN g[i - 1]
                      ELSE DecompressFrame(src, opts, g[i - 1], src.frames[i])
    <3>1. CASE i = 0
      BY <1>6, <3>1
    <3>2. CASE i # 0
      <4>1. i \in 1..n
        BY <3>2
      <4> QED BY <1>7, <3>2, <4>1, Zenon DEF FrameStep
    <3> QED BY <3>1, <3>2
  <2> QED BY <2>1, <2>2, Zenon DEF Begin
<1>9. after = body(after)
  <2> HIDE DEF body
  <2> QED BY <1>8
<1>10. \A i \in 0..n : after[i] = IF i = 0 THEN Begin
                                  ELSE IF ~More(src, after[i - 1]) THEN after[i - 1]
                                  ELSE DecompressFrame(src, opts, after[i - 1], src.frames[i])
  <2>1. \A i \in 0..n : body(after)[i] = IF i = 0 THEN Begin
                                  ELSE IF ~More(src, after[i - 1]) THEN after[i - 1]
                                  ELSE DecompressFrame(src, opts, after[i - 1], src.frames[i])
    <3> HIDE DEF after
    <3> QED BY Zenon DEF Begin
  <2> HIDE DEF after, body
  <2> QED BY <1>9, <2>1
<1>11. Decompress(src, opts) = NeedsZstd(after[n])
  BY Zenon DEF Decompress, n
<1> HIDE DEF after, body
<1>12. \A k \in 0..n : after[k] = g[k]
  <2>1. ASSUME NEW k \in 1..n, after[k - 1] = g[k - 1] PROVE after[k] = g[k]
    <3>1. k \in 0..n /\ k # 0
      OBVIOUS
    <3> QED BY <1>7, <1>10, <2>1, <3>1, Zenon DEF FrameStep
  <2>2. 0 \in 0..n
    BY <1>1
  <2>3. after[0] = g[0]
    BY <1>6, <1>10, <2>2, Zenon
  <2>4. StepAlike(n, after, g)
    BY <2>1, <2>3 DEF StepAlike
  <2> QED BY <1>1, <2>4, Alike DEF AlikeTo
<1>13. after[n] = g[n]
  BY <1>1, <1>12
<1>14. DecompressRun(src, opts, g)
  BY <1>6, <1>7 DEF DecompressRun, n, X
<1>15. Decompress(src, opts) = NeedsZstd(g[n])
  BY <1>11, <1>13
<1> QED BY <1>14, <1>15 DEF n

\* A decoder that has read the first j frames.
HasRead(src, opts, d, j) ==
  /\ d.pos = SumTo(Sizes(src.frames), j) /\ d.pos <= src.len
  /\ d.out = SumTo(Given(src.frames), j)
  /\ \A i \in 1..j : Reads(src.frames[i], opts)
  /\ d.saw_zstd <=> \E i \in 1..j : src.frames[i].kind = "zstd"

\* After k turns: the decoder has read k frames, all of the source, or has failed.
DecompressedTo(src, opts, g, k) ==
  /\ g[k].out <= opts.out_cap + BlockSizeMax
  /\ g[k].err = None =>
       \E j \in 0..k : HasRead(src, opts, g[k], j) /\ (j = k \/ g[k].pos = src.len)

LEMMA DecompressedToAll ==
  ASSUME NEW src, IsSource(src), NEW opts \in Options, NEW g, DecompressRun(src, opts, g)
  PROVE  \A k \in 0..Len(src.frames) : DecompressedTo(src, opts, g, k)
<1>1. PICK n \in Nat : n = Len(src.frames) /\ \A k \in 1..n : src.frames[k] \in Frame
  BY SourceFrames DEF IsSource
<1>2. /\ SumTo(Sizes(src.frames), 0) = 0 /\ SumTo(Given(src.frames), 0) = 0
      /\ \A k \in 1..n :
           /\ SumTo(Sizes(src.frames), k) = SumTo(Sizes(src.frames), k - 1) + FrameLen(src.frames[k])
           /\ SumTo(Given(src.frames), k) = SumTo(Given(src.frames), k - 1) + Gives(src.frames[k])
  BY <1>1, FrameSums DEF IsSource
<1>3. /\ \A k \in 0..n : g[k] \in Going(src, opts)
      /\ g[0] = Begin /\ \A k \in 1..n : g[k] = FrameStep(src, opts, g[k - 1], src.frames[k])
  BY <1>1 DEF DecompressRun
<1>4. src.len \in Nat /\ opts.out_cap \in Nat /\ BlockSizeMax \in Nat
  BY LimitConstant, HeaderConstants DEF IsSource, Options
<1> DEFINE S == {k \in 0..n : DecompressedTo(src, opts, g, k)}
<1>5. 0 \in S
  <2>1. Begin.pos = 0 /\ Begin.out = 0 /\ Begin.saw_zstd = FALSE
    BY DEF Begin
  <2>2. HasRead(src, opts, g[0], 0)
    BY <1>2, <1>3, <1>4, <2>1 DEF HasRead
  <2>3. 0 \in 0..0 /\ 0 <= opts.out_cap + BlockSizeMax
    BY <1>4
  <2>4. DecompressedTo(src, opts, g, 0)
    BY <1>3, <2>1, <2>2, <2>3 DEF DecompressedTo
  <2> QED BY <2>4
<1>6. ASSUME NEW k \in 1..n, k - 1 \in S PROVE k \in S
  <2> DEFINE d == g[k - 1]
             f == src.frames[k]
             s == DecompressFrame(src, opts, d, f)
  <2>1. k \in 0..n /\ k - 1 \in 0..n /\ f \in Frame /\ k - 1 \in Nat /\ k \in Nat
    BY <1>1
  <2>2. /\ d.out <= opts.out_cap + BlockSizeMax
        /\ d.err = None => \E j \in 0..(k - 1) : HasRead(src, opts, d, j) /\ (j = k - 1 \/ d.pos = src.len)
    BY <1>6 DEF DecompressedTo
  <2>3. d \in Going(src, opts) /\ d \in Decoding /\ d.pos \in Nat
    BY <1>3, <2>1 DEF Going, Decoding
  <2>4. g[k] = IF ~More(src, d) THEN d ELSE s
    BY <1>3, <2>1 DEF FrameStep
  <2>5. More(src, d) <=> d.err = None /\ d.pos < src.len
    BY <1>4, <2>3, MoreIs
  <2> HIDE DEF S
  <2>6. CASE ~More(src, d)
    <3>1. g[k] = d
      BY <2>4, <2>6
    <3>2. ASSUME d.err = None
          PROVE  \E j \in 0..k : HasRead(src, opts, d, j) /\ (j = k \/ d.pos = src.len)
      <4>1. PICK j \in 0..(k - 1) : HasRead(src, opts, d, j)
        BY <2>2, <3>2
      <4>2. d.pos = src.len
        BY <1>4, <2>3, <2>5, <2>6, <3>2 DEF Going
      <4>3. j \in 0..k
        BY <2>1
      <4> QED BY <4>1, <4>2, <4>3
    <3>3. DecompressedTo(src, opts, g, k)
      BY <2>2, <3>1, <3>2 DEF DecompressedTo
    <3> QED BY <2>1, <3>3 DEF S
  <2>7. CASE More(src, d)
    <3>1. g[k] = s /\ d.err = None /\ d.pos < src.len /\ d.pos <= src.len /\ d.out <= opts.out_cap
      BY <2>3, <2>4, <2>5, <2>7 DEF Going
    <3>2. \/ /\ Serves(src, f, opts, d) /\ s \in Decoding /\ s.err = None
             /\ s.pos = d.pos + FrameLen(f) /\ s.out = d.out + Gives(f)
             /\ s.saw_zstd = (d.saw_zstd \/ f.kind = "zstd")
          \/ /\ s \in Decoding /\ s.err # None /\ s.out <= opts.out_cap + BlockSizeMax
      BY <1>4, <2>1, <2>3, <3>1, DecompressFrameIs
    <3>3. HasRead(src, opts, d, k - 1)
      <4>1. PICK j \in 0..(k - 1) : HasRead(src, opts, d, j) /\ (j = k - 1 \/ d.pos = src.len)
        BY <2>2, <3>1
      <4> QED BY <1>4, <2>3, <3>1, <4>1
    <3> HIDE DEF d, f, s
    <3>4. CASE s.err # None
      <4>1. DecompressedTo(src, opts, g, k)
        BY <3>1, <3>2, <3>4 DEF DecompressedTo
      <4> QED BY <2>1, <4>1 DEF S
    <3>5. CASE s.err = None
      <4>1. /\ Serves(src, f, opts, d) /\ s.pos = d.pos + FrameLen(f) /\ s.out = d.out + Gives(f)
            /\ s.saw_zstd = (d.saw_zstd \/ f.kind = "zstd")
        BY <3>2, <3>5
      <4>2. \A i : i \in 1..k <=> i \in 1..(k - 1) \/ i = k
        BY <2>1
      <4>3. /\ \A i \in 1..k : Reads(src.frames[i], opts)
            /\ s.saw_zstd <=> \E i \in 1..k : src.frames[i].kind = "zstd"
        BY <3>3, <4>1, <4>2 DEF HasRead, Serves, f
      <4>4. s.pos = SumTo(Sizes(src.frames), k) /\ s.out = SumTo(Given(src.frames), k)
        BY <1>2, <3>3, <4>1 DEF HasRead, f
      <4>5. s.pos <= src.len /\ s.out <= opts.out_cap
        BY <4>1 DEF Serves
      <4>6. HasRead(src, opts, s, k)
        BY <4>3, <4>4, <4>5 DEF HasRead
      <4>7. s.out <= opts.out_cap + BlockSizeMax
        BY <1>4, <3>2, <4>5 DEF Decoding
      <4>8. k \in 0..k
        BY <2>1
      <4>9. DecompressedTo(src, opts, g, k)
        BY <3>1, <4>6, <4>7, <4>8 DEF DecompressedTo
      <4> QED BY <2>1, <4>9 DEF S
    <3> QED BY <3>4, <3>5
  <2> QED BY <2>6, <2>7
<1>7. \A k \in 0..n : k \in S
  <2> HIDE DEF S
  <2> QED BY <1>5, <1>6, Throughout
<1> QED BY <1>1, <1>7

\* What decoding comes to when nothing fails: whole frames that end where the source
\* does, all of which it reads.
LEMMA DecompressIs ==
  ASSUME NEW src, IsSource(src), NEW opts \in Options
  PROVE  LET d == Decompress(src, opts)
         IN  /\ d \in Decoding /\ d.out <= opts.out_cap + BlockSizeMax
             /\ d.err = None =>
                  /\ d.out <= opts.out_cap
                  /\ \E j \in 1..Len(src.frames) :
                       /\ HasRead(src, opts, d, j) /\ d.pos = src.len
                       /\ \E i \in 1..j : src.frames[i].kind = "zstd"
<1> DEFINE d == Decompress(src, opts)
<1>1. PICK n \in Nat \ {0} : n = Len(src.frames)
  BY SourceFrames DEF IsSource
<1>2. PICK g : DecompressRun(src, opts, g) /\ d = NeedsZstd(g[n])
  BY <1>1, DecompressRuns
<1> DEFINE end == g[n]
<1>3. n \in 0..n /\ end \in Going(src, opts) /\ end \in Decoding
  BY <1>1, <1>2 DEF DecompressRun, Going
<1>4. DecompressedTo(src, opts, g, n)
  BY <1>1, <1>2, <1>3, DecompressedToAll
<1>5. d = IF end.err = None /\ ~end.saw_zstd THEN Fail(end, "UnexpectedEof") ELSE end
  BY <1>2 DEF NeedsZstd
<1>6. /\ end.out <= opts.out_cap + BlockSizeMax
      /\ end.err = None => \E j \in 0..n : HasRead(src, opts, end, j) /\ (j = n \/ end.pos = src.len)
  BY <1>4 DEF DecompressedTo
<1>7. "UnexpectedEof" \in Errors /\ "UnexpectedEof" # None
  BY ErrorsAre DEF Errors
<1> HIDE DEF d, end
<1>8. d \in Decoding /\ d.out <= opts.out_cap + BlockSizeMax /\ (d.err = None => d = end /\ end.saw_zstd)
  <2>1. CASE end.err = None /\ ~end.saw_zstd
    <3>1. d = Fail(end, "UnexpectedEof")
      BY <1>5, <2>1
    <3>2. end \in Decoding /\ "UnexpectedEof" \in Errs /\ d = [end EXCEPT !.err = "UnexpectedEof"]
      BY <1>3, <1>7, <3>1 DEF Fail, Errs
    <3>3. d \in Decoding /\ d.err = "UnexpectedEof" /\ d.out = end.out
      BY <3>2 DEF Decoding
    <3> QED BY <1>6, <1>7, <3>3
  <2>2. CASE ~(end.err = None /\ ~end.saw_zstd)
    BY <1>3, <1>5, <1>6, <2>2
  <2> QED BY <2>1, <2>2
<1>9. ASSUME d.err = None
      PROVE  /\ d.out <= opts.out_cap
             /\ \E j \in 1..n : /\ HasRead(src, opts, d, j) /\ d.pos = src.len
                                /\ \E i \in 1..j : src.frames[i].kind = "zstd"
  <2>1. d = end /\ end.saw_zstd /\ end.err = None /\ end.out <= opts.out_cap
    BY <1>3, <1>8, <1>9 DEF Going
  <2>2. PICK j \in 0..n : HasRead(src, opts, end, j) /\ (j = n \/ end.pos = src.len)
    BY <1>6, <2>1
  <2>3. \E i \in 1..j : src.frames[i].kind = "zstd"
    BY <2>1, <2>2 DEF HasRead
  <2>4. j \in 1..n
    BY <2>3
  <2>5. end.pos = src.len
    <3>1. CASE j = n
      <4>1. end.pos = WholeLen(src.frames) /\ end.pos <= src.len
        BY <1>1, <2>2, <3>1, FrameSums DEF HasRead, IsSource
      <4>2. src.len <= WholeLen(src.frames) /\ src.len \in Nat /\ end.pos \in Nat
        BY <1>3 DEF IsSource, Decoding
      <4> QED BY <4>1, <4>2
    <3> QED BY <2>2, <3>1
  <2> QED BY <2>1, <2>2, <2>3, <2>4, <2>5
<1> QED BY <1>1, <1>8, <1>9 DEF d

-----------------------------------------------------------------------------
(* Listing one frame after another. *)

\* A frame is listed with its length.
LEMMA InspectFrameIs ==
  ASSUME NEW src, src.len \in Nat, NEW r \in Listing, r.err = None, r.pos <= src.len, NEW f \in Frame
  PROVE  LET s == InspectFrame(src, r, f)
         IN  \/ /\ r.pos + FrameLen(f) <= src.len /\ s \in Listing /\ s.err = None
                /\ s.pos = r.pos + FrameLen(f) /\ s.list = Append(r.list, FrameLen(f))
             \/ /\ s \in Listing /\ s.err # None
                /\ \A opts \in Options : ~(Reads(f, opts) /\ r.pos + FrameLen(f) <= src.len)
<1> DEFINE t == FindFrame(src, r, f)
           s == InspectFrame(src, r, f)
           l == FrameLen(f)
<1>1. l \in Nat /\ r.pos \in Nat /\ r.list \in Seq(Nat)
  BY FrameLens DEF Listing
<1>2. s = IF t.err # None THEN t ELSE [t EXCEPT !.list = Append(@, t.pos - r.pos)]
  BY DEF InspectFrame, Listed
<1>3. \/ r.pos + l <= src.len /\ Reaches(r, t, r.pos + l, None)
      \/ /\ t \in Listing /\ t.err # None
         /\ \A opts \in Options : ~(Reads(f, opts) /\ r.pos + l <= src.len)
  BY FindFrameIs
<1> HIDE DEF t, s, l
<1>4. CASE t.err # None
  <2>1. s = t
    BY <1>2, <1>4
  <2> QED BY <1>3, <1>4, <2>1 DEF Reaches, s, l
<1>5. CASE t.err = None
  <2>1. r.pos + l <= src.len /\ Reaches(r, t, r.pos + l, None)
    BY <1>3, <1>5
  <2>2. t \in Listing
    <3>1. r.pos + l \in Nat /\ None \in Errs /\ Listing \in {Decoding, Listing, Sizing, Census}
      BY <1>1 DEF Errs
    <3> QED BY <2>1, <3>1, ReachesIn
  <2>3. t.list = r.list /\ t.pos = r.pos + l
    <3>1. {"list"} \subseteq DOMAIN r \ {"pos", "err"}
      BY DEF Listing
    <3>2. \A x \in {"list"} : t[x] = r[x]
      BY <2>1, <3>1 DEF Reaches
    <3> QED BY <2>1, <3>2 DEF Reaches
  <2>4. t.pos - r.pos = l /\ Append(r.list, l) \in Seq(Nat)
    BY <1>1, <2>3
  <2>5. s = [t EXCEPT !.list = Append(r.list, l)]
    BY <1>2, <1>5, <2>2, <2>3, <2>4 DEF Listing
  <2>6. s \in Listing /\ s.err = None /\ s.pos = r.pos + l /\ s.list = Append(r.list, l)
    BY <1>5, <2>2, <2>3, <2>4, <2>5 DEF Listing
  <2> QED BY <2>1, <2>6 DEF s, l
<1> QED BY <1>4, <1>5

\* Where listing begins, and what it may be on the way.
ListBegin == [pos |-> 0, err |-> None, list |-> <<>>]
Lists(src) == {d \in Listing : d.err = None => d.pos <= src.len}

\* A step over one frame, if there is more to read.
ListStep(src, d, f) == IF ~More(src, d) THEN d ELSE InspectFrame(src, d, f)

LEMMA ListStepIn ==
  ASSUME NEW src, IsSource(src), NEW d \in Lists(src), NEW f \in Frame
  PROVE  ListStep(src, d, f) \in Lists(src)
<1>1. CASE ~More(src, d)
  BY <1>1 DEF ListStep
<1>2. CASE More(src, d)
  <2> DEFINE s == InspectFrame(src, d, f)
  <2>1. d \in Listing /\ d.err = None /\ d.pos <= src.len /\ src.len \in Nat
    BY <1>2 DEF Lists, More, IsSource
  <2>2. \/ /\ d.pos + FrameLen(f) <= src.len /\ s \in Listing /\ s.err = None
           /\ s.pos = d.pos + FrameLen(f)
        \/ s \in Listing /\ s.err # None
    BY <2>1, InspectFrameIs
  <2> HIDE DEF s
  <2>3. s \in Lists(src)
    BY <2>2 DEF Lists
  <2> QED BY <1>2, <2>3 DEF ListStep, s
<1> QED BY <1>1, <1>2

\* The frames of a source are listed one after another.
ListRun(src, g) ==
  /\ g \in [0..Len(src.frames) -> Lists(src)] /\ g[0] = ListBegin
  /\ \A k \in 1..Len(src.frames) : g[k] = ListStep(src, g[k - 1], src.frames[k])

LEMMA ListRuns ==
  ASSUME NEW src, IsSource(src)
  PROVE  \E g : ListRun(src, g) /\ (src.len # 0 => InspectFrames(src) = g[Len(src.frames)])
<1> DEFINE n == Len(src.frames)
           X == Lists(src)
           F == [p \in (1..n) \X X |-> ListStep(src, p[2], src.frames[p[1]])]
           body(g) == [i \in 0..n |->
                         IF i = 0 THEN [pos |-> 0, err |-> None, list |-> <<>>]
                         ELSE IF ~More(src, g[i - 1]) THEN g[i - 1]
                         ELSE InspectFrame(src, g[i - 1], src.frames[i])]
           after == CHOOSE g : g = body(g)
<1>1. n \in Nat \ {0} /\ \A k \in 1..n : src.frames[k] \in Frame
  BY SourceFrames DEF IsSource
<1>2. ListBegin \in X
  BY DEF ListBegin, Lists, Listing, IsSource, Errs
<1> HIDE DEF X
<1>3. \A k \in 1..n, d \in X : ListStep(src, d, src.frames[k]) \in X
  BY <1>1, ListStepIn DEF X
<1> HIDE DEF n
<1>4. F \in [(1..n) \X X -> X]
  BY <1>3
<1>5. \A k \in 1..n, d \in X : F[<<k, d>>] = ListStep(src, d, src.frames[k])
  OBVIOUS
<1> HIDE DEF F
<1>6. PICK g \in [0..n -> X] : g[0] = ListBegin /\ \A k \in 1..n : g[k] = F[<<k, g[k - 1]>>]
  <2>1. Iterated(n, X, ListBegin, F)
    BY <1>1, <1>2, <1>4, Iterates
  <2> QED BY <2>1 DEF Iterated
<1>7. \A k \in 1..n : g[k] = ListStep(src, g[k - 1], src.frames[k])
  <2> SUFFICES ASSUME NEW k \in 1..n PROVE g[k] = ListStep(src, g[k - 1], src.frames[k])
    OBVIOUS
  <2>1. k - 1 \in 0..n
    BY <1>1
  <2> QED BY <1>5, <1>6, <2>1
<1>8. g = body(g)
  <2>1. g = [i \in 0..n |-> g[i]]
    BY <1>6
  <2>2. ASSUME NEW i \in 0..n
        PROVE  g[i] = IF i = 0 THEN ListBegin
                      ELSE IF ~More(src, g[i - 1]) THEN g[i - 1]
                      ELSE InspectFrame(src, g[i - 1], src.frames[i])
    <3>1. CASE i = 0
      BY <1>6, <3>1
    <3>2. CASE i # 0
      <4>1. i \in 1..n
        BY <3>2
      <4> QED BY <1>7, <3>2, <4>1, Zenon DEF ListStep
    <3> QED BY <3>1, <3>2
  <2> QED BY <2>1, <2>2, Zenon DEF ListBegin
<1>9. after = body(after)
  <2> HIDE DEF body
  <2> QED BY <1>8
<1>10. \A i \in 0..n : after[i] = IF i = 0 THEN ListBegin
                                  ELSE IF ~More(src, after[i - 1]) THEN after[i - 1]
                                  ELSE InspectFrame(src, after[i - 1], src.frames[i])
  <2>1. \A i \in 0..n : body(after)[i] = IF i = 0 THEN ListBegin
                                  ELSE IF ~More(src, after[i - 1]) THEN after[i - 1]
                                  ELSE InspectFrame(src, after[i - 1], src.frames[i])
    <3> HIDE DEF after
    <3> QED BY Zenon DEF ListBegin
  <2> HIDE DEF after, body
  <2> QED BY <1>9, <2>1
<1>11. src.len # 0 => InspectFrames(src) = after[n]
  BY Zenon DEF InspectFrames, n
<1> HIDE DEF after, body
<1>12. \A k \in 0..n : after[k] = g[k]
  <2>1. ASSUME NEW k \in 1..n, after[k - 1] = g[k - 1] PROVE after[k] = g[k]
    <3>1. k \in 0..n /\ k # 0
      OBVIOUS
    <3> QED BY <1>7, <1>10, <2>1, <3>1, Zenon DEF ListStep
  <2>2. 0 \in 0..n
    BY <1>1
  <2>3. after[0] = g[0]
    BY <1>6, <1>10, <2>2, Zenon
  <2>4. StepAlike(n, after, g)
    BY <2>1, <2>3 DEF StepAlike
  <2> QED BY <1>1, <2>4, Alike DEF AlikeTo
<1>13. after[n] = g[n]
  BY <1>1, <1>12
<1>14. ListRun(src, g)
  BY <1>6, <1>7 DEF ListRun, n, X
<1>15. src.len # 0 => InspectFrames(src) = g[n]
  BY <1>11, <1>13
<1> QED BY <1>14, <1>15 DEF n


\* A walk that has listed the first j frames.
HasListed(src, d, j) ==
  /\ d.pos = SumTo(Sizes(src.frames), j) /\ d.pos <= src.len
  /\ d.list \in Seq(Nat) /\ Len(d.list) = j /\ \A i \in 1..j : d.list[i] = FrameLen(src.frames[i])

\* The source ends with its frame m, and a decoder would read all up to there.
ReadsAll(src, opts, m) ==
  SumTo(Sizes(src.frames), m) = src.len /\ \A i \in 1..m : Reads(src.frames[i], opts)

\* After k turns: k frames are listed, all of the source, or the walk has failed.
ListedTo(src, g, k) ==
  g[k].err = None => \E j \in 0..k : HasListed(src, g[k], j) /\ (j = k \/ g[k].pos = src.len)

LEMMA ListedToAll ==
  ASSUME NEW src, IsSource(src), NEW g, ListRun(src, g)
  PROVE  \A k \in 0..Len(src.frames) : ListedTo(src, g, k)
<1>1. PICK n \in Nat : n = Len(src.frames) /\ \A k \in 1..n : src.frames[k] \in Frame
  BY SourceFrames DEF IsSource
<1>2. /\ SumTo(Sizes(src.frames), 0) = 0
      /\ \A k \in 1..n :
           SumTo(Sizes(src.frames), k) = SumTo(Sizes(src.frames), k - 1) + FrameLen(src.frames[k])
  BY <1>1, FrameSums DEF IsSource
<1>3. /\ \A k \in 0..n : g[k] \in Lists(src)
      /\ g[0] = ListBegin /\ \A k \in 1..n : g[k] = ListStep(src, g[k - 1], src.frames[k])
  BY <1>1 DEF ListRun
<1>4. src.len \in Nat
  BY DEF IsSource
<1> DEFINE S == {k \in 0..n : ListedTo(src, g, k)}
<1>5. 0 \in S
  <2>1. ListBegin.pos = 0 /\ ListBegin.list = <<>> /\ Len(<<>>) = 0 /\ <<>> \in Seq(Nat)
    BY DEF ListBegin
  <2>2. HasListed(src, g[0], 0)
    BY <1>2, <1>3, <1>4, <2>1 DEF HasListed
  <2>3. 0 \in 0..0 /\ ListedTo(src, g, 0)
    BY <2>2 DEF ListedTo
  <2> QED BY <2>3
<1>6. ASSUME NEW k \in 1..n, k - 1 \in S PROVE k \in S
  <2> DEFINE d == g[k - 1]
             f == src.frames[k]
             s == InspectFrame(src, d, f)
  <2>1. k \in 0..n /\ k - 1 \in 0..n /\ f \in Frame /\ k - 1 \in Nat /\ k \in Nat
    BY <1>1
  <2>2. d.err = None => \E j \in 0..(k - 1) : HasListed(src, d, j) /\ (j = k - 1 \/ d.pos = src.len)
    BY <1>6 DEF ListedTo
  <2>3. d \in Lists(src) /\ d \in Listing /\ d.pos \in Nat /\ d.list \in Seq(Nat)
    BY <1>3, <2>1 DEF Lists, Listing
  <2>4. g[k] = IF ~More(src, d) THEN d ELSE s
    BY <1>3, <2>1 DEF ListStep
  <2>5. More(src, d) <=> d.err = None /\ d.pos < src.len
    BY <1>4, <2>3, MoreIs
  <2> HIDE DEF S
  <2>6. CASE ~More(src, d)
    <3>1. g[k] = d
      BY <2>4, <2>6
    <3>2. ASSUME d.err = None
          PROVE  \E j \in 0..k : HasListed(src, d, j) /\ (j = k \/ d.pos = src.len)
      <4>1. PICK j \in 0..(k - 1) : HasListed(src, d, j)
        BY <2>2, <3>2
      <4>2. d.pos = src.len
        BY <1>4, <2>3, <2>5, <2>6, <3>2 DEF Lists
      <4>3. j \in 0..k
        BY <2>1
      <4> QED BY <4>1, <4>2, <4>3
    <3>3. ListedTo(src, g, k)
      BY <3>1, <3>2 DEF ListedTo
    <3> QED BY <2>1, <3>3 DEF S
  <2>7. CASE More(src, d)
    <3>1. g[k] = s /\ d.err = None /\ d.pos < src.len /\ d.pos <= src.len
      BY <2>3, <2>4, <2>5, <2>7 DEF Lists
    <3>2. \/ /\ d.pos + FrameLen(f) <= src.len /\ s.err = None /\ s.list \in Seq(Nat)
             /\ s.pos = d.pos + FrameLen(f) /\ s.list = Append(d.list, FrameLen(f))
          \/ s.err # None
      BY <1>4, <2>1, <2>3, <3>1, InspectFrameIs DEF Listing
    <3>3. HasListed(src, d, k - 1)
      <4>1. PICK j \in 0..(k - 1) : HasListed(src, d, j) /\ (j = k - 1 \/ d.pos = src.len)
        BY <2>2, <3>1
      <4> QED BY <1>4, <2>3, <3>1, <4>1
    <3> HIDE DEF d, f, s
    <3>4. CASE s.err # None
      <4>1. ListedTo(src, g, k)
        BY <3>1, <3>4 DEF ListedTo
      <4> QED BY <2>1, <4>1 DEF S
    <3>5. CASE s.err = None
      <4>1. d.pos + FrameLen(f) <= src.len /\ s.pos = d.pos + FrameLen(f)
            /\ s.list = Append(d.list, FrameLen(f))
           /\ s.list \in Seq(Nat)
        BY <3>2, <3>5
      <4>2. Len(d.list) = k - 1 /\ \A i \in 1..(k - 1) : d.list[i] = FrameLen(src.frames[i])
        BY <3>3 DEF HasListed
      <4>3. Len(s.list) = k
        BY <2>1, <2>3, <4>1, <4>2
      <4>4. ASSUME NEW i \in 1..k PROVE s.list[i] = FrameLen(src.frames[i])
        <5>1. CASE i = k
          <6>1. i = Len(d.list) + 1
            BY <2>1, <4>2, <5>1
          <6>2. s.list[i] = FrameLen(f)
            BY <2>3, <4>1, <6>1
          <6> QED BY <5>1, <6>2 DEF f
        <5>2. CASE i # k
          <6>1. i \in 1..(k - 1)
            BY <2>1, <5>2
          <6>2. s.list[i] = d.list[i]
            BY <2>3, <4>1, <4>2, <6>1
          <6> QED BY <4>2, <6>1, <6>2
        <5> QED BY <5>1, <5>2
      <4>5. s.pos = SumTo(Sizes(src.frames), k) /\ s.pos <= src.len
        BY <1>2, <3>3, <4>1 DEF HasListed, f
      <4>6. HasListed(src, s, k)
        BY <4>1, <4>3, <4>4, <4>5 DEF HasListed
      <4>7. k \in 0..k
        BY <2>1
      <4>8. ListedTo(src, g, k)
        BY <3>1, <4>6, <4>7 DEF ListedTo
      <4> QED BY <2>1, <4>8 DEF S
    <3> QED BY <3>4, <3>5
  <2> QED BY <2>6, <2>7
<1>7. \A k \in 0..n : k \in S
  <2> HIDE DEF S
  <2> QED BY <1>5, <1>6, Throughout
<1> QED BY <1>1, <1>7

\* Listing does not fail before the end of a source that is read to there.
LEMMA ListsAll ==
  ASSUME NEW src, IsSource(src), NEW g, ListRun(src, g), NEW opts \in Options,
         NEW m \in 0..Len(src.frames), ReadsAll(src, opts, m)
  PROVE  \A k \in 0..Len(src.frames) : g[k].err = None
<1>1. PICK n \in Nat : n = Len(src.frames) /\ \A k \in 1..n : src.frames[k] \in Frame
  BY SourceFrames DEF IsSource
<1>2. /\ Sizes(src.frames) \in Seq(Nat) /\ Len(Sizes(src.frames)) = n
      /\ \A k \in 1..n : /\ SumTo(Sizes(src.frames), k)
                              = SumTo(Sizes(src.frames), k - 1) + FrameLen(src.frames[k])
                         /\ SumTo(Sizes(src.frames), k) \in Nat
  BY <1>1, FrameSums DEF IsSource
<1>3. /\ \A k \in 0..n : g[k] \in Lists(src)
      /\ g[0] = ListBegin /\ \A k \in 1..n : g[k] = ListStep(src, g[k - 1], src.frames[k])
  BY <1>1 DEF ListRun
<1>4. src.len \in Nat /\ m \in 0..n /\ src.len = SumTo(Sizes(src.frames), m)
      /\ \A i \in 1..m : Reads(src.frames[i], opts)
  BY <1>1 DEF IsSource, ReadsAll
<1> DEFINE S == {k \in 0..n : g[k].err = None}
<1>5. 0 \in S
  BY <1>3 DEF ListBegin
<1>6. ASSUME NEW k \in 1..n, k - 1 \in S PROVE k \in S
  <2> DEFINE d == g[k - 1]
             f == src.frames[k]
             s == InspectFrame(src, d, f)
  <2>1. k \in 0..n /\ k - 1 \in 0..n /\ f \in Frame
    BY <1>1
  <2>2. d.err = None /\ d \in Lists(src) /\ d \in Listing /\ d.pos \in Nat /\ d.pos <= src.len
    BY <1>3, <1>6, <2>1 DEF Lists, Listing
  <2>3. g[k] = IF ~More(src, d) THEN d ELSE s
    BY <1>3, <2>1 DEF ListStep
  <2>4. More(src, d) <=> d.pos < src.len
    BY <1>4, <2>2, MoreIs
  <2>5. PICK j \in 0..(k - 1) : HasListed(src, d, j) /\ (j = k - 1 \/ d.pos = src.len)
    BY <1>1, <2>1, <2>2, ListedToAll DEF ListedTo
  <2> HIDE DEF d, f, s, S
  <2>6. CASE ~More(src, d)
    BY <2>1, <2>2, <2>3, <2>6 DEF S
  <2>7. CASE More(src, d)
    <3>1. d.pos < src.len /\ d.pos = SumTo(Sizes(src.frames), k - 1)
      BY <1>4, <2>2, <2>4, <2>5, <2>7 DEF HasListed
    <3>2. k <= m
      <4>1. SUFFICES ASSUME m <= k - 1 PROVE FALSE
        BY <1>1, <1>4, <2>1
      <4>2. SumTo(Sizes(src.frames), m) <= SumTo(Sizes(src.frames), k - 1)
        BY <1>1, <1>2, <1>4, <2>1, <4>1, SumsGrow
      <4> QED BY <1>4, <2>2, <3>1, <4>2
    <3>3. k \in 1..m /\ k \in 0..n
      BY <1>4, <2>1, <3>2
    <3>4. SumTo(Sizes(src.frames), k) <= src.len
      BY <1>1, <1>2, <1>4, <3>2, <3>3, SumsGrow
    <3>5. Reads(f, opts) /\ d.pos + FrameLen(f) <= src.len
      BY <1>2, <1>4, <3>1, <3>3, <3>4 DEF f
    <3>6. s.err = None
      BY <1>4, <2>1, <2>2, <3>5, InspectFrameIs DEF s
    <3> QED BY <2>1, <2>3, <2>7, <3>6 DEF S
  <2> QED BY <2>6, <2>7
<1>7. \A k \in 0..n : k \in S
  <2> HIDE DEF S
  <2> QED BY <1>5, <1>6, Throughout
<1> QED BY <1>1, <1>7

\* What listing comes to: whole frames that end where the source does, or an error;
\* and no error where a decoder would read them.
LEMMA InspectIs ==
  ASSUME NEW src, IsSource(src)
  PROVE  LET d == InspectFrames(src)
         IN  /\ d.err = None =>
                  \E j \in 1..Len(src.frames) : HasListed(src, d, j) /\ d.pos = src.len
             /\ (\E opts \in Options, m \in 1..Len(src.frames) : ReadsAll(src, opts, m)) =>
                  d.err = None
<1> DEFINE d == InspectFrames(src)
<1>1. PICK n \in Nat \ {0} : n = Len(src.frames) /\ \A k \in 1..n : src.frames[k] \in Frame
  BY SourceFrames DEF IsSource
<1>2. PICK g : ListRun(src, g) /\ (src.len # 0 => d = g[n])
  BY <1>1, ListRuns
<1>3. n \in 0..n /\ 0 \in 0..n /\ g[n] \in Lists(src) /\ g[n] \in Listing
  BY <1>1, <1>2 DEF ListRun, Lists
<1>4. ListedTo(src, g, n)
  BY <1>1, <1>2, <1>3, ListedToAll
<1>5. src.len \in Nat /\ src.len <= WholeLen(src.frames) /\ SumTo(Sizes(src.frames), n) = WholeLen(src.frames)
      /\ SumTo(Sizes(src.frames), 0) = 0
  BY <1>1, FrameSums DEF IsSource
<1>6. CASE src.len = 0
  <2>1. d = [ListBegin EXCEPT !.err = "UnexpectedEof"]
    BY <1>6, Zenon DEF InspectFrames, Fail, ListBegin
  <2>2. d.err = "UnexpectedEof" /\ "UnexpectedEof" # None
    BY <2>1, ErrorsAre DEF ListBegin, Errors
  <2>3. ASSUME NEW opts \in Options, NEW m \in 1..n, ReadsAll(src, opts, m) PROVE FALSE
    <3>1. /\ SumTo(Sizes(src.frames), m) = SumTo(Sizes(src.frames), m - 1) + FrameLen(src.frames[m])
          /\ SumTo(Sizes(src.frames), m - 1) \in Nat /\ FrameLen(src.frames[m]) \in Nat \ {0}
      <4>1. m - 1 \in 0..n
        BY <1>1
      <4> QED BY <1>1, <4>1, FrameSums, FrameLens DEF IsSource
    <3> QED BY <1>6, <2>3, <3>1 DEF ReadsAll
  <2> QED BY <1>1, <2>2, <2>3
<1>7. CASE src.len # 0
  <2>1. d = g[n]
    BY <1>2, <1>7
  <2> HIDE DEF d
  <2>2. ASSUME d.err = None
        PROVE  \E j \in 1..n : HasListed(src, d, j) /\ d.pos = src.len
    <3>1. PICK j \in 0..n : HasListed(src, d, j) /\ (j = n \/ d.pos = src.len)
      BY <1>4, <2>1, <2>2 DEF ListedTo
    <3>2. d.pos \in Nat /\ d.pos = SumTo(Sizes(src.frames), j) /\ d.pos <= src.len
      BY <1>3, <2>1, <3>1 DEF HasListed, Listing
    <3>3. d.pos = src.len
      <4>1. CASE j = n
        BY <1>5, <3>2, <4>1
      <4> QED BY <3>1, <4>1
    <3>4. j # 0
      BY <1>5, <1>7, <3>2, <3>3
    <3>5. j \in 1..n
      BY <1>1, <3>4
    <3> QED BY <3>1, <3>3, <3>5
  <2>3. ASSUME NEW opts \in Options, NEW m \in 1..n, ReadsAll(src, opts, m) PROVE d.err = None
    <3>1. m \in 0..n
      OBVIOUS
    <3> QED BY <1>1, <1>2, <1>3, <2>1, <2>3, <3>1, ListsAll
  <2> QED BY <1>1, <2>2, <2>3 DEF d
<1> QED BY <1>6, <1>7

-----------------------------------------------------------------------------
(* Asking for the content size. *)

\* What is asked of one frame.
LEMMA SizeFrameIs ==
  ASSUME NEW src, src.len \in Nat, NEW r \in Sizing, r.err = None, r.pos <= src.len, NEW f \in Frame
  PROVE  LET s == SizeFrame(src, r, f)
         IN  /\ s \in Sizing /\ (s.err = None => s.pos <= src.len)
             /\ f.kind = "zstd" => s.size \in {r.size, f.content_size} /\ (s.err = None => s.found)
             /\ f.kind # "zstd" => s.size = r.size
<1> DEFINE k == ParseKind(src, r, f)
           s == SizeFrame(src, r, f)
           h == HeaderLen(f)
           goal == /\ s \in Sizing /\ (s.err = None => s.pos <= src.len)
                   /\ f.kind = "zstd" => s.size \in {r.size, f.content_size} /\ (s.err = None => s.found)
                   /\ f.kind # "zstd" => s.size = r.size
<1> HIDE DEF goal
<1> SUFFICES goal
  BY DEF goal
<1>1. /\ r.pos \in Nat /\ h \in Nat /\ r \in Reading /\ {"pos", "err"} \subseteq DOMAIN r
      /\ Sizing \in {Decoding, Listing, Sizing, Census} /\ None \in Errs
      /\ {"size"} \subseteq DOMAIN r \ {"pos", "err"} /\ r.size \in Nat \cup {None}
  BY FrameLens DEF Sizing, Reading, Errs
<1>2. \/ Begun(f) /\ r.pos + h <= src.len /\ Reaches(r, k, r.pos + h, None)
      \/ ~(Begun(f) /\ r.pos + h <= src.len) /\ FailsAt(r, k)
  BY <1>1, ParseKindIs
<1> HIDE DEF h
<1>3. CASE FailsAt(r, k)
  <2>1. k \in Sizing /\ k.err # None
    BY <1>1, <1>3, FailsIn
  <2>2. k.size = r.size
    <3>1. \A x \in {"size"} : k[x] = r[x]
      BY <1>1, <1>3 DEF FailsAt, Reaches
    <3> QED BY <3>1
  <2>3. s = k
    BY <2>1, Zenon DEF SizeFrame
  <2> HIDE DEF s, k
  <2> QED BY <2>1, <2>2, <2>3 DEF goal, s, k
<1>4. CASE Begun(f) /\ r.pos + h <= src.len /\ Reaches(r, k, r.pos + h, None)
  <2>1. k.err = None /\ k.pos = r.pos + h /\ k.size = r.size
    <3>1. \A x \in {"size"} : k[x] = r[x]
      BY <1>1, <1>4 DEF Reaches
    <3> QED BY <1>4, <3>1 DEF Reaches
  <2>2. k \in Sizing /\ k.pos \in Nat /\ {"pos", "err"} \subseteq DOMAIN k
        /\ {"size"} \subseteq DOMAIN k \ {"pos", "err"}
    <3>1. r.pos + h \in Nat
      BY <1>1
    <3>2. k \in Sizing
      BY <1>1, <1>4, <3>1, ReachesIn
    <3> QED BY <3>2 DEF Sizing
  <2>3. CASE f.kind = "skippable"
    <3> DEFINE t == Take(src, k, f.size)
    <3>1. s = t
      BY <2>1, <2>3, Zenon DEF SizeFrame
    <3>2. f.size \in Nat
      <4>1. f \notin ZstdFrame
        BY <2>3, FrameHas
      <4> QED BY <2>3, <4>1, FrameKinds
    <3>3. /\ k.pos + f.size <= src.len => Reaches(k, t, k.pos + f.size, None)
          /\ ~(k.pos + f.size <= src.len) => Reaches(k, t, k.pos, "UnexpectedEof")
      BY <2>1, <2>2, <3>2, TakeIs
    <3>4. k.pos + f.size \in Nat /\ k.pos >= k.pos /\ f.kind # "zstd" /\ "UnexpectedEof" \in Errors
      BY <2>2, <2>3, <3>2 DEF Errors
    <3> HIDE DEF t, s, k
    <3>5. CASE k.pos + f.size <= src.len
      <4>1. t \in Sizing /\ t.pos <= src.len
        BY <1>1, <2>2, <3>3, <3>4, <3>5, ReachesIn DEF Reaches
      <4>2. \A x \in {"size"} : t[x] = k[x]
        BY <2>2, <3>3, <3>5 DEF Reaches
      <4> QED BY <2>1, <3>1, <3>4, <4>1, <4>2 DEF goal, s
    <3>6. CASE ~(k.pos + f.size <= src.len)
      <4>1. FailsAt(k, t)
        BY <2>2, <3>3, <3>4, <3>6 DEF FailsAt
      <4>2. t \in Sizing /\ t.err # None
        BY <1>1, <2>2, <4>1, FailsIn
      <4>3. \A x \in {"size"} : t[x] = k[x]
        BY <2>2, <3>3, <3>6 DEF Reaches
      <4> QED BY <2>1, <3>1, <3>4, <4>2, <4>3 DEF goal, s
    <3> QED BY <3>5, <3>6
  <2>4. CASE f.kind = "zstd" /\ f \in ZstdFrame
    <3>1. s = [k EXCEPT !.found = TRUE, !.size = f.content_size]
      <4>1. "skippable" # "zstd"
        OBVIOUS
      <4> QED BY <2>1, <2>4, <4>1, Zenon DEF SizeFrame
    <3>2. f.content_size \in Nat \cup {None}
      BY <2>4, FrameHas
    <3> HIDE DEF s, k
    <3>3. s \in Sizing /\ s.pos = k.pos /\ s.found /\ s.size = f.content_size
      BY <2>2, <3>1, <3>2 DEF Sizing
    <3> QED BY <1>1, <1>4, <2>1, <2>4, <3>3 DEF goal, s
  <2> QED BY <1>4, <2>3, <2>4, FrameKinds DEF Begun
<1> QED BY <1>2, <1>3, <1>4

\* Where the walk begins, and what it may be on the way.
SizeBegin == [pos |-> 0, err |-> None, found |-> FALSE, size |-> None]
Sizers(src) == {d \in Sizing : d.err = None => d.pos <= src.len}

\* A step over one frame, if nothing was found yet.
SizeStep(src, d, f) == IF d.err # None \/ d.found THEN d ELSE SizeFrame(src, d, f)

LEMMA SizeStepIn ==
  ASSUME NEW src, IsSource(src), NEW d \in Sizers(src), NEW f \in Frame
  PROVE  SizeStep(src, d, f) \in Sizers(src)
<1>1. CASE d.err # None \/ d.found
  BY <1>1 DEF SizeStep
<1>2. CASE ~(d.err # None \/ d.found)
  <2>1. d \in Sizing /\ d.err = None /\ d.pos <= src.len /\ src.len \in Nat
    BY <1>2 DEF Sizers, IsSource
  <2>2. SizeFrame(src, d, f) \in Sizers(src)
    BY <2>1, SizeFrameIs DEF Sizers
  <2> QED BY <1>2, <2>2 DEF SizeStep
<1> QED BY <1>1, <1>2

\* The frames of a source are asked one after another.
SizeRun(src, g) ==
  /\ g \in [0..Len(src.frames) -> Sizers(src)] /\ g[0] = SizeBegin
  /\ \A k \in 1..Len(src.frames) : g[k] = SizeStep(src, g[k - 1], src.frames[k])

\* What the walk comes to.
SizeEnd(e) == IF e.err = None /\ ~e.found THEN Fail(e, "UnexpectedEof") ELSE e

LEMMA SizeRuns ==
  ASSUME NEW src, IsSource(src)
  PROVE  \E g : SizeRun(src, g) /\ ContentSize(src) = SizeEnd(g[Len(src.frames)])
<1> DEFINE n == Len(src.frames)
           X == Sizers(src)
           F == [p \in (1..n) \X X |-> SizeStep(src, p[2], src.frames[p[1]])]
           body(g) == [i \in 0..n |->
                         IF i = 0 THEN [pos |-> 0, err |-> None, found |-> FALSE, size |-> None]
                         ELSE IF g[i - 1].err # None \/ g[i - 1].found THEN g[i - 1]
                         ELSE SizeFrame(src, g[i - 1], src.frames[i])]
           after == CHOOSE g : g = body(g)
<1>1. n \in Nat \ {0} /\ \A k \in 1..n : src.frames[k] \in Frame
  BY SourceFrames DEF IsSource
<1>2. SizeBegin \in X
  BY DEF SizeBegin, Sizers, Sizing, IsSource, Errs
<1> HIDE DEF X
<1>3. \A k \in 1..n, d \in X : SizeStep(src, d, src.frames[k]) \in X
  BY <1>1, SizeStepIn DEF X
<1> HIDE DEF n
<1>4. F \in [(1..n) \X X -> X]
  BY <1>3
<1>5. \A k \in 1..n, d \in X : F[<<k, d>>] = SizeStep(src, d, src.frames[k])
  OBVIOUS
<1> HIDE DEF F
<1>6. PICK g \in [0..n -> X] : g[0] = SizeBegin /\ \A k \in 1..n : g[k] = F[<<k, g[k - 1]>>]
  <2>1. Iterated(n, X, SizeBegin, F)
    BY <1>1, <1>2, <1>4, Iterates
  <2> QED BY <2>1 DEF Iterated
<1>7. \A k \in 1..n : g[k] = SizeStep(src, g[k - 1], src.frames[k])
  <2> SUFFICES ASSUME NEW k \in 1..n PROVE g[k] = SizeStep(src, g[k - 1], src.frames[k])
    OBVIOUS
  <2>1. k - 1 \in 0..n
    BY <1>1
  <2> QED BY <1>5, <1>6, <2>1
<1>8. g = body(g)
  <2>1. g = [i \in 0..n |-> g[i]]
    BY <1>6
  <2>2. ASSUME NEW i \in 0..n
        PROVE  g[i] = IF i = 0 THEN SizeBegin
                      ELSE IF g[i - 1].err # None \/ g[i - 1].found THEN g[i - 1]
                      ELSE SizeFrame(src, g[i - 1], src.frames[i])
    <3>1. CASE i = 0
      BY <1>6, <3>1
    <3>2. CASE i # 0
      <4>1. i \in 1..n
        BY <3>2
      <4> QED BY <1>7, <3>2, <4>1, Zenon DEF SizeStep
    <3> QED BY <3>1, <3>2
  <2> QED BY <2>1, <2>2, Zenon DEF SizeBegin
<1>9. after = body(after)
  <2> HIDE DEF body
  <2> QED BY <1>8
<1>10. \A i \in 0..n : after[i] = IF i = 0 THEN SizeBegin
                                  ELSE IF after[i - 1].err # None \/ after[i - 1].found THEN after[i - 1]
                                  ELSE SizeFrame(src, after[i - 1], src.frames[i])
  <2>1. \A i \in 0..n : body(after)[i] = IF i = 0 THEN SizeBegin
                                  ELSE IF after[i - 1].err # None \/ after[i - 1].found THEN after[i - 1]
                                  ELSE SizeFrame(src, after[i - 1], src.frames[i])
    <3> HIDE DEF after
    <3> QED BY Zenon DEF SizeBegin
  <2> HIDE DEF after, body
  <2> QED BY <1>9, <2>1
<1>11. ContentSize(src) = SizeEnd(after[n])
  BY Zenon DEF ContentSize, SizeEnd, n
<1> HIDE DEF after, body
<1>12. \A k \in 0..n : after[k] = g[k]
  <2>1. ASSUME NEW k \in 1..n, after[k - 1] = g[k - 1] PROVE after[k] = g[k]
    <3>1. k \in 0..n /\ k # 0
      OBVIOUS
    <3> QED BY <1>7, <1>10, <2>1, <3>1, Zenon DEF SizeStep
  <2>2. 0 \in 0..n
    BY <1>1
  <2>3. after[0] = g[0]
    BY <1>6, <1>10, <2>2, Zenon
  <2>4. StepAlike(n, after, g)
    BY <2>1, <2>3 DEF StepAlike
  <2> QED BY <1>1, <2>4, Alike DEF AlikeTo
<1>13. after[n] = g[n]
  BY <1>1, <1>12
<1>14. SizeRun(src, g)
  BY <1>6, <1>7 DEF SizeRun, n, X
<1>15. ContentSize(src) = SizeEnd(g[n])
  BY <1>11, <1>13
<1> QED BY <1>14, <1>15 DEF n



\* What is asked for is found in the first Zstd frame, or not at all.
LEMMA ContentSizeIs ==
  ASSUME NEW src, IsSource(src), NEW m \in 1..Len(src.frames), src.frames[m].kind = "zstd",
         \A i \in 1..(m - 1) : src.frames[i].kind # "zstd"
  PROVE  ContentSize(src).size \in {None, src.frames[m].content_size}
<1>1. PICK n \in Nat \ {0} : n = Len(src.frames) /\ \A k \in 1..n : src.frames[k] \in Frame
  BY SourceFrames DEF IsSource
<1>2. PICK g : SizeRun(src, g) /\ ContentSize(src) = SizeEnd(g[n])
  BY <1>1, SizeRuns
<1>3. /\ \A k \in 0..n : g[k] \in Sizers(src)
      /\ g[0] = SizeBegin /\ \A k \in 1..n : g[k] = SizeStep(src, g[k - 1], src.frames[k])
  BY <1>1, <1>2 DEF SizeRun
<1> DEFINE size == src.frames[m].content_size
           Q(k) == /\ g[k].size \in {None, size}
                   /\ g[k].err = None /\ ~g[k].found => k <= m - 1
           S == {k \in 0..n : Q(k)}
<1>4. 0 \in S /\ m \in 1..n
  BY <1>1, <1>3 DEF SizeBegin
<1>5. ASSUME NEW k \in 1..n, k - 1 \in S PROVE k \in S
  <2> DEFINE d == g[k - 1]
             f == src.frames[k]
             s == SizeFrame(src, d, f)
  <2>1. k \in 0..n /\ k - 1 \in 0..n /\ f \in Frame /\ src.len \in Nat
    BY <1>1 DEF IsSource
  <2>2. d.size \in {None, size} /\ (d.err = None /\ ~d.found => k - 1 <= m - 1)
    BY <1>5
  <2>3. g[k] = IF d.err # None \/ d.found THEN d ELSE s
    BY <1>3, <2>1 DEF SizeStep
  <2>4. d \in Sizing /\ (d.err = None => d.pos <= src.len)
    BY <1>3, <2>1 DEF Sizers
  <2>5. d.err = None =>
          /\ f.kind = "zstd" => s.size \in {d.size, f.content_size} /\ (s.err = None => s.found)
          /\ f.kind # "zstd" => s.size = d.size
    BY <2>1, <2>4, SizeFrameIs
  <2> SUFFICES Q(k)
    BY <2>1
  <2>6. k <= m - 1 => f.kind # "zstd"
    BY <1>4
  <2>7. k = m => f.kind = "zstd" /\ f.content_size = size
    OBVIOUS
  <2> HIDE DEF d, f, s, size
  <2>8. CASE d.err # None \/ d.found
    BY <2>2, <2>3, <2>8
  <2>9. CASE ~(d.err # None \/ d.found)
    <3>1. g[k] = s /\ d.err = None /\ k - 1 <= m - 1
      BY <2>2, <2>3, <2>9
    <3>2. k = m \/ k <= m - 1
      BY <1>4, <3>1
    <3> QED BY <2>2, <2>5, <2>6, <2>7, <3>1, <3>2
  <2> QED BY <2>8, <2>9
<1>6. \A k \in 0..n : k \in S
  <2> HIDE DEF S
  <2> QED BY <1>1, <1>4, <1>5, Throughout
<1>7. n \in 0..n /\ g[n].size \in {None, size} /\ g[n] \in Sizing
  <2>1. n \in S /\ n \in 0..n
    BY <1>1, <1>6
  <2> QED BY <1>3, <2>1 DEF Sizers
<1>8. ContentSize(src) = g[n] \/ ContentSize(src) = [g[n] EXCEPT !.err = "UnexpectedEof"]
  BY <1>2 DEF SizeEnd, Fail
<1> HIDE DEF size
<1>9. ContentSize(src).size = g[n].size
  BY <1>7, <1>8 DEF Sizing
<1> QED BY <1>7, <1>9 DEF size

\* The first Zstd frame of a source that has one.
LEMMA FirstZstdIs ==
  ASSUME NEW frames \in Source, NEW j \in 1..Len(frames), frames[j].kind = "zstd"
  PROVE  /\ FirstZstd(frames) \in 1..j /\ frames[FirstZstd(frames)].kind = "zstd"
         /\ \A i \in 1..(FirstZstd(frames) - 1) : frames[i].kind # "zstd"
<1> DEFINE T == {i \in DOMAIN frames : frames[i].kind = "zstd"}
           m == FirstZstd(frames)
<1>1. PICK n \in Nat : n = Len(frames) /\ DOMAIN frames = 1..n
  BY SourceFrames DEF Source
<1>2. T \in SUBSET Nat /\ j \in T /\ T \subseteq 1..n
  BY <1>1
<1>3. \E x \in T : \A y \in T : x <= y
  <2> HIDE DEF T
  <2> QED BY <1>2, Least
<1>4. m \in T /\ \A y \in T : m <= y
  <2>1. m = CHOOSE x \in T : \A y \in T : x <= y
    BY Zenon DEF FirstZstd, Min
  <2> HIDE DEF T, m
  <2> QED BY <1>3, <2>1, Zenon
<1> HIDE DEF m
<1>5. m \in 1..j /\ frames[m].kind = "zstd"
  BY <1>2, <1>4
<1>6. \A i \in 1..(m - 1) : frames[i].kind # "zstd"
  <2> SUFFICES ASSUME NEW i \in 1..(m - 1), frames[i].kind = "zstd" PROVE FALSE
    OBVIOUS
  <2>1. i \in T
    BY <1>1, <1>5
  <2>2. m <= i
    BY <1>4, <2>1
  <2> QED BY <1>5, <2>2
<1> QED BY <1>5, <1>6 DEF m

-----------------------------------------------------------------------------
(* The walks agree. *)

\* The end of the first i frames.
LEMMA BoundaryIs ==
  ASSUME NEW frames \in Source, NEW i \in 1..Len(frames)
  PROVE  WholeLen(SubSeq(frames, 1, i)) = SumTo(Sizes(frames), i)
<1> DEFINE p == SubSeq(frames, 1, i)
           q == [x \in DOMAIN p |-> FrameLen(p[x])]
           s == Sizes(frames)
           r == SubSeq(s, 1, i)
<1>1. PICK n \in Nat : n = Len(frames) /\ \A k \in 1..n : frames[k] \in Frame
  BY SourceFrames
<1>2. frames \in Seq(Frame) /\ i \in 1..n
  BY <1>1 DEF Source
<1>3. Len(p) = i /\ p \in Seq(Frame) /\ \A x \in 1..i : p[x] = frames[x]
  <2>1. /\ SubSeq(frames, 1, i) \in Seq(Frame)
        /\ Len(SubSeq(frames, 1, i)) = IF 1 <= i THEN i - 1 + 1 ELSE 0
        /\ \A x \in 1..(i - 1 + 1) : SubSeq(frames, 1, i)[x] = frames[1 + x - 1]
    <3>1. 1 \in Int /\ i \in Int /\ \A x \in 1..i : frames[x] \in Frame
      BY <1>1, <1>2
    <3> QED BY <3>1, SubSeqProperties
  <2>2. i - 1 + 1 = i /\ 1 <= i /\ \A x \in 1..i : 1 + x - 1 = x
    BY <1>2
  <2> QED BY <2>1, <2>2
<1>4. s \in Seq(Nat) /\ Len(s) = n /\ \A k \in 1..n : s[k] = FrameLen(frames[k])
  BY <1>1, FrameSums
<1> HIDE DEF p, s
<1>5. DOMAIN p = 1..i
  BY <1>2, <1>3
<1>6. q = [x \in 1..i |-> q[x]] /\ \A x \in 1..i : q[x] = FrameLen(frames[x])
  BY <1>3, <1>5
<1> HIDE DEF q
<1>7. q \in Seq(Nat) /\ Len(q) = i
  <2>1. \A x \in 1..i : q[x] \in Nat
    BY <1>1, <1>2, <1>6, FrameLens
  <2> QED BY <1>2, <1>6, <2>1, NumbersSeq
<1>8. Part(s, 0, i, q)
  <2>1. \A x \in 1..i : x \in 1..n
    BY <1>1, <1>2
  <2>2. i - 0 = i /\ \A x \in 1..i : 0 + x = x
    BY <1>2
  <2> QED BY <1>4, <1>6, <1>7, <2>1, <2>2 DEF Part
<1>9. Part(s, 0, i, SubSeq(s, 0 + 1, i))
  <2>1. 0 \in Nat /\ i \in Nat /\ 0 <= i /\ i <= Len(s)
    BY <1>2, <1>4
  <2> QED BY <1>4, <2>1, PartIs
<1>10. q = SubSeq(s, 1, i)
  <2>1. 0 \in Nat /\ i \in Nat /\ 0 + 1 = 1
    BY <1>2
  <2> QED BY <1>8, <1>9, <2>1, PartOne
<1>11. WholeLen(p) = SumOf(q)
  BY Zenon DEF WholeLen, q
<1> QED BY <1>10, <1>11 DEF SumTo, p, s

\* No two of the first j frames end at one place, and those behind end further on.
LEMMA BoundariesCount ==
  ASSUME NEW frames \in Source, NEW j \in 1..Len(frames)
  PROVE  Cardinality({e \in Boundaries(frames) : e <= SumTo(Sizes(frames), j)}) = j
<1> DEFINE at(i) == SumTo(Sizes(frames), i)
           S == {e \in Boundaries(frames) : e <= at(j)}
           f == [i \in 1..j |-> at(i)]
<1>1. PICK n \in Nat : n = Len(frames) /\ \A k \in 1..n : frames[k] \in Frame
  BY SourceFrames
<1>2. j \in 1..n
  BY <1>1
<1>3. \A i \in 1..n : at(i) \in Nat
  BY <1>1, FrameSums
<1>4. ASSUME NEW a \in 1..n, NEW b \in 1..n, a < b PROVE at(a) < at(b)
  <2>1. a \in 0..n /\ b - 1 \in 0..n /\ a <= b - 1
    BY <1>1, <1>4
  <2>2. at(a) <= at(b - 1)
    BY <1>1, <2>1, FrameSums, SumsGrow
  <2>3. at(b) = at(b - 1) + FrameLen(frames[b]) /\ FrameLen(frames[b]) \in Nat \ {0} /\ at(b - 1) \in Nat
    BY <1>1, <2>1, FrameSums, FrameLens
  <2>4. at(a) \in Nat
    BY <1>3
  <2> HIDE DEF at
  <2> QED BY <2>2, <2>3, <2>4
<1>5. Boundaries(frames) = {at(i) : i \in 1..n}
  <2>1. \A i \in 1..n : WholeLen(SubSeq(frames, 1, i)) = at(i)
    BY <1>1, BoundaryIs
  <2> HIDE DEF at
  <2> QED BY <1>1, <2>1 DEF Boundaries
<1> HIDE DEF at
<1>6. \A x \in S : \E i \in 1..j : at(i) = x
  <2> SUFFICES ASSUME NEW x \in S PROVE \E i \in 1..j : at(i) = x
    OBVIOUS
  <2>1. PICK i \in 1..n : at(i) = x
    BY <1>5
  <2>2. at(i) <= at(j)
    BY <2>1
  <2>3. ~(j < i)
    BY <1>2, <1>3, <1>4, <2>2
  <2> QED BY <1>1, <1>2, <2>1, <2>3
<1>7. \A i \in 1..j : at(i) \in S
  <2> SUFFICES ASSUME NEW i \in 1..j PROVE at(i) \in S
    OBVIOUS
  <2>1. i \in 1..n
    BY <1>1, <1>2
  <2>2. at(i) <= at(j)
    <3>1. i = j \/ i < j
      BY <1>2
    <3> QED BY <1>2, <1>3, <1>4, <2>1, <3>1
  <2> QED BY <1>5, <2>1, <2>2
<1>8. \A a, b \in 1..j : at(a) = at(b) => a = b
  <2> SUFFICES ASSUME NEW a \in 1..j, NEW b \in 1..j, a # b PROVE at(a) # at(b)
    OBVIOUS
  <2>1. a \in 1..n /\ b \in 1..n /\ (a < b \/ b < a)
    BY <1>1, <1>2
  <2>2. at(a) < at(b) \/ at(b) < at(a)
    BY <1>4, <2>1
  <2> QED BY <1>3, <2>1, <2>2
<1> HIDE DEF S
<1>9. f \in [1..j -> S] /\ \A i \in 1..j : f[i] = at(i)
  BY <1>7
<1> HIDE DEF f
<1>10. f \in Bijection(1..j, S)
  <2>1. DOMAIN f = 1..j
    BY <1>9
  <2>2. f \in Injection(1..j, S)
    BY <1>8, <1>9, <2>1 DEF Injection, IsInjective
  <2>3. f \in Surjection(1..j, S)
    BY <1>6, <1>9 DEF Surjection
  <2> QED BY <2>2, <2>3 DEF Bijection
<1>11. Cardinality(S) = j
  <2>1. ExistsBijection(1..j, S) /\ j \in Nat
    BY <1>2, <1>10 DEF ExistsBijection
  <2> QED BY <2>1, FS_CountingElements
<1> QED BY <1>11 DEF S, at

\* Decoding with nothing in the way.
LEMMA FreelyHas ==
  ASSUME NEW opts \in Options
  PROVE  /\ Freely(opts) \in Options /\ Freely(opts).out_cap = Unlimited
         /\ opts.out_cap \in Nat /\ Unlimited \in Nat /\ opts.out_cap <= Unlimited
         /\ Freely(opts).window_max = opts.window_max /\ Freely(opts).dict = opts.dict
         /\ Freely(opts).ignore_checksum = opts.ignore_checksum
BY LimitConstant DEF Options, Freely

\* A frame that is read where it lies is decoded by itself.
LEMMA DecodesAlone ==
  ASSUME NEW f \in ZstdFrame, NEW opts \in Options, Reads(f, opts), SumOf(Stood(f)) <= opts.out_cap
  PROVE  /\ Decompress(Whole(<<f>>), opts).err = None
         /\ Decompress(Whole(<<f>>), opts).out = SumOf(Stood(f))
<1> DEFINE src == Whole(<<f>>)
<1>1. f \in Frame /\ f.kind = "zstd" /\ FrameLen(f) \in Nat \ {0} /\ SumOf(Stood(f)) \in Nat
  <2>1. f \in Frame
    BY DEF Frame
  <2> QED BY <2>1, FrameHas, FrameLens
<1>2. src.frames = <<f>> /\ src.len = FrameLen(f) /\ Len(<<f>>) = 1 /\ <<f>>[1] = f
  BY <1>1, WholeIs
<1>3. WholeLen(<<f>>) = FrameLen(f)
  BY <1>2 DEF Whole
<1> HIDE DEF src
<1>4. IsSource(src)
  <2>1. <<f>> \in Seq(Frame) \ {<<>>}
    BY <1>1
  <2>2. \A i \in 1..(Len(<<f>>) - 1) : ~Unended(<<f>>[i])
    BY <1>2
  <2>3. <<f>> \in Source
    BY <2>1, <2>2 DEF Source
  <2> QED BY <1>1, <1>2, <1>3, <2>3 DEF IsSource
<1>5. PICK g : DecompressRun(src, opts, g) /\ Decompress(src, opts) = NeedsZstd(g[1])
  BY <1>2, <1>4, DecompressRuns
<1>6. g[0] = Begin /\ g[1] = FrameStep(src, opts, g[0], f)
  <2>1. \A k \in 1..1 : g[k] = FrameStep(src, opts, g[k - 1], <<f>>[k])
    BY <1>2, <1>5 DEF DecompressRun
  <2>2. 1 \in 1..1 /\ 1 - 1 = 0
    OBVIOUS
  <2> QED BY <1>2, <1>5, <2>1, <2>2 DEF DecompressRun
<1>7. Begin \in Decoding /\ Begin.pos = 0 /\ Begin.out = 0 /\ Begin.err = None
  BY DEF Begin, Decoding, Errs
<1>8. opts.out_cap \in Nat /\ src.len \in Nat
  BY <1>1, <1>2, LimitConstant DEF Options
<1>9. More(src, Begin)
  BY <1>1, <1>2, <1>7, <1>8, MoreIs
<1> DEFINE s == DecompressFrame(src, opts, Begin, f)
<1>10. g[1] = s
  BY <1>6, <1>9 DEF FrameStep
<1>11. Gives(f) = SumOf(Stood(f))
  BY <1>1 DEF Gives
<1>12. Serves(src, f, opts, Begin)
  BY <1>1, <1>2, <1>7, <1>11 DEF Serves
<1>13. s.err = None /\ s.out = 0 + Gives(f) /\ s.saw_zstd = (Begin.saw_zstd \/ f.kind = "zstd")
  BY <1>1, <1>7, <1>8, <1>12, DecompressFrameIs
<1> HIDE DEF s
<1>14. Decompress(src, opts) = s
  BY <1>1, <1>5, <1>10, <1>13 DEF NeedsZstd
<1> QED BY <1>1, <1>11, <1>13, <1>14 DEF src

\* Listing, measuring and counting agree with decoding.
LEMMA WalkersDo ==
  ASSUME NEW src, IsSource(src), NEW opts \in Options
  PROVE  WalkersAgree(src, opts)
<1> DEFINE free == Freely(opts)
           d == Decompress(src, free)
           m == FirstZstd(src.frames)
           f == src.frames[m]
           list == InspectFrames(src)
           census == FrameBlockCensus(Whole(<<f>>))
           first == Decompress(Whole(<<f>>), free).out
<1>1. SUFFICES ASSUME d.err = None
               PROVE  /\ list.err = None
                      /\ SumOf(list.list) = src.len
                      /\ Len(list.list) = Cardinality({e \in Boundaries(src.frames) : e <= src.len})
                      /\ ContentSize(src).size \in {None, first}
                      /\ census.raw + census.rle + Regenerated(f.blocks) = first
  BY DEF WalkersAgree
<1>2. free \in Options
  BY FreelyHas
<1> HIDE DEF free
<1>3. PICK n \in Nat \ {0} : n = Len(src.frames) /\ \A k \in 1..n : src.frames[k] \in Frame
  BY SourceFrames DEF IsSource
<1>4. PICK j \in 1..n : /\ HasRead(src, free, d, j) /\ d.pos = src.len /\ d.out <= free.out_cap
                        /\ \E i \in 1..j : src.frames[i].kind = "zstd"
  BY <1>1, <1>2, <1>3, DecompressIs
<1>5. SumTo(Sizes(src.frames), j) = src.len /\ (\A i \in 1..j : Reads(src.frames[i], free))
      /\ SumTo(Given(src.frames), j) <= free.out_cap
  BY <1>4 DEF HasRead
<1> HIDE DEF d
<1>6. /\ m \in 1..j /\ f.kind = "zstd"
      /\ \A i \in 1..(m - 1) : src.frames[i].kind # "zstd"
  <2>1. PICK i \in 1..j : src.frames[i].kind = "zstd"
    BY <1>4
  <2>2. i \in 1..n
    BY <1>3, <1>4
  <2>3. m \in 1..i /\ f.kind = "zstd" /\ \A x \in 1..(m - 1) : src.frames[x].kind # "zstd"
    BY <1>3, <2>1, <2>2, FirstZstdIs DEF IsSource
  <2> HIDE DEF m, f
  <2>4. m \in 1..j
    BY <1>3, <1>4, <2>1, <2>3
  <2> QED BY <2>3, <2>4 DEF f
<1> HIDE DEF m
<1>7. m \in 1..n /\ j \in Nat
  BY <1>3, <1>4, <1>6
<1>8. f \in ZstdFrame /\ Reads(f, free)
  BY <1>3, <1>5, <1>6, <1>7, FrameKinds
<1>9. SumOf(Stood(f)) \in Nat /\ SumOf(Stood(f)) <= free.out_cap
  <2>1. /\ SumTo(Given(src.frames), m) = SumTo(Given(src.frames), m - 1) + Gives(f)
        /\ SumTo(Given(src.frames), m - 1) \in Nat /\ SumTo(Given(src.frames), j) \in Nat
        /\ Given(src.frames) \in Seq(Nat) /\ Len(Given(src.frames)) = n
    <3>1. m - 1 \in 0..n /\ j \in 0..n
      BY <1>3, <1>4, <1>7
    <3> QED BY <1>3, <1>7, <3>1, FrameSums DEF IsSource
  <2>2. SumTo(Given(src.frames), m) <= SumTo(Given(src.frames), j)
    <3>1. m \in 0..n /\ j \in 0..n /\ m <= j
      BY <1>3, <1>4, <1>6, <1>7
    <3> QED BY <2>1, <3>1, SumsGrow
  <2>3. Gives(f) = SumOf(Stood(f)) /\ SumOf(Stood(f)) \in Nat /\ free.out_cap \in Nat
    BY <1>2, <1>6, <1>8, FrameHas, LimitConstant DEF Gives, Options
  <2> HIDE DEF f
  <2> QED BY <1>5, <2>1, <2>2, <2>3
<1>10. first = SumOf(Stood(f))
  BY <1>2, <1>8, <1>9, DecodesAlone
<1>11. census.raw + census.rle + Regenerated(f.blocks) = first
  BY <1>2, <1>8, <1>10, CensusIs
<1>12. ContentSize(src).size \in {None, first}
  <2>1. ContentSize(src).size \in {None, f.content_size}
    BY <1>3, <1>6, <1>7, ContentSizeIs
  <2>2. f.content_size \in {None, SumOf(Stood(f))}
    BY <1>6, <1>8 DEF Reads, FrameSound
  <2> QED BY <1>10, <2>1, <2>2
<1>13. list.err = None
  <2>1. ReadsAll(src, free, j) /\ j \in 1..Len(src.frames)
    BY <1>3, <1>4, <1>5 DEF ReadsAll
  <2> QED BY <1>2, <2>1, InspectIs
<1>14. PICK x \in 1..n : HasListed(src, list, x) /\ list.pos = src.len
  BY <1>3, <1>13, InspectIs
<1> HIDE DEF list, f, first, census
<1>15. SumTo(Sizes(src.frames), x) = src.len /\ list.list \in Seq(Nat) /\ Len(list.list) = x
       /\ \A i \in 1..x : list.list[i] = FrameLen(src.frames[i])
  BY <1>14 DEF HasListed
<1>16. SumOf(list.list) = src.len
  <2> DEFINE s == Sizes(src.frames)
  <2>1. s \in Seq(Nat) /\ Len(s) = n /\ \A k \in 1..n : s[k] = FrameLen(src.frames[k])
    BY <1>3, FrameSums DEF IsSource
  <2>2. 0 \in Nat /\ x \in Nat /\ 0 <= x /\ x <= n /\ 0 + 1 = 1 /\ x - 0 = x
        /\ (\A i \in 1..x : i \in 1..n /\ 0 + i = i)
    BY <1>3
  <2> HIDE DEF s
  <2>3. Part(s, 0, x, list.list)
    BY <1>15, <2>1, <2>2 DEF Part
  <2>4. Part(s, 0, x, SubSeq(s, 0 + 1, x))
    BY <2>1, <2>2, PartIs
  <2>5. list.list = SubSeq(s, 1, x)
    BY <2>2, <2>3, <2>4, PartOne
  <2> QED BY <1>15, <2>5 DEF SumTo, s
<1>17. Len(list.list) = Cardinality({e \in Boundaries(src.frames) : e <= src.len})
  <2>1. Cardinality({e \in Boundaries(src.frames) : e <= SumTo(Sizes(src.frames), x)}) = x
    BY <1>3, BoundariesCount DEF IsSource
  <2> QED BY <1>15, <2>1
<1> QED BY <1>11, <1>12, <1>13, <1>16, <1>17 DEF list, f, first, census

\* A source cut inside a frame is seen to be.
LEMMA TruncationIs ==
  ASSUME NEW src, IsSource(src), NEW opts \in Options
  PROVE  TruncationSeen(src, opts)
<1>1. ASSUME NEW j \in 1..Len(src.frames), SumTo(Sizes(src.frames), j) = src.len
      PROVE  src.len \in Boundaries(src.frames)
  <2>1. WholeLen(SubSeq(src.frames, 1, j)) = src.len
    BY <1>1, BoundaryIs DEF IsSource
  <2> QED BY <2>1 DEF Boundaries
<1>2. Decompress(src, opts).err = None => src.len \in Boundaries(src.frames)
  <2> SUFFICES ASSUME Decompress(src, opts).err = None PROVE src.len \in Boundaries(src.frames)
    OBVIOUS
  <2>1. PICK j \in 1..Len(src.frames) : /\ HasRead(src, opts, Decompress(src, opts), j)
                                        /\ Decompress(src, opts).pos = src.len
    BY DecompressIs
  <2> QED BY <1>1, <2>1 DEF HasRead
<1>3. InspectFrames(src).err = None => src.len \in Boundaries(src.frames)
  <2> SUFFICES ASSUME InspectFrames(src).err = None PROVE src.len \in Boundaries(src.frames)
    OBVIOUS
  <2>1. PICK j \in 1..Len(src.frames) : HasListed(src, InspectFrames(src), j) /\ InspectFrames(src).pos = src.len
    BY InspectIs
  <2> QED BY <1>1, <2>1 DEF HasListed
<1> QED BY <1>2, <1>3 DEF TruncationSeen

-----------------------------------------------------------------------------
(* What a limit on the output changes. *)

\* A limited decoder is where a free one is, or it has refused what goes past c: then
\* the free one has failed too or has gone past c.
Follows(l, g, c) == l = g \/ (l.err = "ContentSizeTooLarge" /\ (g.err # None \/ g.out > c))

\* A block.
LEMMA BlockFollows ==
  ASSUME NEW src, src.len \in Nat, NEW f \in ZstdFrame, NEW opts \in Options,
         NEW r \in Decoding, r.err = None, NEW b \in Block
  PROVE  Follows(DecodeBlock(src, f, opts, r, b), DecodeBlock(src, f, Freely(opts), r, b), opts.out_cap)
<1> DEFINE h == ReadBlockHeader(src, r, b)
           t == Take(src, h, PayloadLen(b))
           c == opts.out_cap
           sl == DecodeBlock(src, f, opts, r, b)
           sg == DecodeBlock(src, f, Freely(opts), r, b)
           order(s, cap) ==
             s = IF h.err # None THEN h
                 ELSE IF b.size > BlockMax(f) THEN Fail(h, "BlockTooLarge")
                 ELSE IF b.ty # "compressed" THEN
                   IF b.size > Less(cap, h.out) THEN Fail(h, "ContentSizeTooLarge")
                   ELSE IF t.err # None THEN t
                   ELSE [t EXCEPT !.out = @ + b.size]
                 ELSE IF t.err # None THEN t
                 ELSE IF b.regen > BlockMax(f) THEN Fail(t, "Corruption")
                 ELSE IF t.out + b.regen > cap
                   THEN Fail([t EXCEPT !.out = @ + b.regen], "ContentSizeTooLarge")
                 ELSE [t EXCEPT !.out = @ + b.regen]
<1>1. c \in Nat /\ Unlimited \in Nat /\ c <= Unlimited /\ Freely(opts).out_cap = Unlimited
  BY FreelyHas
<1>2. BlockMax(f) \in Nat /\ b.size \in Nat /\ b.regen \in Nat /\ PayloadLen(b) \in Nat
  BY BlockMaxIs, BlockHas
<1>3. order(sl, c) /\ order(sg, Freely(opts).out_cap)
  BY <1>2, DecodeBlockOrder
<1>4. order(sg, Unlimited)
  <2> HIDE DEF order
  <2> QED BY <1>1, <1>3
<1>5. /\ r \in Reading /\ {"pos", "err"} \subseteq DOMAIN r /\ r.pos \in Nat /\ r.out \in Nat
      /\ Decoding \in {Decoding, Listing, Sizing, Census}
  BY DEF Reading, Decoding
<1>6. "ReservedBlockType" \in Errs /\ "UnexpectedEof" \in Errs /\ None \in Errs
      /\ "ContentSizeTooLarge" \in Errs
  BY DEF Errs, Errors
<1>7. h \in Decoding /\ h.out = r.out
  <2>1. \/ Reaches(r, h, r.pos + 3, None)
        \/ Reaches(r, h, r.pos + 3, "ReservedBlockType")
        \/ Reaches(r, h, r.pos, "UnexpectedEof")
    BY <1>5, BlockHeaderIs
  <2>2. \A p \in Nat, e \in Errs : Reaches(r, h, p, e) => h \in Decoding
    BY ReachesIn
  <2>3. "out" \in DOMAIN r \ {"pos", "err"}
    BY DEF Decoding
  <2> HIDE DEF h
  <2>4. h \in Decoding
    BY <1>5, <1>6, <2>1, <2>2
  <2>5. h.out = r.out
    BY <2>1, <2>3 DEF Reaches
  <2> QED BY <2>4, <2>5
<1> HIDE DEF h
<1>8. t \in Decoding /\ t.out = r.out
  <2>1. {"pos", "err"} \subseteq DOMAIN h /\ h.pos \in Nat /\ h.err \in Errs /\ h.pos + PayloadLen(b) \in Nat
    BY <1>2, <1>7 DEF Decoding
  <2>2. Reaches(h, t, h.pos + PayloadLen(b), h.err) \/ Reaches(h, t, h.pos, "UnexpectedEof")
    BY <1>2, <2>1, TakeIs
  <2>3. \A p \in Nat, e \in Errs : Reaches(h, t, p, e) => t \in Decoding
    BY <1>7, ReachesIn
  <2>4. "out" \in DOMAIN h \ {"pos", "err"}
    BY <1>7 DEF Decoding
  <2> HIDE DEF t
  <2>5. t \in Decoding
    BY <1>6, <2>1, <2>2, <2>3
  <2>6. t.out = h.out
    BY <2>2, <2>4 DEF Reaches
  <2> QED BY <1>7, <2>5, <2>6
<1> HIDE DEF t
<1>9. Fail(h, "ContentSizeTooLarge").err = "ContentSizeTooLarge"
  BY <1>6, <1>7, FailDecoding
<1>10. \A n \in Nat : [t EXCEPT !.out = @ + n] \in Decoding /\ [t EXCEPT !.out = @ + n].out = r.out + n
  BY <1>5, <1>8 DEF Decoding
<1>11. Fail([t EXCEPT !.out = @ + b.regen], "ContentSizeTooLarge").err = "ContentSizeTooLarge"
  BY <1>2, <1>6, <1>10, FailDecoding
<1> HIDE DEF sl, sg, c
<1>12. CASE h.err # None \/ b.size > BlockMax(f)
  <2>1. sl = sg
    BY <1>3, <1>4, <1>12
  <2> QED BY <2>1 DEF Follows, sl, sg
<1>13. CASE h.err = None /\ ~(b.size > BlockMax(f)) /\ b.ty # "compressed"
  <2> DEFINE u == [t EXCEPT !.out = @ + b.size]
  <2>1. /\ sl = IF b.size > Less(c, h.out) THEN Fail(h, "ContentSizeTooLarge") ELSE IF t.err # None THEN t ELSE u
        /\ sg = IF b.size > Less(Unlimited, h.out) THEN Fail(h, "ContentSizeTooLarge") ELSE IF t.err # None THEN t ELSE u
    BY <1>3, <1>4, <1>13
  <2>2. u.out = r.out + b.size
    BY <1>2, <1>10
  <2>3. /\ b.size > Less(c, h.out) => r.out + b.size > c
        /\ b.size > Less(Unlimited, h.out) => b.size > Less(c, h.out)
    BY <1>1, <1>2, <1>5, <1>7 DEF Less
  <2> HIDE DEF u
  <2>4. CASE ~(b.size > Less(c, h.out)) \/ b.size > Less(Unlimited, h.out)
    <3>1. sl = sg
      BY <2>1, <2>3, <2>4
    <3> QED BY <3>1 DEF Follows, sl, sg
  <2>5. CASE b.size > Less(c, h.out) /\ ~(b.size > Less(Unlimited, h.out))
    <3>1. sl.err = "ContentSizeTooLarge" /\ (sg.err # None \/ sg.out > c)
      BY <1>9, <2>1, <2>2, <2>3, <2>5
    <3> QED BY <3>1 DEF Follows, sl, sg, c
  <2> QED BY <2>4, <2>5
<1>14. CASE h.err = None /\ ~(b.size > BlockMax(f)) /\ b.ty = "compressed"
  <2> DEFINE u == [t EXCEPT !.out = @ + b.regen]
  <2>1. /\ sl = IF t.err # None THEN t ELSE IF b.regen > BlockMax(f) THEN Fail(t, "Corruption")
                ELSE IF t.out + b.regen > c THEN Fail(u, "ContentSizeTooLarge") ELSE u
        /\ sg = IF t.err # None THEN t ELSE IF b.regen > BlockMax(f) THEN Fail(t, "Corruption")
                ELSE IF t.out + b.regen > Unlimited THEN Fail(u, "ContentSizeTooLarge") ELSE u
    BY <1>3, <1>4, <1>14
  <2>2. u.out = r.out + b.regen
    BY <1>2, <1>10
  <2>3. /\ t.out + b.regen > c => r.out + b.regen > c
        /\ t.out + b.regen > Unlimited => t.out + b.regen > c
    BY <1>1, <1>2, <1>5, <1>8
  <2>4. Fail(u, "ContentSizeTooLarge").err = "ContentSizeTooLarge"
    BY <1>11
  <2> HIDE DEF u
  <2>5. CASE t.err # None \/ b.regen > BlockMax(f) \/ ~(t.out + b.regen > c) \/ t.out + b.regen > Unlimited
    <3>1. sl = sg
      BY <2>1, <2>3, <2>5
    <3> QED BY <3>1 DEF Follows, sl, sg
  <2>6. CASE t.err = None /\ ~(b.regen > BlockMax(f)) /\ t.out + b.regen > c /\ ~(t.out + b.regen > Unlimited)
    <3>1. sl.err = "ContentSizeTooLarge" /\ sg.out > c
      BY <2>1, <2>2, <2>3, <2>4, <2>6
    <3> QED BY <3>1 DEF Follows, sl, sg, c
  <2> QED BY <2>5, <2>6
<1> QED BY <1>12, <1>13, <1>14

\* A step over a block.
LEMMA StepFollows ==
  ASSUME NEW src, src.len \in Nat, NEW f \in ZstdFrame, NEW opts \in Options, NEW b \in Block,
         NEW l \in Decoding, NEW g \in Within(Freely(opts)), Follows(l, g, opts.out_cap)
  PROVE  Follows(DecodeStep(src, f, opts, l, b), DecodeStep(src, f, Freely(opts), g, b), opts.out_cap)
<1> DEFINE free == Freely(opts)
<1>1. free \in Options /\ free.out_cap \in Nat /\ opts.out_cap \in Nat
  BY FreelyHas
<1>2. g \in Decoding /\ g.out \in Nat /\ (g.err = None => g.out <= free.out_cap)
  BY DEF Within, Decoding
<1>3. "ContentSizeTooLarge" # None
  BY ErrorsAre DEF Errors
<1> HIDE DEF free
<1>4. CASE l = g /\ g.err # None
  BY <1>4 DEF DecodeStep, Follows, free
<1>5. CASE l = g /\ g.err = None
  <2>1. Follows(DecodeBlock(src, f, opts, g, b), DecodeBlock(src, f, free, g, b), opts.out_cap)
    BY <1>2, <1>5, BlockFollows DEF free
  <2> QED BY <1>5, <2>1 DEF DecodeStep, free
<1>6. CASE l.err = "ContentSizeTooLarge" /\ g.err # None
  BY <1>3, <1>6 DEF DecodeStep, Follows, free
<1>7. CASE l.err = "ContentSizeTooLarge" /\ g.err = None /\ g.out > opts.out_cap
  <2> DEFINE s == DecodeBlock(src, f, free, g, b)
  <2>1. \/ s.out = g.out + Stands(b) /\ Stands(b) \in Nat
        \/ g.out <= s.out /\ s.out \in Nat
    <3>1. Stands(b) \in Nat
      BY BlockHas DEF Stands
    <3>2. \/ s.out = g.out + Stands(b)
          \/ Failed(g, s, free.out_cap + BlockSizeMax)
      BY <1>1, <1>2, <1>7, DecodeBlockIs
    <3> QED BY <3>1, <3>2 DEF Failed
  <2> HIDE DEF s
  <2>2. s.out > opts.out_cap
    BY <1>1, <1>2, <1>7, <2>1
  <2>3. DecodeStep(src, f, opts, l, b) = l /\ DecodeStep(src, f, free, g, b) = s
    BY <1>3, <1>7 DEF DecodeStep, s
  <2> QED BY <1>7, <2>2, <2>3 DEF Follows, free
<1> QED BY <1>4, <1>5, <1>6, <1>7 DEF Follows

\* The blocks of a frame.
LEMMA DecodedFollows ==
  ASSUME NEW src, src.len \in Nat, NEW f \in ZstdFrame, NEW opts \in Options,
         NEW r \in Decoding, r.err = None, r.pos <= src.len, r.out <= opts.out_cap
  PROVE  Follows(Decoded(src, f, opts, r), Decoded(src, f, Freely(opts), r), opts.out_cap)
<1> DEFINE free == Freely(opts)
           c == opts.out_cap
<1>1. free \in Options /\ opts.out_cap <= free.out_cap /\ opts.out_cap \in Nat /\ free.out_cap \in Nat
      /\ r.out \in Nat
  BY FreelyHas DEF Decoding
<1>2. PICK n \in Nat \ {0} : n = Len(f.blocks) /\ \A k \in 1..n : f.blocks[k] \in Block
  BY FrameBlocks
<1>3. r \in Within(opts) /\ r \in Within(free)
  BY <1>1 DEF Within
<1>4. PICK x : DecodeRun(src, f, opts, r, x) /\ Decoded(src, f, opts, r) = LoopEnd(f, x[n])
  BY <1>2, <1>3, DecodeRuns
<1> HIDE DEF free
<1>5. PICK y : DecodeRun(src, f, free, r, y) /\ Decoded(src, f, free, r) = LoopEnd(f, y[n])
  BY <1>1, <1>2, <1>3, DecodeRuns
<1> DEFINE S == {k \in 0..n : Follows(x[k], y[k], c)}
<1>6. 0 \in S
  BY <1>2, <1>4, <1>5 DEF DecodeRun, Follows
<1>7. ASSUME NEW k \in 1..n, k - 1 \in S PROVE k \in S
  <2>1. k \in 0..n /\ k - 1 \in 0..n /\ f.blocks[k] \in Block
    BY <1>2
  <2>2. x[k - 1] \in Decoding /\ y[k - 1] \in Within(free) /\ Follows(x[k - 1], y[k - 1], c)
    BY <1>2, <1>4, <1>5, <1>7, <2>1 DEF DecodeRun, Within
  <2>3. Follows(DecodeStep(src, f, opts, x[k - 1], f.blocks[k]), DecodeStep(src, f, free, y[k - 1], f.blocks[k]), c)
    BY <2>1, <2>2, StepFollows DEF free
  <2>4. x[k] = DecodeStep(src, f, opts, x[k - 1], f.blocks[k]) /\ y[k] = DecodeStep(src, f, free, y[k - 1], f.blocks[k])
    BY <1>2, <1>4, <1>5 DEF DecodeRun
  <2> QED BY <2>1, <2>3, <2>4
<1>8. Follows(x[n], y[n], c)
  <2> HIDE DEF S
  <2>1. \A k \in 0..n : k \in S
    BY <1>2, <1>6, <1>7, Throughout
  <2>2. n \in 0..n
    BY <1>2
  <2> QED BY <2>1, <2>2 DEF S
<1>9. y[n] \in Decoding /\ "ContentSizeTooLarge" # None /\ "UnexpectedEof" \in Errs \ {None}
  <2>1. n \in 0..n
    BY <1>2
  <2> QED BY <1>2, <1>5, <2>1, ErrorsAre DEF DecodeRun, Within, Errors
<1>10. CASE x[n] = y[n]
  BY <1>4, <1>5, <1>10 DEF Follows, free
<1>11. CASE x[n].err = "ContentSizeTooLarge" /\ (y[n].err # None \/ y[n].out > c)
  <2>1. LoopEnd(f, x[n]) = x[n]
    BY <1>9, <1>11 DEF LoopEnd
  <2>2. LoopEnd(f, y[n]).err # None \/ LoopEnd(f, y[n]) = y[n]
    BY <1>9, FailDecoding DEF LoopEnd
  <2> QED BY <1>4, <1>5, <1>11, <2>1, <2>2 DEF Follows, free
<1> QED BY <1>8, <1>10, <1>11 DEF Follows

\* A frame behind its header.
LEMMA ZstdFrameFollows ==
  ASSUME NEW src, src.len \in Nat, NEW f \in ZstdFrame, NEW opts \in Options,
         NEW r \in Decoding, r.err = None, r.pos <= src.len, r.out <= opts.out_cap
  PROVE  Follows(DecodeZstdFrame(src, f, opts, r), DecodeZstdFrame(src, f, Freely(opts), r), opts.out_cap)
<1> DEFINE free == Freely(opts)
           c == opts.out_cap
           rl == HeaderRefused(f, r, opts)
           rg == HeaderRefused(f, r, free)
           bl == Decoded(src, f, opts, r)
           bg == Decoded(src, f, free, r)
           cl == DecodeChecksum(src, f, opts, bl)
           cg == DecodeChecksum(src, f, free, bg)
           sl == DecodeZstdFrame(src, f, opts, r)
           sg == DecodeZstdFrame(src, f, free, r)
<1>1. /\ free \in Options /\ free.ignore_checksum = opts.ignore_checksum
      /\ free.window_max = opts.window_max /\ free.dict = opts.dict
      /\ c \in Nat /\ free.out_cap \in Nat /\ c <= free.out_cap
      /\ r.out \in Nat /\ r.out <= free.out_cap /\ r.pos \in Nat
      /\ SumOf(Stood(f)) \in Nat /\ f.content_size \in Nat \cup {None} /\ None \notin Nat
  BY FreelyHas, FrameHas, FormatsAssumption DEF Decoding
<1>2. sl = IF rl # None THEN Fail(r, rl) ELSE CheckContentSize(f, r, cl)
  BY Zenon DEF DecodeZstdFrame, Decoded
<1>3. sg = IF rg # None THEN Fail(r, rg) ELSE CheckContentSize(f, r, cg)
  BY Zenon DEF DecodeZstdFrame, Decoded
<1>4. \A t : Fail(r, t).err = t
  BY DEF Fail, Decoding
<1>5. "ContentSizeTooLarge" # None /\ "ContentSizeMismatch" \in Errs \ {None}
  BY ErrorsAre DEF Errors
<1>6. /\ rl = None <=> HeaderSound(f, opts) /\ (f.content_size = None \/ r.out + f.content_size <= c)
      /\ rg = None <=> HeaderSound(f, free) /\ (f.content_size = None \/ r.out + f.content_size <= free.out_cap)
      /\ HeaderSound(f, opts) => rl \in {None, "ContentSizeTooLarge"}
      /\ ~HeaderSound(f, opts) => rg = rl
  <2> HIDE DEF free
  <2> QED BY <1>1, HeaderRefusedIs
<1>7. HeaderSound(f, opts) <=> HeaderSound(f, free)
  <2> HIDE DEF free
  <2> QED BY <1>1 DEF HeaderSound
<1>8. \/ /\ Decodes(src, f, free, r) /\ sg \in Decoding /\ sg.err = None
         /\ sg.pos = r.pos + BodyLen(f) /\ sg.out = r.out + SumOf(Stood(f))
      \/ ~Decodes(src, f, free, r) /\ Failed(r, sg, free.out_cap + BlockSizeMax)
  <2> HIDE DEF free
  <2> QED BY <1>1, DecodeZstdFrameIs
<1>9. Follows(bl, bg, c)
  BY DecodedFollows
<1>10. \A t \in Decoding : DecodeChecksum(src, f, opts, t) = DecodeChecksum(src, f, free, t)
  <2> HIDE DEF free
  <2> QED BY <1>1 DEF DecodeChecksum
<1>11. bg \in Decoding /\ (bg.err = None => bg.pos <= src.len)
  <2> HIDE DEF free
  <2>1. PICK n \in Nat \ {0} : n = Len(f.blocks)
    BY FrameBlocks
  <2>2. r \in Within(free)
    BY <1>1 DEF Within
  <2>3. PICK g : DecodeRun(src, f, free, r, g) /\ bg = LoopEnd(f, g[n])
    BY <1>1, <2>1, <2>2, DecodeRuns
  <2>4. n \in 0..n /\ g[n] \in Decoding
    BY <2>1, <2>3 DEF DecodeRun, Within
  <2>5. g[n].err = None => g[n].pos <= src.len
    <3>1. DecodedTo(src, f, free, r, g, n)
      BY <1>1, <2>1, <2>3, <2>4, DecodedToAll
    <3> QED BY <3>1 DEF DecodedTo
  <2>6. "UnexpectedEof" \in Errs \ {None}
    BY ErrorsAre DEF Errors
  <2>7. CASE g[n].err = None /\ ~f.blocks[n].last
    <3>1. bg = Fail(g[n], "UnexpectedEof")
      BY <2>1, <2>3, <2>7 DEF LoopEnd
    <3> HIDE DEF bg
    <3> QED BY <2>4, <2>6, <3>1, FailDecoding
  <2>8. CASE ~(g[n].err = None /\ ~f.blocks[n].last)
    <3>1. bg = g[n]
      BY <2>1, <2>3, <2>8 DEF LoopEnd
    <3> QED BY <2>4, <2>5, <3>1
  <2> QED BY <2>7, <2>8
<1> HIDE DEF free, rl, rg, bl, bg, cl, cg, sl, sg
<1>12. CASE ~HeaderSound(f, opts)
  <2>1. rl # None /\ rg = rl
    BY <1>6, <1>12
  <2>2. sl = sg
    BY <1>2, <1>3, <2>1
  <2> QED BY <2>2 DEF Follows, sl, sg, free
<1>13. CASE HeaderSound(f, opts) /\ rl # None
  <2>1. sl.err = "ContentSizeTooLarge"
    BY <1>2, <1>4, <1>6, <1>13
  <2>2. f.content_size \in Nat /\ r.out + f.content_size > c
    BY <1>1, <1>6, <1>13
  <2>3. sg.err = None => sg.out > c
    <3> SUFFICES ASSUME sg.err = None PROVE sg.out > c
      OBVIOUS
    <3>1. Decodes(src, f, free, r) /\ sg.out = r.out + SumOf(Stood(f))
      BY <1>8 DEF Failed
    <3>2. f.content_size = SumOf(Stood(f))
      BY <1>1, <2>2, <3>1 DEF Decodes, FrameSound
    <3> QED BY <2>2, <3>1, <3>2
  <2> QED BY <2>1, <2>3 DEF Follows, sl, sg, free, c
<1>14. CASE HeaderSound(f, opts) /\ rl = None
  <2>1. rg = None
    BY <1>1, <1>6, <1>7, <1>14
  <2>2. sl = CheckContentSize(f, r, cl) /\ sg = CheckContentSize(f, r, cg)
    BY <1>2, <1>3, <1>14, <2>1
  <2>3. CASE bl = bg
    <3>1. cl = cg
      BY <1>10, <1>11, <2>3 DEF cl, cg
    <3> QED BY <2>2, <3>1 DEF Follows, sl, sg, free
  <2>4. CASE bl.err = "ContentSizeTooLarge" /\ (bg.err # None \/ bg.out > c)
    <3>1. cl = bl
      BY <1>5, <2>4 DEF DecodeChecksum, cl
    <3>2. sl = bl
      BY <1>5, <2>2, <2>4, <3>1 DEF CheckContentSize
    <3>3. CASE bg.err # None
      <4>1. cg = bg
        BY <3>3 DEF DecodeChecksum, cg
      <4>2. sg = bg
        BY <2>2, <3>3, <4>1 DEF CheckContentSize
      <4> QED BY <2>4, <3>2, <3>3, <4>2 DEF Follows, sl, sg, free
    <3>4. CASE bg.err = None /\ bg.out > c
      <4>1. cg \in Decoding /\ cg.out = bg.out
        BY <1>1, <1>11, <3>4, DecodeChecksumIs DEF cg
      <4>2. sg = cg \/ sg = Fail(cg, "ContentSizeMismatch")
        BY <2>2 DEF CheckContentSize
      <4>3. sg.out > c
        BY <1>5, <3>4, <4>1, <4>2, FailDecoding
      <4> QED BY <2>4, <3>2, <4>3 DEF Follows, sl, sg, free, c
    <3> QED BY <2>4, <3>3, <3>4
  <2> QED BY <1>9, <2>3, <2>4 DEF Follows
<1> QED BY <1>12, <1>13, <1>14

\* What reading a frame's header leaves.
LEMMA ParsedIs ==
  ASSUME NEW src, src.len \in Nat, NEW r \in Decoding, r.err = None, r.pos <= src.len, NEW f \in Frame,
         ParseKind(src, r, f).err = None
  PROVE  LET k == ParseKind(src, r, f)
         IN  /\ k \in Decoding /\ k.pos <= src.len /\ k.out = r.out /\ k.saw_zstd = r.saw_zstd
             /\ f.kind = "skippable" \/ f \in ZstdFrame
<1> DEFINE k == ParseKind(src, r, f)
           h == HeaderLen(f)
<1>1. r \in Reading /\ r.pos \in Nat /\ h \in Nat /\ Decoding \in {Decoding, Listing, Sizing, Census}
  BY FrameLens DEF Reading, Decoding
<1>2. \/ Begun(f) /\ r.pos + h <= src.len /\ Reaches(r, k, r.pos + h, None)
      \/ ~(Begun(f) /\ r.pos + h <= src.len) /\ FailsAt(r, k)
  BY <1>1, ParseKindIs
<1>3. ~FailsAt(r, k)
  BY <1>1, FailsIn
<1>4. Begun(f) /\ r.pos + h <= src.len /\ Reaches(r, k, r.pos + h, None)
  BY <1>2, <1>3
<1> HIDE DEF k, h
<1>5. k \in Decoding /\ k.pos = r.pos + h
  <2>1. r.pos + h \in Nat /\ None \in Errs
    BY <1>1 DEF Errs
  <2> QED BY <1>1, <1>4, <2>1, ReachesIn DEF Reaches
<1>6. {"out", "saw_zstd"} \subseteq DOMAIN r \ {"pos", "err"}
  BY DEF Decoding
<1>7. \A x \in {"out", "saw_zstd"} : k[x] = r[x]
  BY <1>4, <1>6 DEF Reaches
<1>8. f.kind = "skippable" \/ f \in ZstdFrame
  BY <1>4, FrameKinds DEF Begun
<1> QED BY <1>4, <1>5, <1>7, <1>8 DEF k

\* Marking that a Zstd frame was seen keeps what follows.
LEMMA SawFollows ==
  ASSUME NEW l \in Decoding, NEW g \in Decoding, NEW c, Follows(l, g, c)
  PROVE  Follows([l EXCEPT !.saw_zstd = TRUE], [g EXCEPT !.saw_zstd = TRUE], c)
<1>1. \A d \in Decoding : /\ [d EXCEPT !.saw_zstd = TRUE].err = d.err
                          /\ [d EXCEPT !.saw_zstd = TRUE].out = d.out
  BY DEF Decoding
<1> QED BY <1>1 DEF Follows

\* A frame.
LEMMA FrameFollows ==
  ASSUME NEW src, src.len \in Nat, NEW f \in Frame, NEW opts \in Options,
         NEW r \in Decoding, r.err = None, r.pos <= src.len, r.out <= opts.out_cap
  PROVE  Follows(DecompressFrame(src, opts, r, f), DecompressFrame(src, Freely(opts), r, f), opts.out_cap)
<1> DEFINE free == Freely(opts)
           c == opts.out_cap
           peeked == Peeked(src, r, f, r.saw_zstd)
           k == ParseKind(src, r, f)
           dl == DecodeZstdFrame(src, f, opts, k)
           dg == DecodeZstdFrame(src, f, free, k)
           sl == DecompressFrame(src, opts, r, f)
           sg == DecompressFrame(src, free, r, f)
           order(s, d) == s = IF peeked # None THEN Fail(r, peeked)
                              ELSE IF k.err # None THEN k
                              ELSE IF f.kind = "skippable" THEN Take(src, k, f.size)
                              ELSE [d EXCEPT !.saw_zstd = TRUE]
<1>1. free \in Options /\ c \in Nat /\ free.out_cap \in Nat /\ c <= free.out_cap
  BY FreelyHas
<1>2. order(sl, dl)
  BY DecompressFrameOrder
<1>3. order(sg, dg)
  <2> HIDE DEF free
  <2> QED BY DecompressFrameOrder
<1>4. k.err = None => /\ k \in Decoding /\ k.pos <= src.len /\ k.out = r.out
                      /\ f.kind = "skippable" \/ f \in ZstdFrame
  BY ParsedIs
<1>5. ASSUME k.err = None, f.kind # "skippable"
      PROVE  dl \in Decoding /\ dg \in Decoding /\ Follows(dl, dg, c)
  <2>1. k \in Decoding /\ k.pos <= src.len /\ k.out <= c /\ k.out <= free.out_cap /\ f \in ZstdFrame
    <3>1. r.out \in Nat
      BY DEF Decoding
    <3> HIDE DEF free, k
    <3> QED BY <1>1, <1>4, <1>5, <3>1
  <2>2. Follows(dl, dg, c)
    <3> HIDE DEF k
    <3> QED BY <1>5, <2>1, ZstdFrameFollows
  <2> HIDE DEF k, free
  <2>3. dl \in Decoding
    BY <1>5, <2>1, DecodeZstdFrameIs DEF Failed
  <2>4. dg \in Decoding
    BY <1>1, <1>5, <2>1, DecodeZstdFrameIs DEF Failed
  <2> QED BY <2>2, <2>3, <2>4
<1> HIDE DEF peeked, k, dl, dg, sl, sg
<1>6. CASE peeked # None \/ k.err # None \/ f.kind = "skippable"
  <2>1. sl = sg
    BY <1>2, <1>3, <1>6
  <2> QED BY <2>1 DEF Follows, sl, sg
<1>7. CASE peeked = None /\ k.err = None /\ f.kind # "skippable"
  <2>1. sl = [dl EXCEPT !.saw_zstd = TRUE] /\ sg = [dg EXCEPT !.saw_zstd = TRUE]
    BY <1>2, <1>3, <1>7
  <2>2. Follows(sl, sg, c)
    BY <1>5, <1>7, <2>1, SawFollows
  <2> QED BY <2>2 DEF sl, sg
<1> QED BY <1>6, <1>7

\* A turn of the loop over the frames.
LEMMA TurnFollows ==
  ASSUME NEW src, IsSource(src), NEW opts \in Options, NEW f \in Frame,
         NEW l \in Going(src, opts), NEW g \in Going(src, Freely(opts)), Follows(l, g, opts.out_cap)
  PROVE  Follows(FrameStep(src, opts, l, f), FrameStep(src, Freely(opts), g, f), opts.out_cap)
<1> DEFINE free == Freely(opts)
           c == opts.out_cap
           s == DecompressFrame(src, free, g, f)
<1>1. free \in Options /\ c \in Nat /\ src.len \in Nat /\ free.out_cap \in Nat
  BY FreelyHas DEF IsSource
<1>2. l \in Decoding /\ g \in Decoding /\ g.out \in Nat /\ "ContentSizeTooLarge" # None
  BY ErrorsAre DEF Going, Decoding, Errors
<1>3. More(src, l) => l.err = None /\ l.pos <= src.len /\ l.out <= c
  BY DEF More, Going
<1>4. More(src, g) => g.err = None /\ g.pos <= src.len /\ g.out <= free.out_cap
  BY DEF More, Going
<1>5. CASE l = g /\ ~More(src, l)
  BY <1>5 DEF FrameStep, Follows
<1>6. CASE l = g /\ More(src, l)
  <2>1. Follows(DecompressFrame(src, opts, l, f), DecompressFrame(src, free, l, f), c)
    BY <1>1, <1>2, <1>3, <1>6, FrameFollows
  <2> QED BY <1>6, <2>1 DEF FrameStep
<1>7. CASE l.err = "ContentSizeTooLarge" /\ (g.err # None \/ g.out > c)
  <2>1. FrameStep(src, opts, l, f) = l
    BY <1>2, <1>7 DEF FrameStep, More
  <2>2. CASE ~More(src, g)
    BY <1>7, <2>1, <2>2 DEF FrameStep, Follows
  <2>3. CASE More(src, g)
    <3>1. FrameStep(src, free, g, f) = s /\ g.out > c
      BY <1>4, <1>7, <2>3 DEF FrameStep
    <3> HIDE DEF free
    <3>2. \/ s.err = None /\ s.out = g.out + Gives(f)
          \/ s.err # None
      BY <1>1, <1>2, <1>4, <2>3, DecompressFrameIs
    <3>3. Gives(f) \in Nat
      BY GivesIs
    <3> HIDE DEF s
    <3>4. s.err # None \/ s.out > c
      BY <1>1, <1>2, <3>1, <3>2, <3>3
    <3> QED BY <1>7, <2>1, <3>1, <3>4 DEF Follows, free
  <2> QED BY <2>2, <2>3
<1> QED BY <1>5, <1>6, <1>7 DEF Follows

\* All of a source.
LEMMA DecompressFollows ==
  ASSUME NEW src, IsSource(src), NEW opts \in Options
  PROVE  Follows(Decompress(src, opts), Decompress(src, Freely(opts)), opts.out_cap)
<1> DEFINE free == Freely(opts)
           c == opts.out_cap
<1>1. PICK n \in Nat : n = Len(src.frames) /\ \A k \in 1..n : src.frames[k] \in Frame
  BY SourceFrames DEF IsSource
<1>2. free \in Options
  BY FreelyHas
<1>3. PICK x : DecompressRun(src, opts, x) /\ Decompress(src, opts) = NeedsZstd(x[n])
  BY <1>1, DecompressRuns
<1> HIDE DEF free
<1>4. PICK y : DecompressRun(src, free, y) /\ Decompress(src, free) = NeedsZstd(y[n])
  BY <1>1, <1>2, DecompressRuns
<1> DEFINE S == {k \in 0..n : Follows(x[k], y[k], c)}
<1>5. 0 \in S
  BY <1>1, <1>3, <1>4 DEF DecompressRun, Follows
<1>6. ASSUME NEW k \in 1..n, k - 1 \in S PROVE k \in S
  <2>1. k \in 0..n /\ k - 1 \in 0..n /\ src.frames[k] \in Frame
    BY <1>1
  <2>2. x[k - 1] \in Going(src, opts) /\ y[k - 1] \in Going(src, free) /\ Follows(x[k - 1], y[k - 1], c)
    BY <1>1, <1>3, <1>4, <1>6, <2>1 DEF DecompressRun
  <2>3. Follows(FrameStep(src, opts, x[k - 1], src.frames[k]), FrameStep(src, free, y[k - 1], src.frames[k]), c)
    BY <2>1, <2>2, TurnFollows DEF free
  <2>4. x[k] = FrameStep(src, opts, x[k - 1], src.frames[k]) /\ y[k] = FrameStep(src, free, y[k - 1], src.frames[k])
    BY <1>1, <1>3, <1>4 DEF DecompressRun
  <2> QED BY <2>1, <2>3, <2>4
<1>7. Follows(x[n], y[n], c)
  <2> HIDE DEF S
  <2>1. \A k \in 0..n : k \in S
    BY <1>1, <1>5, <1>6, Throughout
  <2>2. n \in 0..n
    BY <1>1
  <2> QED BY <2>1, <2>2 DEF S
<1>8. y[n] \in Decoding /\ "ContentSizeTooLarge" # None /\ "UnexpectedEof" \in Errs \ {None}
  <2>1. n \in 0..n
    BY <1>1
  <2> QED BY <1>1, <1>4, <2>1, ErrorsAre DEF DecompressRun, Going, Errors
<1>9. CASE x[n] = y[n]
  BY <1>3, <1>4, <1>9 DEF Follows, free
<1>10. CASE x[n].err = "ContentSizeTooLarge" /\ (y[n].err # None \/ y[n].out > c)
  <2>1. NeedsZstd(x[n]) = x[n]
    BY <1>8, <1>10 DEF NeedsZstd
  <2>2. NeedsZstd(y[n]).err # None \/ NeedsZstd(y[n]) = y[n]
    BY <1>8, FailDecoding DEF NeedsZstd
  <2> QED BY <1>3, <1>4, <1>10, <2>1, <2>2 DEF Follows, free
<1> QED BY <1>7, <1>9, <1>10 DEF Follows

\* A limit refuses what is larger and changes nothing else.
LEMMA LimitIs ==
  ASSUME NEW src, IsSource(src), NEW opts \in Options
  PROVE  LimitExact(src, opts)
<1> DEFINE l == Decompress(src, opts)
           g == Decompress(src, Freely(opts))
           c == opts.out_cap
<1>1. l \in Decoding /\ l.out <= c + BlockSizeMax /\ (l.err = None => l.out <= c)
  BY DecompressIs
<1>2. Follows(l, g, c)
  BY DecompressFollows
<1>3. "ContentSizeTooLarge" # None
  BY ErrorsAre DEF Errors
<1>4. g \in Decoding /\ c \in Nat
  <2>1. Freely(opts) \in Options /\ c \in Nat
    BY FreelyHas
  <2> QED BY <2>1, DecompressIs
<1> HIDE DEF l, g
<1>5. /\ (l.err = None) <=> (g.err = None /\ g.out <= c)
      /\ l.err = None => l.out = g.out
      /\ l.err \in {g.err, "ContentSizeTooLarge"}
  <2>1. CASE l = g
    BY <1>1, <2>1
  <2>2. CASE l.err = "ContentSizeTooLarge" /\ (g.err # None \/ g.out > c)
    <3>1. g.out \in Nat
      BY <1>4 DEF Decoding
    <3> QED BY <1>3, <1>4, <2>2, <3>1
  <2> QED BY <1>2, <2>1, <2>2 DEF Follows
<1> QED BY <1>1, <1>5 DEF LimitExact, l, g

-----------------------------------------------------------------------------
(* What ignoring checksums changes. *)

\* Options that differ at most in whether checksums are ignored.
SameButSums(o, p) ==
  o.window_max = p.window_max /\ o.dict = p.dict /\ o.out_cap = p.out_cap

\* A strict decoder is where one that ignores checksums is, or it has met a mismatch.
Forgiven(s, g) == s = g \/ s.err = "ChecksumMismatch"

LEMMA HeaderSame ==
  ASSUME NEW f \in ZstdFrame, NEW o \in Options, NEW p \in Options, SameButSums(o, p),
         NEW r \in Decoding, r.out <= o.out_cap
  PROVE  HeaderRefused(f, r, o) = HeaderRefused(f, r, p)
<1>1. r.out \in Nat /\ r.out <= p.out_cap /\ "ContentSizeTooLarge" # None
  BY ErrorsAre DEF Decoding, SameButSums, Errors
<1>2. HeaderSound(f, o) <=> HeaderSound(f, p)
  BY DEF HeaderSound, SameButSums
<1>3. CASE ~HeaderSound(f, o)
  BY <1>1, <1>3, HeaderRefusedIs DEF SameButSums
<1>4. CASE HeaderSound(f, o)
  <2>1. /\ HeaderRefused(f, r, o) \in {None, "ContentSizeTooLarge"}
        /\ HeaderRefused(f, r, o) = None <=> f.content_size = None \/ r.out + f.content_size <= o.out_cap
    BY <1>1, <1>4, HeaderRefusedIs
  <2>2. /\ HeaderRefused(f, r, p) \in {None, "ContentSizeTooLarge"}
        /\ HeaderRefused(f, r, p) = None <=> f.content_size = None \/ r.out + f.content_size <= p.out_cap
    BY <1>1, <1>2, <1>4, HeaderRefusedIs
  <2> QED BY <2>1, <2>2 DEF SameButSums
<1> QED BY <1>3, <1>4

LEMMA BlockSame ==
  ASSUME NEW src, NEW f \in ZstdFrame, NEW o, NEW p, SameButSums(o, p), NEW r, NEW b \in Block
  PROVE  DecodeBlock(src, f, o, r, b) = DecodeBlock(src, f, p, r, b)
<1> DEFINE h == ReadBlockHeader(src, r, b)
           t == Take(src, h, PayloadLen(b))
           chain(cap) ==
             IF h.err # None THEN h
             ELSE IF b.size > BlockMax(f) THEN Fail(h, "BlockTooLarge")
             ELSE IF b.ty # "compressed" THEN
               IF b.size > Less(cap, h.out) THEN Fail(h, "ContentSizeTooLarge")
               ELSE IF t.err # None THEN t
               ELSE [t EXCEPT !.out = @ + b.size]
             ELSE IF t.err # None THEN t
             ELSE IF b.regen > BlockMax(f) THEN Fail(t, "Corruption")
             ELSE IF t.out + b.regen > cap
               THEN Fail([t EXCEPT !.out = @ + b.regen], "ContentSizeTooLarge")
             ELSE [t EXCEPT !.out = @ + b.regen]
<1>1. BlockMax(f) \in Nat
  BY BlockMaxIs
<1>2. DecodeBlock(src, f, o, r, b) = chain(o.out_cap) /\ DecodeBlock(src, f, p, r, b) = chain(p.out_cap)
  BY <1>1, DecodeBlockOrder
<1> HIDE DEF chain
<1> QED BY <1>2 DEF SameButSums

LEMMA DecodedSame ==
  ASSUME NEW src, src.len \in Nat, NEW f \in ZstdFrame, NEW o \in Options, NEW p \in Options,
         SameButSums(o, p), NEW r \in Decoding, r.err = None, r.out <= o.out_cap
  PROVE  Decoded(src, f, o, r) = Decoded(src, f, p, r)
<1>1. r \in Within(o) /\ r \in Within(p)
  BY DEF Within, SameButSums
<1>2. PICK n \in Nat \ {0} : n = Len(f.blocks) /\ \A k \in 1..n : f.blocks[k] \in Block
  BY FrameBlocks
<1>3. PICK x : DecodeRun(src, f, o, r, x) /\ Decoded(src, f, o, r) = LoopEnd(f, x[n])
  BY <1>1, <1>2, DecodeRuns
<1>4. PICK y : DecodeRun(src, f, p, r, y) /\ Decoded(src, f, p, r) = LoopEnd(f, y[n])
  BY <1>1, <1>2, DecodeRuns
<1>5. ASSUME NEW k \in 1..n, x[k - 1] = y[k - 1] PROVE x[k] = y[k]
  <2>1. x[k] = DecodeStep(src, f, o, x[k - 1], f.blocks[k]) /\ y[k] = DecodeStep(src, f, p, x[k - 1], f.blocks[k])
    BY <1>2, <1>3, <1>4, <1>5 DEF DecodeRun
  <2>2. DecodeBlock(src, f, o, x[k - 1], f.blocks[k]) = DecodeBlock(src, f, p, x[k - 1], f.blocks[k])
    BY <1>2, BlockSame
  <2> QED BY <2>1, <2>2 DEF DecodeStep
<1>6. StepAlike(n, x, y)
  BY <1>3, <1>4, <1>5 DEF StepAlike, DecodeRun
<1>7. x[n] = y[n]
  BY <1>2, <1>6, Alike DEF AlikeTo
<1> QED BY <1>3, <1>4, <1>7

\* A frame behind its header.
LEMMA ZstdFrameForgiven ==
  ASSUME NEW src, src.len \in Nat, NEW f \in ZstdFrame, NEW o \in Options, NEW p \in Options,
         SameButSums(o, p), ~o.ignore_checksum, p.ignore_checksum,
         NEW r \in Decoding, r.err = None, r.pos <= src.len, r.out <= o.out_cap
  PROVE  Forgiven(DecodeZstdFrame(src, f, o, r), DecodeZstdFrame(src, f, p, r))
<1> DEFINE e == HeaderRefused(f, r, o)
           b == Decoded(src, f, o, r)
           t == Take(src, b, Checksum)
           cs == DecodeChecksum(src, f, o, b)
           cg == DecodeChecksum(src, f, p, b)
           s == DecodeZstdFrame(src, f, o, r)
           g == DecodeZstdFrame(src, f, p, r)
<1>1. HeaderRefused(f, r, p) = e
  BY HeaderSame
<1>2. Decoded(src, f, p, r) = b
  BY DecodedSame
<1>3. s = IF e # None THEN Fail(r, e) ELSE CheckContentSize(f, r, cs)
  BY Zenon DEF DecodeZstdFrame, Decoded
<1>4. g = IF e # None THEN Fail(r, e) ELSE CheckContentSize(f, r, cg)
  <2>1. g = IF HeaderRefused(f, r, p) # None THEN Fail(r, HeaderRefused(f, r, p))
            ELSE CheckContentSize(f, r, DecodeChecksum(src, f, p, Decoded(src, f, p, r)))
    BY Zenon DEF DecodeZstdFrame, Decoded
  <2> QED BY <1>1, <1>2, <2>1, Zenon
<1>5. "ChecksumMismatch" # None
  BY ErrorsAre DEF Errors
<1>6. /\ cs = IF b.err # None \/ f.checksum = "none" THEN b
              ELSE IF t.err = None /\ f.checksum = "bad" THEN Fail(t, "ChecksumMismatch") ELSE t
      /\ cg = IF b.err # None \/ f.checksum = "none" THEN b ELSE t
  BY DEF DecodeChecksum
<1>7. b.err = None => {"pos", "err"} \subseteq DOMAIN t
  <2>1. PICK n \in Nat \ {0} : n = Len(f.blocks)
    BY FrameBlocks
  <2>2. r \in Within(o)
    BY DEF Within
  <2>3. PICK x : DecodeRun(src, f, o, r, x) /\ b = LoopEnd(f, x[n])
    BY <2>1, <2>2, DecodeRuns
  <2>4. x[n] \in Decoding
    <3>1. n \in 0..n
      BY <2>1
    <3> QED BY <2>1, <2>3, <3>1 DEF DecodeRun, Within
  <2>5. b = x[n] \/ b = Fail(x[n], "UnexpectedEof")
    BY <2>3 DEF LoopEnd
  <2>6. "UnexpectedEof" \in Errs
    BY DEF Errs, Errors
  <2> HIDE DEF b
  <2>7. b \in Decoding
    BY <2>4, <2>5, <2>6, FailDecoding
  <2>8. b.pos \in Nat /\ {"pos", "err"} \subseteq DOMAIN b /\ Checksum \in Nat
    BY <2>7 DEF Decoding, Checksum
  <2>9. Reaches(b, t, b.pos + Checksum, b.err) \/ Reaches(b, t, b.pos, "UnexpectedEof")
    BY <2>8, TakeIs
  <2> HIDE DEF t
  <2>10. DOMAIN t = DOMAIN b
    BY <2>9 DEF Reaches
  <2> QED BY <2>8, <2>10
<1> HIDE DEF e, b, t, cs, cg, s, g
<1>8. CASE e # None
  <2>1. s = g
    BY <1>3, <1>4, <1>8
  <2> QED BY <2>1 DEF Forgiven, s, g
<1>9. CASE e = None /\ ~(b.err = None /\ f.checksum = "bad" /\ t.err = None)
  <2>1. cs = cg
    BY <1>6, <1>9
  <2>2. s = g
    BY <1>3, <1>4, <1>9, <2>1
  <2> QED BY <2>2 DEF Forgiven, s, g
<1>10. CASE e = None /\ b.err = None /\ f.checksum = "bad" /\ t.err = None
  <2>1. cs = Fail(t, "ChecksumMismatch")
    BY <1>6, <1>10
  <2>2. cs.err = "ChecksumMismatch"
    BY <1>7, <1>10, <2>1 DEF Fail
  <2>3. s = cs
    BY <1>3, <1>5, <1>10, <2>2 DEF CheckContentSize
  <2> QED BY <2>2, <2>3 DEF Forgiven, s, g
<1> QED BY <1>8, <1>9, <1>10

\* A frame.
LEMMA FrameForgiven ==
  ASSUME NEW src, src.len \in Nat, NEW f \in Frame, NEW o \in Options, NEW p \in Options,
         SameButSums(o, p), ~o.ignore_checksum, p.ignore_checksum,
         NEW r \in Decoding, r.err = None, r.pos <= src.len, r.out <= o.out_cap
  PROVE  Forgiven(DecompressFrame(src, o, r, f), DecompressFrame(src, p, r, f))
<1> DEFINE peeked == Peeked(src, r, f, r.saw_zstd)
           k == ParseKind(src, r, f)
           ds == DecodeZstdFrame(src, f, o, k)
           dg == DecodeZstdFrame(src, f, p, k)
           s == DecompressFrame(src, o, r, f)
           g == DecompressFrame(src, p, r, f)
           order(x, d) == x = IF peeked # None THEN Fail(r, peeked)
                              ELSE IF k.err # None THEN k
                              ELSE IF f.kind = "skippable" THEN Take(src, k, f.size)
                              ELSE [d EXCEPT !.saw_zstd = TRUE]
<1>1. order(s, ds) /\ order(g, dg)
  BY DecompressFrameOrder
<1>2. k.err = None => /\ k \in Decoding /\ k.pos <= src.len /\ k.out = r.out
                      /\ f.kind = "skippable" \/ f \in ZstdFrame
  BY ParsedIs
<1>3. ASSUME k.err = None, f.kind # "skippable"
      PROVE  ds \in Decoding /\ Forgiven(ds, dg)
  <2>1. k \in Decoding /\ k.pos <= src.len /\ k.out <= o.out_cap /\ f \in ZstdFrame
    <3> HIDE DEF k
    <3> QED BY <1>2, <1>3
  <2> HIDE DEF k
  <2>2. Forgiven(ds, dg)
    BY <1>3, <2>1, ZstdFrameForgiven
  <2>3. ds \in Decoding
    BY <1>3, <2>1, DecodeZstdFrameIs DEF Failed
  <2> QED BY <2>2, <2>3
<1> HIDE DEF peeked, k, ds, dg, s, g
<1>4. CASE peeked # None \/ k.err # None \/ f.kind = "skippable"
  <2>1. s = g
    BY <1>1, <1>4
  <2> QED BY <2>1 DEF Forgiven, s, g
<1>5. CASE peeked = None /\ k.err = None /\ f.kind # "skippable"
  <2>1. s = [ds EXCEPT !.saw_zstd = TRUE] /\ g = [dg EXCEPT !.saw_zstd = TRUE]
    BY <1>1, <1>5
  <2>2. ds \in Decoding /\ (ds = dg \/ ds.err = "ChecksumMismatch")
    BY <1>3, <1>5 DEF Forgiven
  <2>3. s = g \/ s.err = "ChecksumMismatch"
    BY <2>1, <2>2 DEF Decoding
  <2> QED BY <2>3 DEF Forgiven, s, g
<1> QED BY <1>4, <1>5

\* All of a source.
LEMMA DecompressForgiven ==
  ASSUME NEW src, IsSource(src), NEW o \in Options, NEW p \in Options,
         SameButSums(o, p), ~o.ignore_checksum, p.ignore_checksum
  PROVE  Forgiven(Decompress(src, o), Decompress(src, p))
<1>1. PICK n \in Nat : n = Len(src.frames) /\ \A k \in 1..n : src.frames[k] \in Frame
  BY SourceFrames DEF IsSource
<1>2. PICK x : DecompressRun(src, o, x) /\ Decompress(src, o) = NeedsZstd(x[n])
  BY <1>1, DecompressRuns
<1>3. PICK y : DecompressRun(src, p, y) /\ Decompress(src, p) = NeedsZstd(y[n])
  BY <1>1, DecompressRuns
<1>4. "ChecksumMismatch" # None /\ src.len \in Nat
  BY ErrorsAre DEF Errors, IsSource
<1> DEFINE S == {k \in 0..n : Forgiven(x[k], y[k])}
<1>5. 0 \in S
  BY <1>1, <1>2, <1>3 DEF DecompressRun, Forgiven
<1>6. ASSUME NEW k \in 1..n, k - 1 \in S PROVE k \in S
  <2> DEFINE f == src.frames[k]
             d == x[k - 1]
  <2>1. k \in 0..n /\ k - 1 \in 0..n /\ f \in Frame
    BY <1>1
  <2>2. x[k] = FrameStep(src, o, d, f) /\ y[k] = FrameStep(src, p, y[k - 1], f) /\ d \in Going(src, o)
    BY <1>1, <1>2, <1>3, <2>1 DEF DecompressRun
  <2>3. d = y[k - 1] \/ d.err = "ChecksumMismatch"
    BY <1>6 DEF Forgiven
  <2> HIDE DEF d, f
  <2>4. CASE ~More(src, d) /\ d = y[k - 1]
    BY <2>1, <2>2, <2>4 DEF FrameStep, Forgiven
  <2>5. CASE More(src, d) /\ d = y[k - 1]
    <3>1. d \in Decoding /\ d.err = None /\ d.pos <= src.len /\ d.out <= o.out_cap
      BY <2>2, <2>5 DEF More, Going
    <3>2. Forgiven(DecompressFrame(src, o, d, f), DecompressFrame(src, p, d, f))
      BY <1>4, <2>1, <3>1, FrameForgiven
    <3> QED BY <2>1, <2>2, <2>5, <3>2 DEF FrameStep
  <2>6. CASE d.err = "ChecksumMismatch"
    <3>1. x[k] = d
      BY <1>4, <2>2, <2>6 DEF FrameStep, More
    <3> QED BY <2>1, <2>6, <3>1 DEF Forgiven
  <2> QED BY <2>3, <2>4, <2>5, <2>6
<1>7. Forgiven(x[n], y[n])
  <2> HIDE DEF S
  <2>1. \A k \in 0..n : k \in S
    BY <1>1, <1>5, <1>6, Throughout
  <2>2. n \in 0..n
    BY <1>1
  <2> QED BY <2>1, <2>2 DEF S
<1> QED BY <1>2, <1>3, <1>4, <1>7 DEF Forgiven, NeedsZstd

\* Ignoring checksums forgives a mismatch and nothing else.
LEMMA IgnoringIs ==
  ASSUME NEW src, IsSource(src), NEW opts \in Options
  PROVE  IgnoringForgivesOnlyMismatch(src, opts)
<1> DEFINE o == [opts EXCEPT !.ignore_checksum = FALSE]
           p == [opts EXCEPT !.ignore_checksum = TRUE]
<1>1. o \in Options /\ p \in Options /\ SameButSums(o, p) /\ ~o.ignore_checksum /\ p.ignore_checksum
  BY DEF Options, SameButSums
<1>2. Forgiven(Decompress(src, o), Decompress(src, p))
  <2> HIDE DEF o, p
  <2> QED BY <1>1, DecompressForgiven
<1> HIDE DEF o, p
<1> QED BY <1>2, Zenon DEF Forgiven, IgnoringForgivesOnlyMismatch, o, p

-----------------------------------------------------------------------------
(* The walks agree. *)

\* What is taken up as a source is one: frames, whole or cut short, and the
\* options a decoder may be called with.
SourceTaken ==
  /\ "kind" \in DOMAIN input
  /\ input.kind = "source" => IsSource(input.src) /\ input.opts \in Options

LEMMA SourceInit == Init => SourceTaken
BY DEF Init, Idle, SourceTaken

LEMMA SourceStep == SourceTaken /\ [Next]_input => SourceTaken'
<1> SUFFICES ASSUME SourceTaken, [Next]_input PROVE SourceTaken'
  OBVIOUS
<1>1. CASE TakeSource
  <2>1. PICK frames \in Sources, opts \in DecodeOptions : \E len \in 0..WholeLen(frames) :
          input' = [kind |-> "source", src |-> [frames |-> frames, len |-> len], opts |-> opts]
    BY <1>1 DEF TakeSource
  <2>2. frames \in Source /\ opts \in Options
    BY FormatsAssumption DEF Options
  <2>3. WholeLen(frames) \in Nat
    <3>1. Len(frames) \in 0..Len(frames)
      BY <2>2, SourceFrames
    <3> QED BY <2>2, <3>1, FrameSums
  <2>4. PICK len \in 0..WholeLen(frames) :
          input' = [kind |-> "source", src |-> [frames |-> frames, len |-> len], opts |-> opts]
    BY <2>1
  <2>5. /\ input'.src.frames = frames /\ input'.src.len = len /\ input'.opts = opts
        /\ "kind" \in DOMAIN input'
    BY <2>4
  <2>6. len \in Nat /\ len <= WholeLen(frames)
    BY <2>3
  <2> QED BY <2>2, <2>5, <2>6 DEF SourceTaken, IsSource
<1>2. CASE TakeHeader \/ TakeLevel \/ TakeBlob \/ TakeContent
  <2>1. input'.kind # "source" /\ "kind" \in DOMAIN input'
    BY <1>2 DEF TakeHeader, TakeLevel, TakeBlob, TakeContent
  <2> QED BY <2>1 DEF SourceTaken
<1>3. CASE input.kind = "content" /\ TakePart
  <2>1. input'.kind = input.kind /\ "kind" \in DOMAIN input'
    BY <1>3 DEF TakePart, SourceTaken
  <2> QED BY <1>3, <2>1 DEF SourceTaken
<1>4. CASE input' = Idle
  BY <1>4 DEF SourceTaken, Idle
<1>5. CASE UNCHANGED input
  BY <1>5 DEF SourceTaken
<1> QED BY <1>1, <1>2, <1>3, <1>4, <1>5 DEF Next

LEMMA SourcesAgree == SourceTaken => WalksAgree
<1> SUFFICES ASSUME SourceTaken, input.kind = "source" PROVE WalksAgree
  BY DEF WalksAgree
<1>1. IsSource(input.src) /\ input.opts \in Options
  BY DEF SourceTaken
<1> QED BY <1>1, WalkersDo, TruncationIs, LimitIs, IgnoringIs DEF WalksAgree

\* Decoding, listing, measuring and counting agree on every source and its every
\* prefix, whatever the decoder is called with.
THEOREM WalksAgreeHolds == Spec => []WalksAgree
<1>1. SourceTaken /\ UNCHANGED input => SourceTaken'
  BY DEF SourceTaken
<1> QED BY <1>1, SourceInit, SourceStep, SourcesAgree, PTL DEF Spec

-----------------------------------------------------------------------------
(* The seekable format. *)

\* A function of the first naturals is a sequence.
LEMMA FunSeq ==
  ASSUME NEW X, NEW n \in Nat, NEW s, DOMAIN s = 1..n, s = [i \in 1..n |-> s[i]],
         \A i \in 1..n : s[i] \in X
  PROVE  s \in Seq(X) /\ Len(s) = n
<1>1. s \in [1..n -> X]
  OBVIOUS
<1> QED BY <1>1

\* Multiplying by what is not 0.
LEMMA TimesIs ==
  ASSUME NEW m \in Nat \ {0}, NEW i \in Nat, NEW j \in Nat, i <= j
  PROVE  m * i \in Nat /\ m * j \in Nat /\ m * i <= m * j /\ m * (i + 1) = m * i + m
<1>1. m * i \in Nat /\ m * j \in Nat
  OBVIOUS
<1>2. PICK d \in Nat : j = i + d
  <2> j - i \in Nat /\ j = i + (j - i)
    OBVIOUS
  <2> QED OBVIOUS
<1>3. m * (i + d) = m * i + m * d /\ m * d \in Nat
  OBVIOUS
<1>4. m * (i + 1) = m * i + m
  OBVIOUS
<1> QED BY <1>1, <1>2, <1>3, <1>4

\* The greater and the less of two numbers.
LEMMA TwoOf ==
  ASSUME NEW a \in Nat, NEW b \in Nat
  PROVE  /\ Max({a, b}) \in Nat /\ Max({a, b}) = IF a >= b THEN a ELSE b
         /\ Min({a, b}) \in Nat /\ Min({a, b}) = IF a <= b THEN a ELSE b
<1> DEFINE most == Max({a, b})
           least == Min({a, b})
<1>1. /\ \E x \in {a, b} : \A y \in {a, b} : x >= y
      /\ \E x \in {a, b} : \A y \in {a, b} : x <= y
  OBVIOUS
<1>2. most \in {a, b} /\ \A y \in {a, b} : most >= y
  BY <1>1, Zenon DEF Max
<1>3. least \in {a, b} /\ \A y \in {a, b} : least <= y
  BY <1>1, Zenon DEF Min
<1> HIDE DEF most, least
<1> QED BY <1>2, <1>3 DEF most, least

\* How often m goes into a, rounded up.
LEMMA Rounded ==
  ASSUME NEW a \in Nat, NEW m \in Nat \ {0}
  PROVE  LET q == (a + m - 1) \div m
         IN  q \in Nat /\ m * q <= a + m - 1 /\ a <= m * q
<1> DEFINE q == (a + m - 1) \div m
<1>1. PICK b \in Nat : b = a + m - 1
  <2> a + m - 1 \in Nat
    OBVIOUS
  <2> QED OBVIOUS
<1>2. q = b \div m
  BY <1>1
<1> HIDE DEF q
<1>3. q \in Nat /\ m * q <= b /\ b <= m * q + (m - 1)
  <2>1. b \div m \in Nat /\ m * (b \div m) <= b
    OBVIOUS
  <2>2. b < m * (b \div m) + m
    OBVIOUS
  <2>3. m * q \in Nat
    BY <1>2, <2>1
  <2> QED BY <1>2, <2>1, <2>2, <2>3
<1>4. m * q \in Nat
  BY <1>3
<1> QED BY <1>1, <1>3, <1>4 DEF q

\* n pieces, none longer than m, that lie end to end over len bytes.
Pieces(chunks, n, m, len) ==
  /\ n \in Nat \ {0} /\ DOMAIN chunks = 1..n /\ chunks \in Seq([from : Nat, to : Nat])
  /\ Len(chunks) = n
  /\ \A i \in 1..n : /\ chunks[i].from \in Nat /\ chunks[i].to \in Nat
                     /\ chunks[i].from <= chunks[i].to /\ chunks[i].to - chunks[i].from <= m
                     /\ chunks[i].to <= len
  /\ chunks[1].from = 0 /\ chunks[n].to = len
  /\ \A i \in 1..n : i # n => chunks[i + 1].from = chunks[i].to

\* What is cut up lies end to end.
LEMMA ChunksIs ==
  ASSUME NEW len \in Nat, NEW max_frame_size \in Nat
  PROVE  \E n : Pieces(Chunks(len, max_frame_size), n, Max({max_frame_size, 1}), len)
<1>1. PICK m \in Nat \ {0} : m = Max({max_frame_size, 1})
  <2>1. Max({max_frame_size, 1}) \in Nat \ {0}
    BY TwoOf
  <2> QED BY <2>1
<1>2. PICK q \in Nat : q = (len + m - 1) \div m /\ m * q <= len + m - 1 /\ len <= m * q
  BY Rounded
<1>3. PICK n \in Nat \ {0} : n = Max({q, 1}) /\ n = IF q >= 1 THEN q ELSE 1
  <2>1. Max({q, 1}) \in Nat \ {0} /\ Max({q, 1}) = IF q >= 1 THEN q ELSE 1
    BY TwoOf
  <2> QED BY <2>1
<1> DEFINE c == [i \in 1..n |-> [from |-> m * (i - 1), to |-> Min({m * i, len})]]
<1>4. Chunks(len, max_frame_size) = c
  BY <1>1, <1>2, <1>3, Zenon DEF Chunks
<1>5. /\ m * (n - 1) \in Nat /\ m * (n - 1) <= len /\ m * n \in Nat /\ len <= m * n
      /\ \A i \in 1..n : /\ m * (i - 1) \in Nat /\ m * i \in Nat /\ m * (i - 1) <= m * (n - 1)
                         /\ m * i = m * (i - 1) + m /\ (i # n => m * i <= m * (n - 1))
  <2>1. ASSUME NEW i \in 1..n
        PROVE  /\ m * (i - 1) \in Nat /\ m * i \in Nat /\ m * (i - 1) <= m * (n - 1)
               /\ m * i = m * (i - 1) + m /\ (i # n => m * i <= m * (n - 1))
    <3>1. i - 1 \in Nat /\ n - 1 \in Nat /\ i - 1 <= n - 1 /\ (i - 1) + 1 = i
      OBVIOUS
    <3>2. m * (i - 1) \in Nat /\ m * (i - 1) <= m * (n - 1) /\ m * ((i - 1) + 1) = m * (i - 1) + m
      BY <3>1, TimesIs
    <3>3. m * i \in Nat /\ m * i = m * (i - 1) + m
      BY <3>1, <3>2
    <3>4. ASSUME i # n PROVE m * i <= m * (n - 1)
      <4>1. i \in Nat /\ i <= n - 1
        BY <3>4
      <4> QED BY <3>1, <4>1, TimesIs
    <3> QED BY <3>2, <3>3, <3>4
  <2>2. n \in 1..n /\ n \in Nat /\ n <= n
    OBVIOUS
  <2>3. m * (n - 1) \in Nat /\ m * n \in Nat /\ m * n = m * (n - 1) + m
    BY <2>1, <2>2
  <2>4. CASE q >= 1
    <3>1. m * n = m * q
      BY <1>3, <2>4
    <3> QED BY <1>2, <2>1, <2>3, <3>1
  <2>5. CASE ~(q >= 1)
    <3>1. q = 0 /\ n = 1
      BY <1>3, <2>5
    <3>2. m * q = 0 /\ m * (n - 1) = 0
      BY <3>1
    <3> QED BY <1>2, <2>1, <2>3, <3>2
  <2> QED BY <2>4, <2>5
<1>6. \A i \in 1..n : c[i] = [from |-> m * (i - 1), to |-> Min({m * i, len})]
  OBVIOUS
<1>7. ASSUME NEW i \in 1..n
      PROVE  /\ c[i] \in [from : Nat, to : Nat]
             /\ c[i].from = m * (i - 1) /\ c[i].to = IF i = n THEN len ELSE m * i
             /\ c[i].to \in Nat /\ c[i].from <= c[i].to /\ c[i].to - c[i].from <= m /\ c[i].to <= len
  <2>1. /\ m * (i - 1) \in Nat /\ m * i \in Nat /\ m * (i - 1) <= m * (n - 1)
        /\ m * i = m * (i - 1) + m /\ (i # n => m * i <= m * (n - 1))
    BY <1>5
  <2>2. Min({m * i, len}) = IF m * i <= len THEN m * i ELSE len
    BY <2>1, TwoOf
  <2>3. Min({m * i, len}) = IF i = n THEN len ELSE m * i
    <3>1. CASE i = n
      <4>1. m * i = m * n
        BY <3>1
      <4> QED BY <1>5, <2>2, <3>1, <4>1
    <3>2. CASE i # n
      BY <1>5, <2>1, <2>2, <3>2
    <3> QED BY <3>1, <3>2
  <2>4. c[i].from = m * (i - 1) /\ c[i].to = Min({m * i, len})
    BY <1>6
  <2>5. c[i].to \in Nat /\ c[i].from <= c[i].to /\ c[i].to - c[i].from <= m /\ c[i].to <= len
    <3>1. CASE i = n
      <4>1. m * n = m * i /\ m * (n - 1) = m * (i - 1)
        BY <3>1
      <4> HIDE DEF c
      <4> QED BY <1>5, <2>1, <2>3, <2>4, <3>1, <4>1
    <3>2. CASE i # n
      <4> HIDE DEF c
      <4> QED BY <1>5, <2>1, <2>3, <2>4, <3>2
    <3> QED BY <3>1, <3>2
  <2>6. c[i] \in [from : Nat, to : Nat]
    BY <1>6, <2>1, <2>4, <2>5
  <2> HIDE DEF c
  <2> QED BY <2>3, <2>4, <2>5, <2>6
<1>8. DOMAIN c = 1..n /\ c \in Seq([from : Nat, to : Nat]) /\ Len(c) = n
  <2>1. DOMAIN c = 1..n /\ c = [i \in 1..n |-> c[i]]
    OBVIOUS
  <2> HIDE DEF c
  <2>2. \A i \in 1..n : c[i] \in [from : Nat, to : Nat]
    BY <1>7
  <2> DEFINE X == [from : Nat, to : Nat]
  <2>3. \A i \in 1..n : c[i] \in X
    BY <2>2
  <2> HIDE DEF X
  <2>4. c \in Seq(X) /\ Len(c) = n
    BY <2>1, <2>3, FunSeq
  <2> QED BY <2>1, <2>4 DEF X
<1>9. c[1].from = 0
  <2>1. 1 \in 1..n /\ m * (1 - 1) = 0
    OBVIOUS
  <2> HIDE DEF c
  <2> QED BY <1>7, <2>1
<1>10. c[n].to = len
  <2>1. n \in 1..n
    OBVIOUS
  <2> HIDE DEF c
  <2> QED BY <1>7, <2>1
<1>11. ASSUME NEW i \in 1..n, i # n PROVE c[i + 1].from = c[i].to
  <2>1. i + 1 \in 1..n /\ (i + 1) - 1 = i
    BY <1>11
  <2> HIDE DEF c
  <2> QED BY <1>7, <1>11, <2>1
<1>12. Pieces(c, n, m, len)
  <2> HIDE DEF c
  <2> QED BY <1>7, <1>8, <1>9, <1>10, <1>11 DEF Pieces
<1> QED BY <1>1, <1>4, <1>12

\* The sizes of pieces sum up to where they lie.
LEMMA PieceSums ==
  ASSUME NEW chunks, NEW n, NEW m, NEW len, Pieces(chunks, n, m, len),
         NEW s \in Seq(Nat), Len(s) = n, \A i \in 1..n : s[i] = SizeOf(chunks[i])
  PROVE  /\ SumOf(s) = len
         /\ \A i \in 1..n : SumTo(s, i - 1) = chunks[i].from /\ SumTo(s, i) = chunks[i].to
<1> DEFINE S == {k \in 0..n : k # 0 => SumTo(s, k) = chunks[k].to}
<1>1. n \in Nat \ {0} /\ n \in 1..n /\ 1 \in 1..n
  BY DEF Pieces
<1>2. SumTo(s, 0) = 0 /\ SumTo(s, n) = SumOf(s) /\ \A k \in 1..n : SumTo(s, k) = SumTo(s, k - 1) + s[k]
  BY SumToIs
<1>3. 0 \in S
  BY <1>1
<1>4. ASSUME NEW k \in 1..n, k - 1 \in S
      PROVE  SumTo(s, k - 1) = chunks[k].from /\ SumTo(s, k) = chunks[k].to
  <2>1. SumTo(s, k - 1) = chunks[k].from
    <3>1. CASE k = 1
      BY <1>2, <3>1 DEF Pieces
    <3>2. CASE k # 1
      <4>1. k - 1 \in 1..n /\ k - 1 # n /\ (k - 1) + 1 = k /\ k - 1 # 0
        BY <3>2
      <4>2. SumTo(s, k - 1) = chunks[k - 1].to
        BY <1>4, <4>1
      <4>3. chunks[(k - 1) + 1].from = chunks[k - 1].to
        BY <4>1 DEF Pieces
      <4> QED BY <4>1, <4>2, <4>3
    <3> QED BY <3>1, <3>2
  <2>2. SumTo(s, k) = SumTo(s, k - 1) + (chunks[k].to - chunks[k].from)
    BY <1>2 DEF SizeOf
  <2>3. chunks[k].to \in Nat /\ chunks[k].from \in Nat
    BY DEF Pieces
  <2> QED BY <2>1, <2>2, <2>3
<1>5. \A k \in 0..n : k \in S
  <2>1. ASSUME NEW k \in 1..n PROVE k - 1 \in S => k \in S
    BY <1>4
  <2> HIDE DEF S
  <2> QED BY <1>1, <1>3, <2>1, Throughout
<1>6. \A i \in 1..n : SumTo(s, i - 1) = chunks[i].from /\ SumTo(s, i) = chunks[i].to
  <2> SUFFICES ASSUME NEW i \in 1..n
               PROVE  SumTo(s, i - 1) = chunks[i].from /\ SumTo(s, i) = chunks[i].to
    OBVIOUS
  <2>1. i - 1 \in 0..n
    OBVIOUS
  <2>2. i - 1 \in S
    BY <1>5, <2>1
  <2> HIDE DEF S
  <2> QED BY <1>4, <2>2
<1>7. SumOf(s) = len
  <2> HIDE DEF S
  <2> QED BY <1>1, <1>2, <1>6 DEF Pieces
<1> QED BY <1>6, <1>7

PieceSizes(chunks, n) == [i \in 1..n |-> SizeOf(chunks[i])]

LEMMA PieceSizesAre ==
  ASSUME NEW chunks, NEW n, NEW m, NEW len, Pieces(chunks, n, m, len)
  PROVE  LET s == PieceSizes(chunks, n)
         IN  /\ s \in Seq(Nat) /\ Len(s) = n /\ \A i \in 1..n : s[i] = SizeOf(chunks[i])
             /\ SumTo(s, n) = len /\ \A i \in 1..n : SumTo(s, i - 1) = chunks[i].from
<1>1. PICK s \in Seq(Nat) : /\ s = PieceSizes(chunks, n) /\ Len(s) = n
                            /\ \A i \in 1..n : s[i] = SizeOf(chunks[i])
  <2> DEFINE s == PieceSizes(chunks, n)
  <2>1. DOMAIN s = 1..n /\ s = [i \in 1..n |-> s[i]] /\ \A i \in 1..n : s[i] = SizeOf(chunks[i])
    BY DEF PieceSizes
  <2>2. n \in Nat /\ \A i \in 1..n : SizeOf(chunks[i]) \in Nat
    BY DEF Pieces, SizeOf
  <2> HIDE DEF s
  <2>3. \A i \in 1..n : s[i] \in Nat
    BY <2>1, <2>2
  <2>4. s \in Seq(Nat) /\ Len(s) = n
    BY <2>1, <2>2, <2>3, FunSeq
  <2> QED BY <2>1, <2>4 DEF s
<1>2. SumOf(s) = len /\ \A i \in 1..n : SumTo(s, i - 1) = chunks[i].from
  BY <1>1, PieceSums
<1>3. SumTo(s, Len(s)) = SumOf(s)
  BY SumToIs
<1> QED BY <1>1, <1>2, <1>3

\* n tokens, none of them empty.
TokensAre(tokens, n) ==
  /\ n \in Nat /\ DOMAIN tokens = 1..n /\ Len(tokens) = n
  /\ \A i \in 1..n : tokens[i].len \in Nat \ {0}

Widths(tokens) == [i \in DOMAIN tokens |-> tokens[i].len]

LEMMA WidthsAre ==
  ASSUME NEW tokens, NEW n, TokensAre(tokens, n)
  PROVE  /\ Widths(tokens) \in Seq(Nat) /\ Len(Widths(tokens)) = n
         /\ \A i \in 1..n : Widths(tokens)[i] = tokens[i].len
<1> DEFINE w == Widths(tokens)
<1>1. n \in Nat /\ DOMAIN tokens = 1..n
  BY DEF TokensAre
<1>2. w = [i \in 1..n |-> w[i]] /\ \A i \in 1..n : w[i] = tokens[i].len
  BY <1>1 DEF Widths
<1>3. \A i \in 1..n : w[i] \in Nat
  BY <1>2 DEF TokensAre
<1> HIDE DEF w
<1>4. w \in Seq(Nat) /\ Len(w) = n
  BY <1>1, <1>2, <1>3, NumbersSeq
<1> QED BY <1>2, <1>4 DEF w

\* What a sequence begins with sums up to a sum of its first numbers.
LEMMA PrefixSum ==
  ASSUME NEW s \in Seq(Nat), NEW i \in 1..(Len(s) + 1), NEW p,
         DOMAIN p = 1..(i - 1), p = [j \in 1..(i - 1) |-> p[j]], \A j \in 1..(i - 1) : p[j] = s[j]
  PROVE  SumOf(p) = SumTo(s, i - 1)
<1>1. PICK n \in Nat : n = Len(s) /\ \A j \in 1..n : s[j] \in Nat
  BY SeqHas
<1>2. i - 1 \in 0..n /\ i - 1 \in Nat /\ \A j \in 1..(i - 1) : j \in 1..n
  BY <1>1
<1> DEFINE r == SubSeq(s, 1, i - 1)
<1>3. r \in Seq(Nat) /\ Len(r) = i - 1 /\ \A j \in 1..(i - 1) : r[j] = s[j]
  <2>1. Part(s, 0, i - 1, SubSeq(s, 0 + 1, i - 1))
    <3>1. 0 \in Nat /\ 0 <= i - 1 /\ i - 1 <= Len(s)
      BY <1>1, <1>2
    <3> QED BY <1>2, <3>1, PartIs
  <2>2. 0 + 1 = 1 /\ (i - 1) - 0 = i - 1 /\ \A j \in 1..(i - 1) : 0 + j = j
    BY <1>2
  <2> QED BY <2>1, <2>2 DEF Part
<1>4. p \in Seq(Nat) /\ Len(p) = i - 1
  <2>1. \A j \in 1..(i - 1) : p[j] \in Nat
    BY <1>1, <1>2
  <2> QED BY <1>2, <2>1, NumbersSeq
<1>5. p = r
  <2> HIDE DEF r
  <2>1. \A j \in 1..(i - 1) : p[j] = r[j]
    BY <1>3
  <2> QED BY <1>3, <1>4, <2>1, SeqEqual
<1> QED BY <1>5, Zenon DEF SumTo

\* Offsets are sums of the lengths before.
LEMMA OffsetSum ==
  ASSUME NEW tokens, NEW n, TokensAre(tokens, n), NEW i \in 1..(n + 1)
  PROVE  Offset(tokens, i) = SumTo(Widths(tokens), i - 1)
<1> DEFINE w == Widths(tokens)
           p == [j \in 1..(i - 1) |-> tokens[j].len]
<1>1. n \in Nat /\ \A j \in 1..(i - 1) : j \in 1..n
  BY DEF TokensAre
<1>2. w \in Seq(Nat) /\ Len(w) = n /\ \A j \in 1..n : w[j] = tokens[j].len
  BY WidthsAre
<1>3. /\ DOMAIN p = 1..(i - 1) /\ p = [j \in 1..(i - 1) |-> p[j]]
      /\ \A j \in 1..(i - 1) : p[j] = tokens[j].len
  OBVIOUS
<1>4. SumOf(p) = SumTo(w, i - 1)
  <2> HIDE DEF w, p
  <2>1. \A j \in 1..(i - 1) : p[j] = w[j]
    BY <1>1, <1>2, <1>3
  <2> QED BY <1>2, <1>3, <2>1, PrefixSum
<1> QED BY <1>4, Zenon DEF Offset

\* Where tokens lie.
LEMMA OffsetIs ==
  ASSUME NEW tokens, NEW n, TokensAre(tokens, n)
  PROVE  /\ Offset(tokens, 1) = 0 /\ BlobLen(tokens) = Offset(tokens, n + 1)
         /\ \A i \in 1..(n + 1) : Offset(tokens, i) \in Nat
         /\ \A i \in 1..n : Offset(tokens, i + 1) = Offset(tokens, i) + tokens[i].len
<1> DEFINE w == Widths(tokens)
<1>1. n \in Nat /\ Len(tokens) = n
  BY DEF TokensAre
<1>2. w \in Seq(Nat) /\ Len(w) = n /\ \A i \in 1..n : w[i] = tokens[i].len
  BY WidthsAre
<1> HIDE DEF w
<1>3. \A i \in 1..(n + 1) : Offset(tokens, i) = SumTo(w, i - 1)
  BY OffsetSum DEF w
<1>4. /\ SumTo(w, 0) = 0 /\ \A i \in 0..n : SumTo(w, i) \in Nat
      /\ \A i \in 1..n : SumTo(w, i) = SumTo(w, i - 1) + w[i]
  BY <1>2, SumToIs
<1>5. Offset(tokens, 1) = 0
  <2>1. 1 \in 1..(n + 1) /\ 1 - 1 = 0
    BY <1>1
  <2>2. Offset(tokens, 1) = SumTo(w, 1 - 1)
    BY <1>3, <2>1
  <2> QED BY <1>4, <2>1, <2>2
<1>6. ASSUME NEW i \in 1..(n + 1) PROVE Offset(tokens, i) \in Nat
  <2>1. i - 1 \in 0..n
    BY <1>1
  <2> QED BY <1>3, <1>4, <2>1
<1>7. ASSUME NEW i \in 1..n PROVE Offset(tokens, i + 1) = Offset(tokens, i) + tokens[i].len
  <2>1. i \in 1..(n + 1) /\ i + 1 \in 1..(n + 1) /\ (i + 1) - 1 = i
    BY <1>1
  <2>2. Offset(tokens, i + 1) = SumTo(w, i) /\ Offset(tokens, i) = SumTo(w, i - 1)
    BY <1>3, <2>1
  <2> QED BY <1>2, <1>4, <2>2
<1>8. BlobLen(tokens) = Offset(tokens, n + 1)
  BY <1>1 DEF BlobLen
<1> QED BY <1>5, <1>6, <1>7, <1>8

\* A token ends before the next ones begin.
LEMMA OffsetsGrow ==
  ASSUME NEW tokens, NEW n, TokensAre(tokens, n), NEW i \in 1..n, NEW j \in 1..(n + 1), i < j
  PROVE  Offset(tokens, i + 1) <= Offset(tokens, j) /\ Offset(tokens, i) < Offset(tokens, j)
<1> DEFINE w == Widths(tokens)
<1>1. n \in Nat /\ tokens[i].len \in Nat \ {0}
  BY DEF TokensAre
<1>2. w \in Seq(Nat) /\ Len(w) = n
  BY WidthsAre
<1>3. /\ i + 1 \in 1..(n + 1) /\ i \in 0..n /\ j - 1 \in 0..n /\ i <= j - 1 /\ (i + 1) - 1 = i
      /\ i \in 1..(n + 1)
  BY <1>1
<1>4. Offset(tokens, i + 1) = SumTo(w, i) /\ Offset(tokens, j) = SumTo(w, j - 1)
  BY <1>3, OffsetSum
<1> HIDE DEF w
<1>5. SumTo(w, i) <= SumTo(w, j - 1)
  BY <1>2, <1>3, SumsGrow
<1>6. Offset(tokens, i + 1) = Offset(tokens, i) + tokens[i].len /\ Offset(tokens, i) \in Nat
      /\ Offset(tokens, j) \in Nat
  BY <1>3, OffsetIs
<1> QED BY <1>1, <1>4, <1>5, <1>6

\* What is read where a token begins is the token.
LEMMA AtIs ==
  ASSUME NEW tokens, NEW n, TokensAre(tokens, n), NEW i \in 1..n
  PROVE  At(tokens, Offset(tokens, i)) = tokens[i].v
<1> DEFINE begun == {j \in DOMAIN tokens : Offset(tokens, j) = Offset(tokens, i)}
<1>1. n \in Nat /\ DOMAIN tokens = 1..n
  BY DEF TokensAre
<1>2. begun = {i}
  <2>1. ASSUME NEW j \in 1..n, Offset(tokens, j) = Offset(tokens, i) PROVE j = i
    <3>1. j \in 1..(n + 1) /\ i \in 1..(n + 1)
      BY <1>1
    <3>2. Offset(tokens, i) \in Nat
      BY <3>1, OffsetIs
    <3>3. ~(j < i)
      BY <2>1, <3>1, <3>2, OffsetsGrow
    <3>4. ~(i < j)
      BY <2>1, <3>1, <3>2, OffsetsGrow
    <3> QED BY <3>3, <3>4
  <2> QED BY <1>1, <2>1
<1>3. Min({i}) = i
  <2>1. \E x \in {i} : \A y \in {i} : x <= y
    OBVIOUS
  <2>2. Min({i}) \in {i}
    BY <2>1, Zenon DEF Min
  <2> QED BY <2>2
<1>4. begun # {} /\ Min(begun) = i
  BY <1>2, <1>3
<1> HIDE DEF begun
<1> QED BY <1>4, Zenon DEF At, begun

\* The bytes from where a token begins to where it ends are the token.
LEMMA HoldsIs ==
  ASSUME NEW tokens, NEW n, TokensAre(tokens, n), NEW i \in 1..n
  PROVE  Holds(tokens, Offset(tokens, i), Offset(tokens, i + 1), i)
<1>1. n \in Nat /\ DOMAIN tokens = 1..n /\ \A j \in 1..n : tokens[j].len \in Nat \ {0}
  BY DEF TokensAre
<1>2. /\ \A j \in 1..n : j \in 1..(n + 1) /\ j + 1 \in 1..(n + 1)
      /\ \A j \in 1..n : /\ Offset(tokens, j + 1) = Offset(tokens, j) + tokens[j].len
                         /\ Offset(tokens, j) \in Nat /\ Offset(tokens, j + 1) \in Nat
  <2>1. \A j \in 1..n : j \in 1..(n + 1) /\ j + 1 \in 1..(n + 1)
    BY <1>1
  <2> QED BY <2>1, OffsetIs
<1>3. ASSUME NEW j \in 1..n, Offset(tokens, j) >= Offset(tokens, i), Offset(tokens, j + 1) <= Offset(tokens, i + 1)
      PROVE  j = i
  <2>1. ~(j < i)
    BY <1>2, <1>3, OffsetsGrow
  <2>2. ~(i < j)
    <3> SUFFICES ASSUME i < j PROVE FALSE
      OBVIOUS
    <3>1. Offset(tokens, i + 1) <= Offset(tokens, j)
      BY <1>2, OffsetsGrow
    <3>2. /\ tokens[j].len \in Nat \ {0} /\ Offset(tokens, j) \in Nat /\ Offset(tokens, j + 1) \in Nat
          /\ Offset(tokens, i + 1) \in Nat /\ Offset(tokens, j + 1) = Offset(tokens, j) + tokens[j].len
      BY <1>1, <1>2
    <3>3. Offset(tokens, j + 1) > Offset(tokens, j)
      BY <3>2
    <3> QED BY <1>3, <3>1, <3>2, <3>3
  <2> QED BY <2>1, <2>2
<1>4. {j \in DOMAIN tokens : Offset(tokens, j) >= Offset(tokens, i)
                             /\ Offset(tokens, j) + tokens[j].len <= Offset(tokens, i + 1)} = {i}
  BY <1>1, <1>2, <1>3
<1> QED BY <1>2, <1>4 DEF Holds

\* A block that bytes are made into stands for them.
LEMMA BlockOfIs ==
  ASSUME NEW n \in Nat, NEW ty \in {"raw", "rle", "compressed"}, NEW last \in BOOLEAN
  PROVE  LET b == BlockOf(n, ty, last)
         IN  /\ b \in Block /\ b.last = last /\ b.ty = ty /\ Stands(b) = n
             /\ b.size <= n /\ (b.ty = "compressed" => b.regen <= n)
<1> DEFINE b == BlockOf(n, ty, last)
<1>1. n \div 2 \in Nat /\ n \div 2 <= n
  OBVIOUS
<1>2. CASE ty = "compressed"
  <2>1. b = [last |-> last, ty |-> ty, size |-> n \div 2, regen |-> n]
    BY <1>2, Zenon DEF BlockOf
  <2> HIDE DEF b
  <2>2. b.last = last /\ b.ty = ty /\ b.size = n \div 2 /\ b.regen = n
    BY <2>1
  <2>3. b \in Block
    BY <1>1, <2>1 DEF Block
  <2> QED BY <1>1, <1>2, <2>2, <2>3 DEF Stands, b
<1>3. CASE ty # "compressed"
  <2>1. b = [last |-> last, ty |-> ty, size |-> n, regen |-> 0]
    BY <1>3, Zenon DEF BlockOf
  <2> HIDE DEF b
  <2>2. b.last = last /\ b.ty = ty /\ b.size = n
    BY <2>1
  <2>3. b \in Block
    BY <2>1 DEF Block
  <2> QED BY <1>3, <2>2, <2>3 DEF Stands, b
<1> QED BY <1>2, <1>3

\* What the default options are, with a window as large as need be.
Default(window_max) ==
  [window_max |-> window_max, ignore_checksum |-> FALSE, dict |-> None, out_cap |-> Unlimited]

\* The frame of a chunk is one, and decodes to the chunk's size.
LEMMA ChunkFrameIs ==
  ASSUME NEW chunk, SizeOf(chunk) \in Nat, NEW ty \in {"raw", "rle", "compressed"}, NEW checksum \in BOOLEAN,
         NEW window_max \in Nat, SizeOf(chunk) <= window_max, SizeOf(chunk) <= Unlimited
  PROVE  LET f == ChunkFrame(chunk, ty, checksum)
             d == Decompress(Whole(<<f>>), Default(window_max))
         IN  FrameLen(f) \in Nat \ {0} /\ d.err = None /\ d.out = SizeOf(chunk)
<1> DEFINE f == ChunkFrame(chunk, ty, checksum)
           opts == Default(window_max)
<1>1. PICK size \in Nat : size = SizeOf(chunk)
  OBVIOUS
<1> DEFINE parts == Chunks(size, BlockSizeMax)
           blocks == [j \in DOMAIN parts |-> BlockOf(SizeOf(parts[j]), ty, j = Len(parts))]
<1>2. BlockSizeMax \in Nat \ {0} /\ Max({BlockSizeMax, 1}) = BlockSizeMax
  <2>1. BlockSizeMax \in Nat \ {0}
    BY HeaderConstants
  <2> QED BY <2>1, TwoOf
<1>3. PICK n : Pieces(parts, n, BlockSizeMax, size)
  <2> HIDE DEF parts
  <2>1. \E n : Pieces(parts, n, Max({BlockSizeMax, 1}), size)
    BY <1>2, ChunksIs DEF parts
  <2> QED BY <1>2, <2>1
<1>4. f = [kind |-> "zstd", header_len |-> 2, reserved |-> FALSE, window |-> size,
           dict_id |-> None, content_size |-> size,
           checksum |-> IF checksum THEN "good" ELSE "none", blocks |-> blocks]
  BY <1>1, Zenon DEF ChunkFrame
<1> HIDE DEF parts
<1>5. n \in Nat \ {0} /\ DOMAIN parts = 1..n /\ Len(parts) = n
  BY <1>3 DEF Pieces
<1>6. \A j \in 1..n : SizeOf(parts[j]) \in Nat /\ SizeOf(parts[j]) <= BlockSizeMax /\ SizeOf(parts[j]) <= size
  <2> SUFFICES ASSUME NEW j \in 1..n
               PROVE  /\ SizeOf(parts[j]) \in Nat /\ SizeOf(parts[j]) <= BlockSizeMax
                      /\ SizeOf(parts[j]) <= size
    OBVIOUS
  <2>1. /\ parts[j].from \in Nat /\ parts[j].to \in Nat /\ parts[j].from <= parts[j].to
        /\ parts[j].to - parts[j].from <= BlockSizeMax /\ parts[j].to <= size
    BY <1>3 DEF Pieces
  <2>2. SizeOf(parts[j]) = parts[j].to - parts[j].from
    BY DEF SizeOf
  <2> QED BY <1>2, <2>1, <2>2
<1>7. blocks = [j \in 1..n |-> blocks[j]] /\ DOMAIN blocks = 1..n
      /\ \A j \in 1..n : blocks[j] = BlockOf(SizeOf(parts[j]), ty, j = n)
  BY <1>5
<1> HIDE DEF blocks
<1>8. ASSUME NEW j \in 1..n
      PROVE  /\ blocks[j] \in Block /\ blocks[j].last = (j = n) /\ blocks[j].ty = ty
             /\ Stands(blocks[j]) = SizeOf(parts[j])
             /\ blocks[j].size <= SizeOf(parts[j])
             /\ blocks[j].ty = "compressed" => blocks[j].regen <= SizeOf(parts[j])
  <2>1. PICK last \in BOOLEAN : last = (j = n)
    <3> (j = n) \in BOOLEAN
      OBVIOUS
    <3> QED BY Zenon
  <2>2. PICK k \in Nat : k = SizeOf(parts[j])
    BY <1>6
  <2>3. blocks[j] = BlockOf(k, ty, last)
    BY <1>7, <2>1, <2>2, Zenon
  <2>4. /\ BlockOf(k, ty, last) \in Block /\ BlockOf(k, ty, last).last = last
        /\ BlockOf(k, ty, last).ty = ty /\ Stands(BlockOf(k, ty, last)) = k
        /\ BlockOf(k, ty, last).size <= k
        /\ BlockOf(k, ty, last).ty = "compressed" => BlockOf(k, ty, last).regen <= k
    BY BlockOfIs
  <2> QED BY <2>1, <2>2, <2>3, <2>4, Zenon
<1>9. blocks \in Seq(Block) /\ Len(blocks) = n
  <2>1. n \in Nat /\ \A j \in 1..n : blocks[j] \in Block
    BY <1>5, <1>8
  <2> QED BY <1>7, <2>1, FunSeq
<1>10. blocks \in BlocksOfFrame
  <2>1. blocks # <<>>
    BY <1>5, <1>9
  <2>2. ASSUME NEW i \in 1..(Len(blocks) - 1) PROVE ~blocks[i].last
    <3>1. i \in 1..n /\ i # n
      BY <1>5, <1>9
    <3> QED BY <1>8, <3>1
  <2> QED BY <1>9, <2>1, <2>2 DEF BlocksOfFrame
<1>11. f \in ZstdFrame
  BY <1>4, <1>10 DEF ZstdFrame
<1>12. /\ f.kind = "zstd" /\ f.reserved = FALSE /\ f.window = size /\ f.dict_id = None
       /\ f.content_size = size /\ f.checksum # "bad" /\ f.blocks = blocks
  BY <1>4
<1> HIDE DEF f
<1>13. SumOf(Stood(f)) = size
  <2>1. /\ Stood(f) \in Seq(Nat) /\ Len(Stood(f)) = n
        /\ \A k \in 1..n : Stood(f)[k] = SizeOf(parts[k])
    BY <1>8, <1>9, <1>11, <1>12, LensAre
  <2> QED BY <1>3, <2>1, PieceSums
<1>14. BlockMax(f) = IF size <= BlockSizeMax THEN size ELSE BlockSizeMax
  <2>1. Min({size, BlockSizeMax}) = IF size <= BlockSizeMax THEN size ELSE BlockSizeMax
    BY <1>2, TwoOf
  <2> QED BY <1>12, <2>1 DEF BlockMax
<1>15. ASSUME NEW j \in 1..n PROVE BlockSound(f, blocks[j])
  <2>1. blocks[j].size \in Nat /\ blocks[j].regen \in Nat
    BY <1>8, BlockHas
  <2>2. SizeOf(parts[j]) \in Nat /\ SizeOf(parts[j]) <= BlockMax(f) /\ BlockMax(f) \in Nat
    BY <1>2, <1>6, <1>14
  <2>3. blocks[j].size <= BlockMax(f) /\ (blocks[j].ty = "compressed" => blocks[j].regen <= BlockMax(f))
    BY <1>8, <2>1, <2>2
  <2>4. blocks[j].ty # "reserved"
    BY <1>8
  <2> QED BY <2>3, <2>4 DEF BlockSound
<1>16. opts \in Options /\ opts.window_max = window_max /\ opts.dict = None /\ opts.out_cap = Unlimited
  BY LimitConstant DEF Default, Options
<1> HIDE DEF opts
<1>17. FrameSound(f, opts)
  <2>1. HeaderSound(f, opts)
    BY <1>1, <1>12, <1>16 DEF HeaderSound
  <2>2. Sound(f, Len(f.blocks))
    BY <1>9, <1>12, <1>15 DEF Sound
  <2>3. f.blocks[Len(f.blocks)].last
    <3>1. n \in 1..n
      BY <1>5
    <3> QED BY <1>8, <1>9, <1>12, <3>1
  <2> QED BY <1>12, <1>13, <2>1, <2>2, <2>3 DEF FrameSound
<1>18. Reads(f, opts)
  BY <1>12, <1>17 DEF Reads, Begun
<1>19. SumOf(Stood(f)) <= opts.out_cap
  BY <1>1, <1>13, <1>16
<1>20. FrameLen(f) \in Nat \ {0}
  <2>1. f \in Frame
    BY <1>11 DEF Frame
  <2> QED BY <2>1, FrameLens
<1>21. Decompress(Whole(<<f>>), opts).err = None /\ Decompress(Whole(<<f>>), opts).out = size
  BY <1>11, <1>13, <1>16, <1>18, <1>19, DecodesAlone
<1> QED BY <1>1, <1>20, <1>21 DEF f, opts

\* Where the third of three sequences lies, behind two of n and of 2 + e.
LEMMA ThirdPlaces ==
  ASSUME NEW n \in Nat, NEW e \in Nat, NEW i \in 1..3
  PROVE  /\ (2 + e) + i \in 1..((2 + e) + 3) /\ ~((2 + e) + i <= 2 + e) /\ ((2 + e) + i) - (2 + e) = i
         /\ n + ((2 + e) + i) = n + e + 2 + i
OBVIOUS

\* The parts of a blob: the frames, the table's header, its entries, its footer.
Joined(t, n, F, A, B, e, E, C, D, G) ==
  /\ DOMAIN t = 1..(n + e + 5) /\ Len(t) = n + e + 5
  /\ \A i \in 1..n : t[i] = F[i]
  /\ t[n + 1] = A /\ t[n + 2] = B
  /\ \A i \in 1..e : t[n + 2 + i] = E[i]
  /\ t[n + e + 3] = C /\ t[n + e + 4] = D /\ t[n + e + 5] = G

Row(s, n) == DOMAIN s = 1..n /\ s = [i \in 1..n |-> s[i]]

LEMMA JoinedIs ==
  ASSUME NEW n \in Nat, NEW e \in Nat, NEW F, NEW E, Row(F, n), Row(E, e),
         NEW A, NEW B, NEW C, NEW D, NEW G
  PROVE  Joined(F \o (<<A, B>> \o E \o <<C, D, G>>), n, F, A, B, e, E, C, D, G)
<1> DEFINE X == {F[i] : i \in 1..n} \cup {E[i] : i \in 1..e} \cup {A, B, C, D, G}
           h == <<A, B>>
           l == <<C, D, G>>
           m == h \o E
           b == m \o l
           t == F \o b
<1>1. /\ \A i \in 1..n : F[i] \in X
      /\ \A i \in 1..e : E[i] \in X
      /\ A \in X /\ B \in X /\ C \in X /\ D \in X /\ G \in X
  OBVIOUS
<1> HIDE DEF X
<1>2. F \in Seq(X) /\ Len(F) = n
  BY <1>1, FunSeq DEF Row
<1>3. E \in Seq(X) /\ Len(E) = e
  BY <1>1, FunSeq DEF Row
<1>4. /\ h \in Seq(X) /\ Len(h) = 2 /\ h[1] = A /\ h[2] = B
      /\ l \in Seq(X) /\ Len(l) = 3 /\ l[1] = C /\ l[2] = D /\ l[3] = G
  BY <1>1
<1> HIDE DEF h, l
<1>5. /\ m \in Seq(X) /\ Len(m) = 2 + e
      /\ \A i \in 1..(2 + e) : m[i] = IF i <= 2 THEN h[i] ELSE E[i - 2]
  <2>1. /\ h \o E \in Seq(X) /\ Len(h \o E) = Len(h) + Len(E)
        /\ \A i \in 1..(Len(h) + Len(E)) : (h \o E)[i] = IF i <= Len(h) THEN h[i] ELSE E[i - Len(h)]
    BY <1>3, <1>4, JoinHas
  <2> QED BY <1>3, <1>4, <2>1, Zenon DEF m
<1> HIDE DEF m
<1>6. /\ b \in Seq(X) /\ Len(b) = (2 + e) + 3
      /\ \A i \in 1..((2 + e) + 3) : b[i] = IF i <= 2 + e THEN m[i] ELSE l[i - (2 + e)]
  <2>1. /\ m \o l \in Seq(X) /\ Len(m \o l) = Len(m) + Len(l)
        /\ \A i \in 1..(Len(m) + Len(l)) : (m \o l)[i] = IF i <= Len(m) THEN m[i] ELSE l[i - Len(m)]
    BY <1>4, <1>5, JoinHas
  <2> QED BY <1>4, <1>5, <2>1, Zenon DEF b
<1> HIDE DEF b
<1>7. /\ t \in Seq(X) /\ Len(t) = n + ((2 + e) + 3)
      /\ \A i \in 1..(n + ((2 + e) + 3)) : t[i] = IF i <= n THEN F[i] ELSE b[i - n]
  <2>1. /\ F \o b \in Seq(X) /\ Len(F \o b) = Len(F) + Len(b)
        /\ \A i \in 1..(Len(F) + Len(b)) : (F \o b)[i] = IF i <= Len(F) THEN F[i] ELSE b[i - Len(F)]
    BY <1>2, <1>6, JoinHas
  <2> QED BY <1>2, <1>6, <2>1, Zenon DEF t
<1> HIDE DEF t
<1>8. DOMAIN t = 1..(n + e + 5) /\ Len(t) = n + e + 5
  <2>1. n + ((2 + e) + 3) = n + e + 5
    OBVIOUS
  <2> QED BY <1>7, <2>1
<1>9. ASSUME NEW i \in 1..n PROVE t[i] = F[i]
  <2>1. i \in 1..(n + ((2 + e) + 3)) /\ i <= n
    OBVIOUS
  <2> QED BY <1>7, <2>1
<1>10. ASSUME NEW i \in 1..((2 + e) + 3) PROVE t[n + i] = b[i]
  <2>1. n + i \in 1..(n + ((2 + e) + 3)) /\ ~(n + i <= n) /\ (n + i) - n = i
    OBVIOUS
  <2> QED BY <1>7, <2>1
<1>11. b[1] = A /\ b[2] = B
  <2>1. 1 \in 1..(2 + e) /\ 2 \in 1..(2 + e) /\ 1 \in 1..((2 + e) + 3) /\ 2 \in 1..((2 + e) + 3)
        /\ 1 <= 2 + e /\ 2 <= 2 + e
    OBVIOUS
  <2>2. 1 <= 2 /\ 2 <= 2
    OBVIOUS
  <2>3. m[1] = h[1] /\ m[2] = h[2]
    BY <1>5, <2>1, <2>2, Zenon
  <2>4. b[1] = m[1] /\ b[2] = m[2]
    BY <1>6, <2>1, Zenon
  <2> QED BY <1>4, <2>3, <2>4, Zenon
<1>12. ASSUME NEW i \in 1..e PROVE t[n + 2 + i] = E[i]
  <2>1. 2 + i \in 1..(2 + e) /\ 2 + i \in 1..((2 + e) + 3) /\ ~(2 + i <= 2) /\ (2 + i) - 2 = i
        /\ 2 + i <= 2 + e /\ n + (2 + i) = n + 2 + i
    OBVIOUS
  <2>2. b[2 + i] = E[i]
    BY <1>5, <1>6, <2>1
  <2> QED BY <1>10, <2>1, <2>2
<1>13. ASSUME NEW i \in 1..3 PROVE t[n + e + 2 + i] = l[i]
  <2>1. (2 + e) + i \in 1..((2 + e) + 3) /\ ~((2 + e) + i <= 2 + e) /\ ((2 + e) + i) - (2 + e) = i
        /\ n + ((2 + e) + i) = n + e + 2 + i
    BY ThirdPlaces
  <2>2. b[(2 + e) + i] = l[i]
    BY <1>6, <2>1
  <2> QED BY <1>10, <2>1, <2>2
<1>14. t[n + e + 3] = C /\ t[n + e + 4] = D /\ t[n + e + 5] = G
  <2>1. n + e + 2 + 1 = n + e + 3 /\ n + e + 2 + 2 = n + e + 4 /\ n + e + 2 + 3 = n + e + 5
    OBVIOUS
  <2>2. t[n + e + 2 + 1] = C /\ t[n + e + 2 + 2] = D /\ t[n + e + 2 + 3] = G
    BY <1>4, <1>13
  <2> QED BY <2>1, <2>2
<1>15. t[n + 1] = A /\ t[n + 2] = B
  <2>1. 1 \in 1..((2 + e) + 3) /\ 2 \in 1..((2 + e) + 3)
    OBVIOUS
  <2> QED BY <1>10, <1>11, <2>1
<1>16. Joined(t, n, F, A, B, e, E, C, D, G)
  BY <1>8, <1>9, <1>12, <1>14, <1>15, Zenon DEF Joined
<1> QED BY <1>16, Zenon DEF t, b, m, h, l

\* The tokens of a table behind n frames: their lengths.
TableAfter(tokens, n, e) ==
  /\ n \in Nat /\ e \in Nat /\ TokensAre(tokens, n + e + 5)
  /\ tokens[n + 1].len = 4 /\ tokens[n + 2].len = 4
  /\ \A i \in 1..e : tokens[n + 2 + i].len = 4
  /\ tokens[n + e + 3].len = 4 /\ tokens[n + e + 4].len = 1 /\ tokens[n + e + 5].len = 4

\* What is read of a table, and where.
LEMMA TableAt ==
  ASSUME NEW tokens, NEW n, NEW e, TableAfter(tokens, n, e)
  PROVE  LET x == Offset(tokens, n + 1)
         IN  /\ x \in Nat /\ BlobLen(tokens) = x + 4 * e + 17
             /\ At(tokens, x) = tokens[n + 1].v /\ At(tokens, x + 4) = tokens[n + 2].v
             /\ \A i \in 1..e : At(tokens, x + 8 + 4 * (i - 1)) = tokens[n + 2 + i].v
             /\ At(tokens, x + 4 * e + 8) = tokens[n + e + 3].v
             /\ At(tokens, x + 4 * e + 12) = tokens[n + e + 4].v
             /\ At(tokens, x + 4 * e + 13) = tokens[n + e + 5].v
<1> DEFINE O(i) == Offset(tokens, i)
           x == O(n + 1)
           N == n + e + 5
<1>1. n \in Nat /\ e \in Nat /\ N \in Nat /\ TokensAre(tokens, N)
  BY DEF TableAfter
<1>2. /\ BlobLen(tokens) = O(N + 1)
      /\ \A i \in 1..(N + 1) : O(i) \in Nat
      /\ \A i \in 1..N : O(i + 1) = O(i) + tokens[i].len /\ At(tokens, O(i)) = tokens[i].v
  BY <1>1, OffsetIs, AtIs
<1> HIDE DEF O
<1>3. x \in Nat
  <2>1. n + 1 \in 1..(N + 1)
    BY <1>1
  <2> QED BY <1>2, <2>1
<1>4. O(n + 2) = x + 4 /\ O(n + 3) = x + 8
  <2>1. n + 1 \in 1..N /\ n + 2 \in 1..N /\ (n + 1) + 1 = n + 2 /\ (n + 2) + 1 = n + 3
    BY <1>1
  <2>2. O((n + 1) + 1) = O(n + 1) + 4 /\ O((n + 2) + 1) = O(n + 2) + 4
    BY <1>2, <2>1 DEF TableAfter
  <2> QED BY <1>3, <2>1, <2>2
<1> DEFINE S == {k \in 0..e : O(n + 3 + k) = x + 8 + 4 * k}
<1> HIDE DEF x, N
<1>5. 0 \in S
  <2>1. n + 3 + 0 = n + 3 /\ x + 8 + 4 * 0 = x + 8 /\ 0 \in 0..e
    BY <1>1, <1>3
  <2> QED BY <1>4, <2>1
<1>6. ASSUME NEW k \in 1..e, k - 1 \in S PROVE k \in S
  <2>1. O(n + 3 + (k - 1)) = x + 8 + 4 * (k - 1)
    BY <1>6
  <2>2. n + 2 + k \in 1..N /\ n + 3 + (k - 1) = n + 2 + k /\ (n + 2 + k) + 1 = n + 3 + k
    BY <1>1 DEF N
  <2>3. O((n + 2 + k) + 1) = O(n + 2 + k) + 4
    BY <1>2, <2>2 DEF TableAfter
  <2>4. O(n + 3 + k) = (x + 8 + 4 * (k - 1)) + 4
    BY <2>1, <2>2, <2>3
  <2> QED BY <1>3, <2>4
<1>7. \A k \in 0..e : O(n + 3 + k) = x + 8 + 4 * k
  <2>1. \A k \in 1..e : k - 1 \in S => k \in S
    BY <1>6
  <2>2. \A k \in 0..e : k \in S
    <3> HIDE DEF S
    <3> QED BY <1>1, <1>5, <2>1, Throughout
  <2> QED BY <2>2
<1> HIDE DEF S
<1>8. ASSUME NEW i \in 1..e PROVE At(tokens, x + 8 + 4 * (i - 1)) = tokens[n + 2 + i].v
  <2>1. i - 1 \in 0..e /\ n + 3 + (i - 1) = n + 2 + i /\ n + 2 + i \in 1..N
    BY <1>1 DEF N
  <2>2. O(n + 2 + i) = x + 8 + 4 * (i - 1)
    BY <1>7, <2>1
  <2> QED BY <1>2, <2>1, <2>2
<1>9. O(n + e + 3) = x + 4 * e + 8
  <2>1. e \in 0..e /\ n + 3 + e = n + e + 3
    BY <1>1
  <2>2. O(n + e + 3) = x + 8 + 4 * e
    BY <1>7, <2>1
  <2> QED BY <1>1, <1>3, <2>2
<1>10. O(n + e + 4) = x + 4 * e + 12 /\ O(n + e + 5) = x + 4 * e + 13 /\ O(N + 1) = x + 4 * e + 17
  <2>1. /\ n + e + 3 \in 1..N /\ n + e + 4 \in 1..N /\ n + e + 5 \in 1..N
        /\ (n + e + 3) + 1 = n + e + 4 /\ (n + e + 4) + 1 = n + e + 5 /\ (n + e + 5) + 1 = N + 1
    BY <1>1 DEF N
  <2>2. /\ O(n + e + 4) = O(n + e + 3) + 4 /\ O(n + e + 5) = O(n + e + 4) + 1
        /\ O(N + 1) = O(n + e + 5) + 4
    BY <1>2, <2>1 DEF TableAfter
  <2> QED BY <1>1, <1>3, <1>9, <2>2
<1>11. /\ At(tokens, x) = tokens[n + 1].v /\ At(tokens, x + 4) = tokens[n + 2].v
       /\ At(tokens, x + 4 * e + 8) = tokens[n + e + 3].v
       /\ At(tokens, x + 4 * e + 12) = tokens[n + e + 4].v
       /\ At(tokens, x + 4 * e + 13) = tokens[n + e + 5].v
  <2>1. /\ n + 1 \in 1..N /\ n + 2 \in 1..N
        /\ n + e + 3 \in 1..N /\ n + e + 4 \in 1..N /\ n + e + 5 \in 1..N
    BY <1>1 DEF N
  <2> QED BY <1>2, <1>4, <1>9, <1>10, <2>1 DEF x
<1> QED BY <1>2, <1>3, <1>8, <1>10, <1>11 DEF x, O, N

\* The fields of m entries, k of each, one after another.
FieldRow(E, entries, m, k) ==
  /\ k \in {2, 3} /\ DOMAIN E = 1..(k * m) /\ E = [j \in 1..(k * m) |-> E[j]]
  /\ \A j \in 1..(k * m) : E[j].len = 4
  /\ \A i \in 1..m, c \in 1..k :
       k * (i - 1) + c \in 1..(k * m) /\ E[k * (i - 1) + c].v = EntryField(entries[i], c)

FieldToken(entries, k, j) == Token(EntryField(entries[((j - 1) \div k) + 1], ((j - 1) % k) + 1), 4)

LEMMA EntryTokensAre ==
  ASSUME NEW entries, NEW m \in Nat, Len(entries) = m, NEW checksums \in BOOLEAN
  PROVE  FieldRow(EntryTokens(entries, checksums), entries, m, Fields(checksums))
<1>1. PICK k \in {2, 3} : k = Fields(checksums)
  BY DEF Fields
<1> DEFINE e == k * m
           E == [j \in 1..e |-> FieldToken(entries, k, j)]
<1>2. EntryTokens(entries, checksums) = E
  BY <1>1, Zenon DEF EntryTokens, FieldToken
<1>3. e \in Nat
  BY <1>1
<1>4. DOMAIN E = 1..e /\ E = [j \in 1..e |-> E[j]] /\ \A j \in 1..e : E[j] = FieldToken(entries, k, j)
  OBVIOUS
<1>5. \A j \in 1..e : FieldToken(entries, k, j).len = 4
  BY DEF FieldToken, Token
<1>6. ASSUME NEW i \in 1..m, NEW c \in 1..k
      PROVE  /\ k * (i - 1) + c \in 1..e
             /\ FieldToken(entries, k, k * (i - 1) + c).v = EntryField(entries[i], c)
  <2>1. PICK j \in 1..e : j = k * (i - 1) + c /\ ((j - 1) \div k) + 1 = i /\ ((j - 1) % k) + 1 = c
    <3>1. CASE k = 2
      BY <3>1
    <3>2. CASE k = 3
      BY <3>2
    <3> QED BY <3>1, <3>2
  <2>2. FieldToken(entries, k, j).v = EntryField(entries[((j - 1) \div k) + 1], ((j - 1) % k) + 1)
    BY DEF FieldToken, Token
  <2>3. FieldToken(entries, k, j).v = EntryField(entries[i], c)
    BY <2>1, <2>2
  <2> QED BY <2>1, <2>3
<1> HIDE DEF E, e
<1>7. \A j \in 1..e : E[j].len = 4
  BY <1>4, <1>5
<1>8. \A i \in 1..m, c \in 1..k :
        k * (i - 1) + c \in 1..e /\ E[k * (i - 1) + c].v = EntryField(entries[i], c)
  BY <1>4, <1>6
<1>9. FieldRow(E, entries, m, k)
  BY <1>1, <1>3, <1>4, <1>7, <1>8, Zenon DEF e, FieldRow
<1> QED BY <1>1, <1>2, <1>9, Zenon

\* An entry is its three fields, without a checksum where none is kept.
EntriesAre(entries, m, checksums) ==
  /\ m \in Nat /\ Len(entries) = m /\ entries = [i \in 1..m |-> entries[i]]
  /\ \A i \in 1..m :
       entries[i] = [compressed_size |-> entries[i].compressed_size,
                     decompressed_size |-> entries[i].decompressed_size,
                     checksum |-> IF checksums THEN entries[i].checksum ELSE None]

\* What the tokens of a table behind n frames say.
TableSays(tokens, n, entries, m, checksums) ==
  LET e == Fields(checksums) * m
  IN  /\ TableAfter(tokens, n, e)
      /\ tokens[n + 1].v = "SEEKABLE_SKIPPABLE_MAGIC"
      /\ tokens[n + 2].v = m * EntrySize(checksums) + 9
      /\ \A j \in 1..e : tokens[n + 2 + j].v = EntryTokens(entries, checksums)[j].v
      /\ tokens[n + e + 3].v = m
      /\ tokens[n + e + 4].v = [checksums |-> checksums, reserved |-> FALSE]
      /\ tokens[n + e + 5].v = "SEEKABLE_MAGIC"

\* Where the fields of an entry are read.
LEMMA FieldAt ==
  ASSUME NEW tokens, NEW n, NEW entries, NEW m, NEW checksums \in BOOLEAN,
         EntriesAre(entries, m, checksums), TableSays(tokens, n, entries, m, checksums),
         NEW i \in 1..m, NEW c \in 1..Fields(checksums)
  PROVE  At(tokens, Offset(tokens, n + 1) + 8 + (i - 1) * EntrySize(checksums) + 4 * (c - 1))
           = EntryField(entries[i], c)
<1>1. m \in Nat /\ Len(entries) = m
  BY DEF EntriesAre
<1>2. PICK k \in {2, 3} : k = Fields(checksums) /\ EntrySize(checksums) = 4 * k
  BY DEF Fields, EntrySize
<1>3. PICK e \in Nat : e = k * m
  BY <1>1, <1>2
<1>4. PICK x \in Nat : x = Offset(tokens, n + 1)
                       /\ \A j \in 1..e : At(tokens, x + 8 + 4 * (j - 1)) = tokens[n + 2 + j].v
  <2>1. TableAfter(tokens, n, e)
    BY <1>2, <1>3 DEF TableSays
  <2> QED BY <2>1, TableAt
<1>5. PICK j \in 1..e : j = k * (i - 1) + c /\ EntryTokens(entries, checksums)[j].v = EntryField(entries[i], c)
  <2>1. FieldRow(EntryTokens(entries, checksums), entries, m, k)
    BY <1>1, <1>2, EntryTokensAre
  <2>2. \A a \in 1..m, b \in 1..k :
          /\ k * (a - 1) + b \in 1..e
          /\ EntryTokens(entries, checksums)[k * (a - 1) + b].v = EntryField(entries[a], b)
    BY <1>3, <2>1, Zenon DEF FieldRow
  <2> DEFINE j == k * (i - 1) + c
  <2>3. j \in 1..e /\ EntryTokens(entries, checksums)[j].v = EntryField(entries[i], c)
    BY <1>2, <2>2, Zenon
  <2> QED BY <2>3, Zenon
<1>6. tokens[n + 2 + j].v = EntryTokens(entries, checksums)[j].v
  BY <1>2, <1>3 DEF TableSays
<1>7. x + 8 + 4 * (j - 1) = x + 8 + (i - 1) * EntrySize(checksums) + 4 * (c - 1)
  <2>1. CASE k = 2
    BY <1>1, <1>2, <1>5, <2>1
  <2>2. CASE k = 3
    BY <1>1, <1>2, <1>5, <2>2
  <2> QED BY <2>1, <2>2
<1> QED BY <1>4, <1>5, <1>6, <1>7

\* The table is read back as it was written.
LEMMA ParseIs ==
  ASSUME NEW tokens, NEW n, NEW entries, NEW m, NEW checksums \in BOOLEAN,
         EntriesAre(entries, m, checksums), TableSays(tokens, n, entries, m, checksums)
  PROVE  ParseSeekTable(tokens) = [err |-> None, entries |-> entries]
<1>1. m \in Nat /\ Len(entries) = m
  BY DEF EntriesAre
<1>2. PICK k \in {2, 3} : k = Fields(checksums) /\ EntrySize(checksums) = 4 * k
                          /\ (checksums <=> k = 3)
  BY DEF Fields, EntrySize
<1>3. PICK e \in Nat : e = k * m /\ m * EntrySize(checksums) = 4 * e
  <2>1. CASE k = 2
    BY <1>1, <1>2, <2>1
  <2>2. CASE k = 3
    BY <1>1, <1>2, <2>2
  <2> QED BY <2>1, <2>2
<1>4. TableAfter(tokens, n, e)
  BY <1>2, <1>3 DEF TableSays
<1>5. PICK x \in Nat :
        /\ x = Offset(tokens, n + 1) /\ BlobLen(tokens) = x + 4 * e + 17
        /\ At(tokens, x) = tokens[n + 1].v /\ At(tokens, x + 4) = tokens[n + 2].v
        /\ At(tokens, x + 4 * e + 8) = tokens[n + e + 3].v
        /\ At(tokens, x + 4 * e + 12) = tokens[n + e + 4].v
        /\ At(tokens, x + 4 * e + 13) = tokens[n + e + 5].v
  BY <1>4, TableAt
<1> DEFINE N == BlobLen(tokens)
           num == At(tokens, N - 9)
           descriptor == At(tokens, N - 5)
           entry_size == EntrySize(descriptor.checksums)
           payload == num * entry_size + 9
           start == N - (8 + payload)
           field(i, at) == At(tokens, start + 8 + (i - 1) * entry_size + at)
           read == [i \in 1..num |->
                      [compressed_size |-> field(i, 0), decompressed_size |-> field(i, 4),
                       checksum |-> IF descriptor.checksums THEN field(i, 8) ELSE None]]
<1>6. num = m
  <2>1. N - 9 = x + 4 * e + 8
    BY <1>5
  <2>2. tokens[n + e + 3].v = m
    BY <1>2, <1>3 DEF TableSays
  <2> QED BY <1>5, <2>1, <2>2
<1>7. ~descriptor.reserved /\ descriptor.checksums = checksums
  <2>1. N - 5 = x + 4 * e + 12
    BY <1>5
  <2>2. tokens[n + e + 4].v = [checksums |-> checksums, reserved |-> FALSE]
    BY <1>2, <1>3 DEF TableSays
  <2>3. descriptor = [checksums |-> checksums, reserved |-> FALSE]
    BY <1>5, <2>1, <2>2
  <2> QED BY <2>3
<1>8. At(tokens, N - 4) = "SEEKABLE_MAGIC"
  <2>1. N - 4 = x + 4 * e + 13
    BY <1>5
  <2>2. tokens[n + e + 5].v = "SEEKABLE_MAGIC"
    BY <1>2, <1>3 DEF TableSays
  <2> QED BY <1>5, <2>1, <2>2
<1> HIDE DEF num, descriptor
<1>9. entry_size = EntrySize(checksums) /\ payload = 4 * e + 9
  BY <1>3, <1>6, <1>7
<1>10. start = x /\ ~(N < 17) /\ N >= 17 /\ ~(N < 8 + payload)
  <2> HIDE DEF payload
  <2> QED BY <1>5, <1>9
<1>11. At(tokens, start) \in SkippableMagics /\ At(tokens, start + 4) = payload
  <2>1. /\ tokens[n + 1].v = "SEEKABLE_SKIPPABLE_MAGIC"
        /\ tokens[n + 2].v = m * EntrySize(checksums) + 9
    BY <1>2, <1>3 DEF TableSays
  <2> HIDE DEF payload, start
  <2> QED BY <1>3, <1>5, <1>9, <1>10, <2>1 DEF SkippableMagics
<1>12. ParseSeekTable(tokens) = [err |-> None, entries |-> read]
  <2>1. ParseSeekTable(tokens) =
          CASE N < 17 -> [err |-> "Corruption"]
            [] N >= 17 /\ At(tokens, N - 4) # "SEEKABLE_MAGIC" -> [err |-> "BadMagic"]
            [] N >= 17 /\ At(tokens, N - 4) = "SEEKABLE_MAGIC" /\ descriptor.reserved ->
                 [err |-> "ReservedBitSet"]
            [] OTHER ->
                 IF N < 8 + payload THEN [err |-> "Corruption"]
                 ELSE IF At(tokens, start) \notin SkippableMagics THEN [err |-> "BadMagic"]
                 ELSE IF At(tokens, start + 4) # payload THEN [err |-> "Corruption"]
                 ELSE [err |-> None, entries |-> read]
    BY Zenon DEF ParseSeekTable, num, descriptor
  <2> HIDE DEF read, payload, start, N
  <2> QED BY <1>7, <1>8, <1>10, <1>11, <2>1
<1>13. read = entries
  <2>1. ASSUME NEW i \in 1..m
        PROVE  entries[i] = [compressed_size |-> field(i, 0), decompressed_size |-> field(i, 4),
                             checksum |-> IF descriptor.checksums THEN field(i, 8) ELSE None]
    <3>1. \A c \in 1..k : field(i, 4 * (c - 1)) = EntryField(entries[i], c)
      <4>1. \A c \in 1..k : At(tokens, x + 8 + (i - 1) * EntrySize(checksums) + 4 * (c - 1))
                              = EntryField(entries[i], c)
        BY <1>2, <1>5, FieldAt
      <4> HIDE DEF start, payload, entry_size
      <4> QED BY <1>9, <1>10, <4>1
    <3> HIDE DEF field
    <3>2. 1 \in 1..k /\ 2 \in 1..k /\ 4 * (1 - 1) = 0 /\ 4 * (2 - 1) = 4
      BY <1>2
    <3>3. field(i, 0) = entries[i].compressed_size /\ field(i, 4) = entries[i].decompressed_size
      <4>1. field(i, 0) = EntryField(entries[i], 1) /\ field(i, 4) = EntryField(entries[i], 2)
        BY <3>1, <3>2
      <4> QED BY <4>1 DEF EntryField
    <3>4. (IF descriptor.checksums THEN field(i, 8) ELSE None)
            = IF checksums THEN entries[i].checksum ELSE None
      <4>1. CASE checksums
        <5>0. k = 3
          BY <1>2, <4>1, Zenon
        <5>1. 3 \in 1..k /\ 4 * (3 - 1) = 8
          BY <5>0
        <5>2. field(i, 8) = EntryField(entries[i], 3)
          BY <3>1, <5>1
        <5>3. field(i, 8) = entries[i].checksum
          BY <5>2 DEF EntryField
        <5> QED BY <1>7, <4>1, <5>3
      <4>2. CASE ~checksums
        BY <1>7, <4>2
      <4> QED BY <4>1, <4>2
    <3>5. entries[i] = [compressed_size |-> entries[i].compressed_size,
                        decompressed_size |-> entries[i].decompressed_size,
                        checksum |-> IF checksums THEN entries[i].checksum ELSE None]
      BY Zenon DEF EntriesAre
    <3> QED BY <3>3, <3>4, <3>5, Zenon
  <2>2. entries = [i \in 1..m |-> entries[i]]
    BY Zenon DEF EntriesAre
  <2> DEFINE g(i) == [compressed_size |-> field(i, 0), decompressed_size |-> field(i, 4),
                      checksum |-> IF descriptor.checksums THEN field(i, 8) ELSE None]
  <2>3. \A i \in 1..m : entries[i] = g(i)
    BY <2>1, Zenon
  <2>4. read = [i \in 1..m |-> g(i)]
    BY <1>6, Zenon
  <2> HIDE DEF g, read
  <2> QED BY <2>2, <2>3, <2>4
<1> QED BY <1>12, <1>13, Zenon

\* A blob of n frames over len bytes: its chunks lie end to end, its table says
\* what its frames are, and each frame decodes to its chunk's size.
IsBlob(blob, n, len, checksum) ==
  /\ len \in Nat /\ \E m : Pieces(blob.chunks, n, m, len)
  /\ EntriesAre(blob.entries, n, checksum)
  /\ TableSays(blob.tokens, n, blob.entries, n, checksum)
  /\ \A i \in 1..n :
       /\ blob.entries[i].compressed_size = blob.tokens[i].len
       /\ blob.entries[i].decompressed_size = SizeOf(blob.chunks[i])
       /\ Decompress(Whole(<<blob.tokens[i].v>>), Default(len)).err = None
       /\ Decompress(Whole(<<blob.tokens[i].v>>), Default(len)).out = SizeOf(blob.chunks[i])

\* The entries of a blob add up to where its chunks and its frames lie.
LEMMA BlobSums ==
  ASSUME NEW blob, NEW n, NEW len, NEW checksum \in BOOLEAN, IsBlob(blob, n, len, checksum)
  PROVE  /\ n \in Nat \ {0} /\ DOMAIN blob.chunks = 1..n /\ DOMAIN blob.entries = 1..n
         /\ \E e \in Nat : TokensAre(blob.tokens, n + e + 5)
         /\ UncompressedOffset(blob.entries, n + 1) = len
         /\ \A i \in 1..n :
              /\ UncompressedOffset(blob.entries, i) = blob.chunks[i].from
              /\ CompressedOffset(blob.entries, i) = Offset(blob.tokens, i)
<1> DEFINE chunks == blob.chunks
           entries == blob.entries
           tokens == blob.tokens
           s == PieceSizes(chunks, n)
<1>1. PICK m : Pieces(chunks, n, m, len)
  BY DEF IsBlob
<1>2. n \in Nat \ {0} /\ n \in Nat /\ DOMAIN chunks = 1..n /\ \A i \in 1..n : SizeOf(chunks[i]) \in Nat
  BY <1>1 DEF Pieces, SizeOf
<1>3. DOMAIN entries = 1..n
  <2>1. entries = [i \in 1..n |-> entries[i]]
    BY Zenon DEF IsBlob, EntriesAre
  <2> QED BY <2>1
<1>4. PICK e \in Nat : TokensAre(tokens, n + e + 5)
  <2>1. PICK e : e = Fields(checksum) * n /\ TableAfter(tokens, n, e)
    BY Zenon DEF IsBlob, TableSays
  <2> QED BY <2>1 DEF TableAfter
<1>5. \A i \in 1..n : /\ entries[i].compressed_size = tokens[i].len
                      /\ entries[i].decompressed_size = SizeOf(chunks[i])
  BY DEF IsBlob
<1> HIDE DEF chunks, entries, tokens
<1>6. /\ s \in Seq(Nat) /\ Len(s) = n /\ \A i \in 1..n : s[i] = SizeOf(chunks[i])
      /\ SumTo(s, n) = len /\ \A i \in 1..n : SumTo(s, i - 1) = chunks[i].from
  BY <1>1, PieceSizesAre
<1> HIDE DEF s
<1>8. ASSUME NEW i \in 1..(n + 1) PROVE UncompressedOffset(entries, i) = SumTo(s, i - 1)
  <2> DEFINE p == [j \in 1..(i - 1) |-> entries[j].decompressed_size]
  <2>1. \A j \in 1..(i - 1) : j \in 1..n
    BY <1>2
  <2>2. /\ DOMAIN p = 1..(i - 1) /\ p = [j \in 1..(i - 1) |-> p[j]]
        /\ \A j \in 1..(i - 1) : p[j] = entries[j].decompressed_size
    OBVIOUS
  <2>3. SumOf(p) = SumTo(s, i - 1)
    <3> HIDE DEF p
    <3>1. \A j \in 1..(i - 1) : p[j] = s[j]
      BY <1>5, <1>6, <2>1, <2>2
    <3> QED BY <1>6, <2>2, <3>1, PrefixSum
  <2> QED BY <2>3, Zenon DEF UncompressedOffset
<1>9. ASSUME NEW i \in 1..n PROVE CompressedOffset(entries, i) = Offset(tokens, i)
  <2> DEFINE p == [j \in 1..(i - 1) |-> entries[j].compressed_size]
             w == Widths(tokens)
             N == n + e + 5
  <2>1. N \in Nat /\ i \in 1..(N + 1) /\ (\A j \in 1..(i - 1) : j \in 1..n /\ j \in 1..N)
    BY <1>2
  <2>2. /\ DOMAIN p = 1..(i - 1) /\ p = [j \in 1..(i - 1) |-> p[j]]
        /\ \A j \in 1..(i - 1) : p[j] = entries[j].compressed_size
    OBVIOUS
  <2>3. w \in Seq(Nat) /\ Len(w) = N /\ \A j \in 1..N : w[j] = tokens[j].len
    BY <1>4, WidthsAre
  <2>4. SumOf(p) = SumTo(w, i - 1)
    <3> HIDE DEF p, w, N
    <3>1. \A j \in 1..(i - 1) : p[j] = w[j]
      BY <1>5, <2>1, <2>2, <2>3
    <3> QED BY <2>1, <2>2, <2>3, <3>1, PrefixSum
  <2>5. Offset(tokens, i) = SumTo(w, i - 1)
    BY <1>4, <2>1, OffsetSum
  <2> QED BY <2>4, <2>5, Zenon DEF CompressedOffset
<1>10. n + 1 \in 1..(n + 1) /\ (n + 1) - 1 = n /\ \A i \in 1..n : i \in 1..(n + 1)
  BY <1>2
<1>11. UncompressedOffset(entries, n + 1) = len
  BY <1>6, <1>8, <1>10
<1>12. \A i \in 1..n : /\ UncompressedOffset(entries, i) = chunks[i].from
                       /\ CompressedOffset(entries, i) = Offset(tokens, i)
  BY <1>6, <1>8, <1>9, <1>10
<1> QED BY <1>2, <1>3, <1>4, <1>11, <1>12 DEF chunks, entries, tokens

\* The table names the frame that holds a byte, and none for the end.
LEMMA FrameAtIs ==
  ASSUME NEW blob, NEW n, NEW len, NEW checksum \in BOOLEAN, IsBlob(blob, n, len, checksum),
         NEW offset \in Nat
  PROVE  /\ offset < len =>
              FrameHoldsByte(blob, blob.entries, FrameAt(blob.tokens, blob.entries, offset), offset, len)
         /\ offset >= len => FrameAt(blob.tokens, blob.entries, offset).err = "UnexpectedEof"
<1> DEFINE chunks == blob.chunks
           entries == blob.entries
           tokens == blob.tokens
           end(i) == UncompressedOffset(entries, i) + entries[i].decompressed_size
           covering == {i \in DOMAIN entries : offset < end(i)}
           i == Min(covering)
           coff == CompressedOffset(entries, i)
           stop == coff + entries[i].compressed_size
<1>1. PICK m : Pieces(chunks, n, m, len)
  BY DEF IsBlob
<1>2. /\ n \in Nat \ {0} /\ DOMAIN chunks = 1..n /\ DOMAIN entries = 1..n
      /\ \A k \in 1..n : /\ UncompressedOffset(entries, k) = chunks[k].from
                         /\ CompressedOffset(entries, k) = Offset(tokens, k)
  BY BlobSums
<1>3. PICK e \in Nat : TokensAre(tokens, n + e + 5)
  BY BlobSums
<1>4. \A k \in 1..n : /\ entries[k].compressed_size = tokens[k].len
                      /\ entries[k].decompressed_size = SizeOf(chunks[k])
                      /\ Decompress(Whole(<<tokens[k].v>>), Default(len)).err = None
                      /\ Decompress(Whole(<<tokens[k].v>>), Default(len)).out = SizeOf(chunks[k])
  BY DEF IsBlob
<1>5. len \in Nat
  BY DEF IsBlob
<1>6. FrameAt(tokens, entries, offset) =
        CASE covering = {} -> [err |-> "UnexpectedEof"]
          [] covering # {} /\ stop > BlobLen(tokens) -> [err |-> "UnexpectedEof"]
          [] OTHER -> [err |-> None, from |-> coff, to |-> stop]
  BY Zenon DEF FrameAt
<1> HIDE DEF chunks, entries, tokens
<1>7. \A k \in 1..n : /\ chunks[k].from \in Nat /\ chunks[k].to \in Nat /\ chunks[k].from <= chunks[k].to
                      /\ chunks[k].to <= len /\ end(k) = chunks[k].to
  <2>1. ASSUME NEW k \in 1..n
        PROVE  /\ chunks[k].from \in Nat /\ chunks[k].to \in Nat /\ chunks[k].from <= chunks[k].to
               /\ chunks[k].to <= len
    BY <1>1 DEF Pieces
  <2>2. ASSUME NEW k \in 1..n PROVE end(k) = chunks[k].from + (chunks[k].to - chunks[k].from)
    BY <1>2, <1>4, Zenon DEF SizeOf
  <2> HIDE DEF end
  <2>3. ASSUME NEW k \in 1..n PROVE end(k) = chunks[k].to
    BY <2>1, <2>2
  <2> QED BY <2>1, <2>3
<1>8. covering = {k \in 1..n : offset < chunks[k].to}
  <2> HIDE DEF end
  <2> QED BY <1>2, <1>7
<1> HIDE DEF covering, end
<1>9. ASSUME offset >= len PROVE FrameAt(tokens, entries, offset).err = "UnexpectedEof"
  <2>1. covering = {}
    BY <1>5, <1>7, <1>8, <1>9
  <2> HIDE DEF coff, stop, i
  <2> QED BY <1>6, <2>1
<1>10. ASSUME offset < len
       PROVE  FrameHoldsByte(blob, entries, FrameAt(tokens, entries, offset), offset, len)
  <2>1. n \in covering
    <3>1. n \in 1..n /\ chunks[n].to = len
      BY <1>1, <1>2 DEF Pieces
    <3> QED BY <1>8, <1>10, <3>1
  <2>2. i \in covering /\ \A k \in covering : i <= k
    <3>1. covering \in SUBSET Nat
      BY <1>8
    <3>2. \E x \in covering : \A y \in covering : x <= y
      BY <2>1, <3>1, Least
    <3> QED BY <3>2, Zenon DEF Min
  <2> HIDE DEF i
  <2>3. i \in 1..n /\ offset < chunks[i].to
    BY <1>8, <2>2
  <2>4. chunks[i].from <= offset
    <3>1. CASE i = 1
      <4>1. chunks[i].from = 0
        BY <1>1, <3>1 DEF Pieces
      <4> QED BY <4>1
    <3>2. CASE i # 1
      <4>1. i - 1 \in 1..n /\ i - 1 # n /\ (i - 1) + 1 = i /\ ~(i <= i - 1)
        BY <1>2, <2>3, <3>2
      <4>2. ~(offset < chunks[i - 1].to)
        BY <1>8, <2>2, <4>1
      <4>3. chunks[i].from = chunks[i - 1].to
        <5>1. chunks[(i - 1) + 1].from = chunks[i - 1].to
          BY <1>1, <4>1 DEF Pieces
        <5> QED BY <4>1, <5>1
      <4> QED BY <1>7, <4>1, <4>2, <4>3
    <3> QED BY <3>1, <3>2
  <2> DEFINE N == n + e + 5
  <2>5. N \in Nat /\ i \in 1..N /\ i \in 1..(N + 1) /\ i + 1 \in 1..(N + 1) /\ N + 1 \in 1..(N + 1)
    BY <1>2, <2>3
  <2>6. /\ coff = Offset(tokens, i) /\ stop = Offset(tokens, i + 1)
        /\ coff \in Nat /\ stop \in Nat /\ stop = Offset(tokens, i) + tokens[i].len
        /\ BlobLen(tokens) = Offset(tokens, N + 1)
    <3> HIDE DEF N
    <3>1. /\ BlobLen(tokens) = Offset(tokens, N + 1)
          /\ Offset(tokens, i) \in Nat /\ Offset(tokens, i + 1) \in Nat
          /\ Offset(tokens, i + 1) = Offset(tokens, i) + tokens[i].len
      <4>1. TokensAre(tokens, N)
        BY <1>3 DEF N
      <4> QED BY <2>5, <4>1, OffsetIs
    <3> QED BY <1>2, <1>4, <2>3, <3>1
  <2>7. ~(stop > BlobLen(tokens))
    <3>1. TokensAre(tokens, N) /\ Offset(tokens, N + 1) \in Nat
      BY <1>3, <2>5, OffsetIs
    <3>2. i < N + 1
      BY <2>5
    <3> HIDE DEF N, coff, stop
    <3>3. Offset(tokens, i + 1) <= Offset(tokens, N + 1)
      BY <2>5, <3>1, <3>2, OffsetsGrow
    <3> QED BY <2>6, <3>1, <3>3
  <2> DEFINE range == FrameAt(tokens, entries, offset)
  <2>8. range = [err |-> None, from |-> coff, to |-> stop]
    <3> HIDE DEF coff, stop
    <3> QED BY <1>6, <2>1, <2>7
  <2>9. range.err = None /\ range.from = Offset(tokens, i) /\ range.to = Offset(tokens, i + 1)
    <3> HIDE DEF range, coff, stop
    <3> QED BY <2>6, <2>8
  <2>10. Holds(tokens, Offset(tokens, i), Offset(tokens, i + 1), i)
    <3>1. TokensAre(tokens, N)
      BY <1>3
    <3> HIDE DEF N
    <3> QED BY <2>5, <3>1, HoldsIs
  <2> HIDE DEF range, coff, stop, N
  <2>11. Holds(tokens, range.from, range.to, i)
    BY <2>9, <2>10
  <2>12. UncompressedOffset(entries, i) = chunks[i].from
    BY <1>2, <2>3
  <2>13. /\ Decompress(Whole(<<tokens[i].v>>), Default(len)).err = None
         /\ Decompress(Whole(<<tokens[i].v>>), Default(len)).out = SizeOf(chunks[i])
    BY <1>4, <2>3
  <2>14. i \in DOMAIN blob.chunks
    BY <1>2, <2>3 DEF chunks
  <2> QED BY <2>3, <2>4, <2>9, <2>11, <2>12, <2>13, <2>14, Zenon
            DEF FrameHoldsByte, Default, chunks, tokens, range
<1> QED BY <1>5, <1>9, <1>10 DEF entries, tokens

\* What lies between what the parts of a blob begin with and end with.
LEMMA Between ==
  ASSUME NEW n \in Nat, NEW e \in Nat, NEW i \in 1..(n + e + 5),
         i \notin 1..n, i \notin {n + 1, n + 2, n + e + 3, n + e + 4, n + e + 5}
  PROVE  \E j \in 1..e : i = n + 2 + j
<1>1. i - (n + 2) \in 1..e /\ i = n + 2 + (i - (n + 2))
  OBVIOUS
<1> QED BY <1>1

\* What compress_seekable makes is a blob.
LEMMA BlobIs ==
  ASSUME NEW len \in 0..Unlimited, NEW max_frame_size \in Nat, NEW checksum \in BOOLEAN,
         NEW how \in Seq({"raw", "rle", "compressed"}) \ {<<>>}
  PROVE  \E n : IsBlob(CompressSeekable(len, max_frame_size, checksum, how), n, len, checksum)
<1> DEFINE blob == CompressSeekable(len, max_frame_size, checksum, how)
           chunks == Chunks(len, max_frame_size)
           type(i) == how[(i % Len(how)) + 1]
           frame(i) == ChunkFrame(chunks[i], type(i), checksum)
           frames == [i \in DOMAIN chunks |-> frame(i)]
           entry(i) == Entry(chunks[i], frames[i], checksum)
           entries == [i \in DOMAIN chunks |-> entry(i)]
           token(i) == Token(frames[i], FrameLen(frames[i]))
           F == [i \in DOMAIN frames |-> token(i)]
           tokens == F \o TableTokens(entries, checksum)
<1>1. len \in Nat /\ len <= Unlimited /\ Unlimited \in Nat
  BY LimitConstant
<1>2. PICK n, m : Pieces(chunks, n, m, len)
  BY <1>1, ChunksIs
<1>3. n \in Nat \ {0} /\ n \in Nat /\ DOMAIN chunks = 1..n
  BY <1>2 DEF Pieces
<1>4. blob.chunks = chunks /\ blob.entries = entries /\ blob.tokens = tokens
  <2>1. blob = [chunks |-> chunks, entries |-> entries, tokens |-> tokens]
    BY Zenon DEF CompressSeekable
  <2> HIDE DEF blob, chunks, entries, tokens
  <2> QED BY <2>1
<1> HIDE DEF blob, chunks
<1>5. ASSUME NEW i \in 1..n PROVE type(i) \in {"raw", "rle", "compressed"}
  <2>1. Len(how) \in Nat \ {0}
    OBVIOUS
  <2>2. i \in Nat /\ (i % Len(how)) + 1 \in 1..Len(how)
    BY <1>3, <2>1
  <2> QED BY <2>2, SeqHas
<1> HIDE DEF type
<1>6. ASSUME NEW i \in 1..n
      PROVE  /\ frames[i] = frame(i) /\ SizeOf(chunks[i]) \in Nat
             /\ FrameLen(frame(i)) \in Nat \ {0}
             /\ Decompress(Whole(<<frame(i)>>), Default(len)).err = None
             /\ Decompress(Whole(<<frame(i)>>), Default(len)).out = SizeOf(chunks[i])
  <2>1. frames[i] = frame(i)
    <3> HIDE DEF frame
    <3> QED BY <1>3
  <2>2. PICK size \in Nat : size = SizeOf(chunks[i]) /\ size <= len /\ size <= Unlimited
    <3>1. /\ chunks[i].from \in Nat /\ chunks[i].to \in Nat /\ chunks[i].from <= chunks[i].to
          /\ chunks[i].to <= len
      BY <1>2 DEF Pieces
    <3>2. /\ chunks[i].to - chunks[i].from \in Nat /\ chunks[i].to - chunks[i].from <= len
          /\ chunks[i].to - chunks[i].from <= Unlimited
      BY <1>1, <3>1
    <3> QED BY <3>2, Zenon DEF SizeOf
  <2>3. type(i) \in {"raw", "rle", "compressed"}
    BY <1>5
  <2>4. /\ FrameLen(frame(i)) \in Nat \ {0}
        /\ Decompress(Whole(<<frame(i)>>), Default(len)).err = None
        /\ Decompress(Whole(<<frame(i)>>), Default(len)).out = SizeOf(chunks[i])
    BY <1>1, <2>2, <2>3, ChunkFrameIs
  <2> QED BY <2>1, <2>2, <2>4
<1> HIDE DEF frame
<1>7. DOMAIN frames = 1..n
  BY <1>3
<1> HIDE DEF frames
<1>8. /\ DOMAIN entries = 1..n /\ entries = [i \in 1..n |-> entries[i]]
      /\ \A i \in 1..n : entries[i] = entry(i)
  <2> HIDE DEF entry
  <2> QED BY <1>3
<1>9. \A i \in 1..n :
        entry(i) = [compressed_size |-> FrameLen(frame(i)), decompressed_size |-> SizeOf(chunks[i]),
                    checksum |-> IF checksum THEN chunks[i] ELSE None]
  BY <1>6, Zenon DEF Entry
<1> HIDE DEF entries, entry
<1>10. \A i \in 1..n :
         /\ entries[i].compressed_size = FrameLen(frame(i))
         /\ entries[i].decompressed_size = SizeOf(chunks[i])
         /\ checksum => entries[i].checksum = chunks[i]
  BY <1>8, <1>9
<1>11. Len(entries) = n
  BY <1>3, <1>8
<1>12. EntriesAre(entries, n, checksum)
  <2>1. ASSUME NEW i \in 1..n
        PROVE  entries[i] = [compressed_size |-> entries[i].compressed_size,
                             decompressed_size |-> entries[i].decompressed_size,
                             checksum |-> IF checksum THEN entries[i].checksum ELSE None]
    <3>1. (IF checksum THEN chunks[i] ELSE None) = (IF checksum THEN entries[i].checksum ELSE None)
      BY <1>10
    <3> QED BY <1>8, <1>9, <1>10, <3>1, Zenon
  <2> QED BY <1>3, <1>8, <1>11, <2>1, Zenon DEF EntriesAre
<1>13. DOMAIN F = 1..n /\ F = [i \in 1..n |-> F[i]] /\ \A i \in 1..n : F[i] = token(i)
  <2> HIDE DEF token
  <2> QED BY <1>7
<1>14. \A i \in 1..n : F[i].v = frame(i) /\ F[i].len = FrameLen(frame(i))
  <2> SUFFICES ASSUME NEW i \in 1..n PROVE F[i].v = frame(i) /\ F[i].len = FrameLen(frame(i))
    BY Zenon
  <2>1. F[i] = token(i) /\ frames[i] = frame(i)
    BY <1>6, <1>13, Zenon
  <2>2. token(i).v = frames[i] /\ token(i).len = FrameLen(frames[i])
    BY DEF Token
  <2> QED BY <2>1, <2>2, Zenon
<1> DEFINE k == Fields(checksum)
           e == k * n
           E == EntryTokens(entries, checksum)
           A == Token("SEEKABLE_SKIPPABLE_MAGIC", 4)
           B == Token(Len(entries) * EntrySize(checksum) + 9, 4)
           C == Token(Len(entries), 4)
           D == Token([checksums |-> checksum, reserved |-> FALSE], 1)
           G == Token("SEEKABLE_MAGIC", 4)
<1>15. FieldRow(E, entries, n, k)
  BY <1>3, <1>11, EntryTokensAre
<1>16. e \in Nat /\ DOMAIN E = 1..e /\ E = [j \in 1..e |-> E[j]] /\ \A j \in 1..e : E[j].len = 4
  <2>1. k \in {2, 3}
    BY DEF Fields
  <2>2. e \in Nat
    BY <1>3, <2>1
  <2> QED BY <1>15, <2>2, Zenon DEF FieldRow
<1>17. /\ A.v = "SEEKABLE_SKIPPABLE_MAGIC" /\ A.len = 4
       /\ B.v = n * EntrySize(checksum) + 9 /\ B.len = 4
       /\ C.v = n /\ C.len = 4
       /\ D.v = [checksums |-> checksum, reserved |-> FALSE] /\ D.len = 1
       /\ G.v = "SEEKABLE_MAGIC" /\ G.len = 4
  BY <1>11 DEF Token
<1>18. tokens = F \o (<<A, B>> \o E \o <<C, D, G>>)
  BY Zenon DEF TableTokens
<1> HIDE DEF F, E, A, B, C, D, G, e, k, tokens
<1>19. /\ DOMAIN tokens = 1..(n + e + 5) /\ Len(tokens) = n + e + 5
       /\ \A i \in 1..n : tokens[i] = F[i]
       /\ tokens[n + 1] = A /\ tokens[n + 2] = B
       /\ \A i \in 1..e : tokens[n + 2 + i] = E[i]
       /\ tokens[n + e + 3] = C /\ tokens[n + e + 4] = D /\ tokens[n + e + 5] = G
  <2>1. Row(F, n) /\ Row(E, e)
    BY <1>13, <1>16, Zenon DEF Row
  <2>2. Joined(tokens, n, F, A, B, e, E, C, D, G)
    BY <1>3, <1>16, <1>18, <2>1, JoinedIs
  <2> QED BY <2>2, Zenon DEF Joined
<1>20. TokensAre(tokens, n + e + 5)
  <2>1. ASSUME NEW i \in 1..(n + e + 5) PROVE tokens[i].len \in Nat \ {0}
    <3>1. CASE i \in 1..n
      BY <1>6, <1>14, <1>19, <3>1
    <3>2. CASE i = n + 1 \/ i = n + 2 \/ i = n + e + 3 \/ i = n + e + 4 \/ i = n + e + 5
      BY <1>17, <1>19, <3>2
    <3>3. CASE i \notin 1..n /\ i \notin {n + 1, n + 2, n + e + 3, n + e + 4, n + e + 5}
      <4>1. PICK j \in 1..e : i = n + 2 + j
        BY <1>3, <1>16, <3>3, Between
      <4> QED BY <1>16, <1>19, <4>1
    <3> QED BY <3>1, <3>2, <3>3
  <2>2. n + e + 5 \in Nat
    BY <1>3, <1>16
  <2> QED BY <1>19, <2>1, <2>2 DEF TokensAre
<1>21. TableAfter(tokens, n, e)
  BY <1>3, <1>16, <1>17, <1>19, <1>20, Zenon DEF TableAfter
<1>22. TableSays(tokens, n, entries, n, checksum)
  <2>1. \A j \in 1..e : tokens[n + 2 + j].v = E[j].v
    BY <1>19
  <2> QED BY <1>17, <1>19, <1>21, <2>1, Zenon DEF TableSays, E, e, k
<1>23. ASSUME NEW i \in 1..n
       PROVE  /\ entries[i].compressed_size = tokens[i].len
              /\ entries[i].decompressed_size = SizeOf(chunks[i])
              /\ Decompress(Whole(<<tokens[i].v>>), Default(len)).err = None
              /\ Decompress(Whole(<<tokens[i].v>>), Default(len)).out = SizeOf(chunks[i])
  <2>1. tokens[i].v = frame(i) /\ tokens[i].len = FrameLen(frame(i))
    BY <1>14, <1>19
  <2> QED BY <1>6, <1>10, <2>1
<1>24. IsBlob(blob, n, len, checksum)
  BY <1>1, <1>2, <1>4, <1>12, <1>22, <1>23, Zenon DEF IsBlob
<1> QED BY <1>24 DEF blob

\* Random access into what compress_seekable makes finds every byte.
LEMMA SeekIs ==
  ASSUME NEW len \in 0..Unlimited, NEW max_frame_size \in Nat, NEW checksum \in BOOLEAN,
         NEW how \in Seq({"raw", "rle", "compressed"}) \ {<<>>}
  PROVE  SeekFindsByte(len, max_frame_size, checksum, how)
<1> DEFINE blob == CompressSeekable(len, max_frame_size, checksum, how)
           parsed == ParseSeekTable(blob.tokens)
<1>1. PICK n : IsBlob(blob, n, len, checksum)
  BY BlobIs
<1> HIDE DEF blob
<1>2. parsed = [err |-> None, entries |-> blob.entries]
  BY <1>1, ParseIs DEF IsBlob
<1> HIDE DEF parsed
<1>3. parsed.err = None /\ parsed.entries = blob.entries
  BY <1>2
<1>4. /\ n \in Nat /\ DOMAIN blob.entries = 1..n
      /\ UncompressedOffset(blob.entries, n + 1) = len
  BY <1>1, BlobSums
<1>5. Len(blob.entries) = n
  BY <1>1, Zenon DEF IsBlob, EntriesAre
<1>6. UncompressedOffset(parsed.entries, Len(parsed.entries) + 1) = len
  BY <1>3, <1>4, <1>5
<1>7. len \in Nat /\ len >= len /\ \A offset \in 0..(len - 1) : offset \in Nat /\ offset < len
  BY LimitConstant
<1>8. ASSUME NEW offset \in 0..(len - 1)
      PROVE  FrameHoldsByte(blob, parsed.entries, FrameAt(blob.tokens, parsed.entries, offset), offset, len)
  BY <1>1, <1>3, <1>7, FrameAtIs
<1>9. FrameAt(blob.tokens, parsed.entries, len).err = "UnexpectedEof"
  BY <1>1, <1>3, <1>7, FrameAtIs
<1> QED BY <1>3, <1>6, <1>8, <1>9, Zenon DEF SeekFindsByte, blob, parsed

\* What is taken up as a blob are arguments compress_seekable may be called with.
BlobTaken ==
  /\ "kind" \in DOMAIN input
  /\ input.kind = "blob" =>
       /\ input.of.len \in 0..Unlimited /\ input.of.max_frame_size \in Nat
       /\ input.of.checksum \in BOOLEAN
       /\ input.of.how \in Seq({"raw", "rle", "compressed"}) \ {<<>>}

LEMMA BlobInit == Init => BlobTaken
BY DEF Init, Idle, BlobTaken

LEMMA BlobStep == BlobTaken /\ [Next]_input => BlobTaken'
<1> SUFFICES ASSUME BlobTaken, [Next]_input PROVE BlobTaken'
  OBVIOUS
<1>1. CASE TakeBlob
  <2>1. PICK of \in Blobs : input' = [kind |-> "blob", of |-> of]
    BY <1>1 DEF TakeBlob
  <2> DEFINE X == Seq({"raw", "rle", "compressed"}) \ {<<>>}
  <2>2. of \in [len : 0..Unlimited, max_frame_size : Nat, checksum : BOOLEAN, how : X]
    BY FormatsAssumption
  <2> HIDE DEF X
  <2>3. of.len \in 0..Unlimited /\ of.max_frame_size \in Nat /\ of.checksum \in BOOLEAN /\ of.how \in X
    BY <2>2
  <2>4. input'.of = of /\ "kind" \in DOMAIN input'
    BY <2>1
  <2> QED BY <2>3, <2>4, Zenon DEF BlobTaken, X
<1>2. CASE TakeHeader \/ TakeLevel \/ TakeSource \/ TakeContent
  <2>1. input'.kind # "blob" /\ "kind" \in DOMAIN input'
    BY <1>2 DEF TakeHeader, TakeLevel, TakeSource, TakeContent
  <2> QED BY <2>1 DEF BlobTaken
<1>3. CASE input.kind = "content" /\ TakePart
  <2>1. input'.kind = input.kind /\ "kind" \in DOMAIN input'
    BY <1>3 DEF TakePart, BlobTaken
  <2> QED BY <1>3, <2>1 DEF BlobTaken
<1>4. CASE input' = Idle
  BY <1>4 DEF BlobTaken, Idle
<1>5. CASE UNCHANGED input
  BY <1>5 DEF BlobTaken
<1> QED BY <1>1, <1>2, <1>3, <1>4, <1>5 DEF Next

LEMMA BlobsFind == BlobTaken => SeeksFind
BY SeekIs DEF BlobTaken, SeeksFind

\* Random access agrees with decoding: of any length cut up into frames of any
\* size, the table is read back as written, and for every byte it names the one
\* frame that holds it (decompress_frame_at).
THEOREM SeeksFindHolds == Spec => []SeeksFind
<1>1. BlobTaken /\ UNCHANGED input => BlobTaken'
  BY DEF BlobTaken
<1> QED BY <1>1, BlobInit, BlobStep, BlobsFind, PTL DEF Spec

-----------------------------------------------------------------------------
(* Powers, and numbers of some bytes. *)

\* What the recursion of a power finds, it finds step by step.
LEMMA PowSteps ==
  ASSUME NEW b \in Nat, NEW n \in Nat
  PROVE  \E g \in [0..n -> Nat] : /\ g[0] = 1 /\ \A k \in 1..n : g[k] = b * g[k - 1]
                                  /\ Pow(b, n) = g[n]
<1> DEFINE F == [q \in (1..n) \X Nat |-> b * q[2]]
           body(g) == [k \in 0..n |-> IF k = 0 THEN 1 ELSE b * g[k - 1]]
           p == CHOOSE g : g = body(g)
<1>1. F \in [(1..n) \X Nat -> Nat]
  OBVIOUS
<1>2. PICK g \in [0..n -> Nat] : g[0] = 1 /\ \A k \in 1..n : g[k] = F[<<k, g[k - 1]>>]
  <2>1. Iterated(n, Nat, 1, F)
    <3> HIDE DEF F
    <3> QED BY <1>1, Iterates
  <2> QED BY <2>1 DEF Iterated
<1>3. \A k \in 1..n : g[k] = b * g[k - 1]
  <2> SUFFICES ASSUME NEW k \in 1..n PROVE g[k] = b * g[k - 1]
    OBVIOUS
  <2>1. k - 1 \in 0..n
    OBVIOUS
  <2>2. g[k - 1] \in Nat
    BY <2>1
  <2>3. F[<<k, g[k - 1]>>] = b * g[k - 1]
    BY <2>2
  <2> QED BY <1>2, <2>3
<1>4. g = body(g)
  <2>1. g = [k \in 0..n |-> g[k]]
    BY <1>2
  <2>2. ASSUME NEW k \in 0..n PROVE g[k] = IF k = 0 THEN 1 ELSE b * g[k - 1]
    BY <1>2, <1>3
  <2> HIDE DEF F
  <2> QED BY <2>1, <2>2
<1>5. p = body(p)
  <2> HIDE DEF body
  <2> QED BY <1>4
<1>6. p[0] = 1 /\ \A k \in 1..n : p[k] = b * p[k - 1]
  <2>1. \A k \in 0..n : body(p)[k] = IF k = 0 THEN 1 ELSE b * p[k - 1]
    <3> HIDE DEF p
    <3> QED OBVIOUS
  <2> HIDE DEF p, body
  <2>2. \A k \in 0..n : p[k] = IF k = 0 THEN 1 ELSE b * p[k - 1]
    BY <1>5, <2>1
  <2>3. 0 \in 0..n /\ \A k \in 1..n : k \in 0..n /\ k # 0
    OBVIOUS
  <2> QED BY <2>2, <2>3, Zenon
<1>7. Pow(b, n) = p[n]
  BY Zenon DEF Pow
<1> HIDE DEF p, body, F
<1>8. \A k \in 0..n : p[k] = g[k]
  <2>1. StepAlike(n, p, g)
    BY <1>2, <1>3, <1>6 DEF StepAlike
  <2> QED BY <2>1, Alike DEF AlikeTo
<1> QED BY <1>2, <1>3, <1>7, <1>8

\* The laws of powers.
LEMMA PowIs ==
  ASSUME NEW b \in Nat \ {0}
  PROVE  /\ Pow(b, 0) = 1
         /\ \A n \in Nat : Pow(b, n) \in Nat \ {0} /\ Pow(b, n + 1) = b * Pow(b, n)
<1>1. Pow(b, 0) = 1
  <2>1. 0 \in Nat /\ b \in Nat
    OBVIOUS
  <2> QED BY <2>1, PowSteps
<1>2. ASSUME NEW n \in Nat PROVE Pow(b, n + 1) = b * Pow(b, n) /\ Pow(b, n) \in Nat
  <2>1. PICK g \in [0..n -> Nat] : g[0] = 1 /\ (\A k \in 1..n : g[k] = b * g[k - 1]) /\ Pow(b, n) = g[n]
    BY PowSteps
  <2>2. PICK h \in [0..(n + 1) -> Nat] : /\ h[0] = 1 /\ (\A k \in 1..(n + 1) : h[k] = b * h[k - 1])
                                         /\ Pow(b, n + 1) = h[n + 1]
    <3>1. n + 1 \in Nat /\ b \in Nat
      OBVIOUS
    <3> QED BY <3>1, PowSteps
  <2>3. \A k \in 0..n : g[k] = h[k]
    <3>1. ASSUME NEW k \in 1..n, g[k - 1] = h[k - 1] PROVE g[k] = h[k]
      <4>1. k \in 1..(n + 1)
        OBVIOUS
      <4> QED BY <2>1, <2>2, <3>1, <4>1
    <3>2. StepAlike(n, g, h)
      BY <2>1, <2>2, <3>1, Zenon DEF StepAlike
    <3> QED BY <3>2, Alike DEF AlikeTo
  <2>4. n \in 0..n /\ n + 1 \in 1..(n + 1) /\ (n + 1) - 1 = n
    OBVIOUS
  <2>5. h[n + 1] = b * h[n]
    BY <2>2, <2>4
  <2> QED BY <2>1, <2>2, <2>3, <2>4, <2>5
<1> DEFINE S == {n \in Nat : Pow(b, n) # 0}
<1>3. 0 \in S
  BY <1>1
<1>4. ASSUME NEW n \in S PROVE n + 1 \in S
  BY <1>2
<1>5. S = Nat
  <2> HIDE DEF S
  <2>1. S \subseteq Nat
    BY DEF S
  <2> QED BY <1>3, <1>4, <2>1, NatSet
<1> QED BY <1>1, <1>2, <1>5

\* A power does not fall, and one of more than 1 grows.
LEMMA PowGrows ==
  ASSUME NEW b \in Nat \ {0, 1}, NEW i \in Nat, NEW j \in Nat, i < j
  PROVE  Pow(b, i) < Pow(b, j)
<1>1. \A n \in Nat : Pow(b, n) \in Nat \ {0} /\ Pow(b, n + 1) = b * Pow(b, n)
  BY PowIs
<1> DEFINE S == {k \in Nat : Pow(b, i) < Pow(b, i + 1 + k)}
<1>2. ASSUME NEW n \in Nat PROVE Pow(b, n) < Pow(b, n + 1)
  <2>1. PICK p \in Nat \ {0} : p = Pow(b, n)
    BY <1>1
  <2>2. p < b * p
    OBVIOUS
  <2> QED BY <1>1, <2>1, <2>2
<1>3. 0 \in S
  <2>1. i + 1 + 0 = i + 1
    OBVIOUS
  <2> QED BY <1>2, <2>1
<1>4. ASSUME NEW k \in S PROVE k + 1 \in S
  <2>1. i + 1 + k \in Nat /\ (i + 1 + k) + 1 = i + 1 + (k + 1)
    OBVIOUS
  <2>2. Pow(b, i + 1 + k) < Pow(b, i + 1 + (k + 1))
    BY <1>2, <2>1
  <2>3. Pow(b, i) \in Nat /\ Pow(b, i + 1 + k) \in Nat /\ Pow(b, i + 1 + (k + 1)) \in Nat
    BY <1>1, <2>1
  <2> QED BY <2>2, <2>3
<1>5. S = Nat
  <2> HIDE DEF S
  <2>1. S \subseteq Nat
    BY DEF S
  <2> QED BY <1>3, <1>4, <2>1, NatSet
<1>6. j - (i + 1) \in Nat /\ i + 1 + (j - (i + 1)) = j
  OBVIOUS
<1>7. j - (i + 1) \in S
  BY <1>5, <1>6
<1> QED BY <1>6, <1>7

\* Dividing by one number and then by another.
LEMMA DivIs ==
  ASSUME NEW v \in Nat, NEW m \in Nat \ {0}
  PROVE  /\ v \div m \in Nat /\ v % m \in Nat /\ v % m < m
         /\ v = m * (v \div m) + (v % m)
OBVIOUS

LEMMA DivOne ==
  ASSUME NEW v \in Nat, NEW m \in Nat \ {0}, NEW q \in Nat, NEW r \in Nat, r < m, v = m * q + r
  PROVE  v \div m = q /\ v % m = r
OBVIOUS

LEMMA DivDiv ==
  ASSUME NEW v \in Nat, NEW p \in Nat \ {0}, NEW r \in Nat \ {0}
  PROVE  v \div (r * p) = (v \div p) \div r
<1>1. PICK q \in Nat, u \in Nat : q = v \div p /\ u < p /\ v = p * q + u
  BY DivIs
<1>2. PICK s \in Nat, t \in Nat : s = q \div r /\ t < r /\ q = r * s + t
  BY DivIs
<1>3. r * p \in Nat \ {0} /\ p * t + u \in Nat
  OBVIOUS
<1>4. p * t + u < r * p
  <2>1. p * t + p <= p * r
    <3>1. t + 1 <= r
      BY <1>2
    <3>2. p * (t + 1) <= p * r /\ p * (t + 1) = p * t + p
      BY <3>1
    <3> QED BY <3>2
  <2>2. p * t \in Nat /\ p * r \in Nat /\ p * r = r * p
    OBVIOUS
  <2> QED BY <1>1, <2>1, <2>2
<1>5. v = (r * p) * s + (p * t + u)
  <2>1. p * q = (r * p) * s + p * t
    BY <1>2
  <2> QED BY <1>1, <2>1
<1>6. v \div (r * p) = s
  BY <1>3, <1>4, <1>5, DivOne
<1> QED BY <1>1, <1>2, <1>6

\* A digit more of a number.
LaidOut(p, r, s, t) == p * (r * s + t) = (r * p) * s + t * p

LEMMA LaidOutIs ==
  ASSUME NEW p \in Nat, NEW r \in Nat, NEW s \in Nat, NEW t \in Nat
  PROVE  LaidOut(p, r, s, t)
<1>1. p * (r * s + t) = (r * p) * s + p * t
  OBVIOUS
<1>2. p * t = t * p
  OBVIOUS
<1> QED BY <1>1, <1>2 DEF LaidOut

LEMMA DigitIs ==
  ASSUME NEW v \in Nat, NEW p \in Nat \ {0}, NEW r \in Nat \ {0}
  PROVE  (v - p * (v \div p)) + ((v \div p) % r) * p = v - (r * p) * (v \div (r * p))
<1>1. PICK q \in Nat, u \in Nat : q = v \div p /\ u < p /\ v = p * q + u
  BY DivIs
<1>2. PICK s \in Nat, t \in Nat : s = q \div r /\ t = q % r /\ q = r * s + t
  BY DivIs
<1>3. v \div (r * p) = s
  BY <1>1, <1>2, DivDiv
<1>4. p * q = (r * p) * s + t * p
  <2>1. p \in Nat /\ r \in Nat /\ s \in Nat /\ t \in Nat
    BY <1>2
  <2>2. LaidOut(p, r, s, t)
    BY <2>1, LaidOutIs, Zenon
  <2> QED BY <1>2, <2>2, Zenon DEF LaidOut
<1>5. (v - p * q) + t * p = v - (r * p) * s
  BY <1>4
<1> QED BY <1>1, <1>2, <1>3, <1>5

\* The bytes of a number that fits them are its value.
LEMMA BytesAre ==
  ASSUME NEW v \in Nat, NEW n \in Nat
  PROVE  /\ Bytes(v, n) \in Seq(Nat) /\ Len(Bytes(v, n)) = n
         /\ v < Pow(Radix, n) => Value(Bytes(v, n)) = v
<1> DEFINE b == Bytes(v, n)
           P(k) == Pow(Radix, k)
           d(i) == (v \div P(i - 1)) % Radix
           t == [i \in DOMAIN b |-> b[i] * P(i - 1)]
<1>1. Radix \in Nat \ {0} /\ P(0) = 1 /\ \A k \in Nat : P(k) \in Nat \ {0} /\ P(k + 1) = Radix * P(k)
  BY HeaderConstants, PowIs
<1>2. DOMAIN b = 1..n /\ b = [i \in 1..n |-> b[i]] /\ \A i \in 1..n : b[i] = d(i)
  BY DEF Bytes
<1> HIDE DEF b, P
<1>3. \A i \in 1..n : d(i) \in Nat
  <2> SUFFICES ASSUME NEW i \in 1..n PROVE d(i) \in Nat
    OBVIOUS
  <2>1. P(i - 1) \in Nat \ {0}
    BY <1>1
  <2>2. v \div P(i - 1) \in Nat
    BY <2>1, DivIs
  <2> QED BY <1>1, <2>2, DivIs
<1> HIDE DEF d
<1>4. b \in Seq(Nat) /\ Len(b) = n
  <2>1. \A i \in 1..n : b[i] \in Nat
    BY <1>2, <1>3
  <2> QED BY <1>2, <2>1, FunSeq
<1>5. t \in Seq(Nat) /\ Len(t) = n /\ \A i \in 1..n : t[i] = d(i) * P(i - 1)
  <2>1. DOMAIN t = 1..n /\ t = [i \in 1..n |-> t[i]] /\ \A i \in 1..n : t[i] = d(i) * P(i - 1)
    BY <1>2
  <2>2. \A i \in 1..n : i - 1 \in Nat /\ d(i) * P(i - 1) \in Nat
    BY <1>1, <1>3
  <2> HIDE DEF t
  <2>3. \A i \in 1..n : t[i] \in Nat
    BY <2>1, <2>2
  <2>4. t \in Seq(Nat) /\ Len(t) = n
    BY <2>1, <2>3, FunSeq
  <2> QED BY <2>1, <2>4
<1>6. Value(b) = SumOf(t)
  BY Zenon DEF Value, P
<1> HIDE DEF t
<1>7. SumTo(t, 0) = 0 /\ SumTo(t, n) = SumOf(t) /\ \A k \in 1..n : SumTo(t, k) = SumTo(t, k - 1) + t[k]
  BY <1>5, SumToIs
<1> DEFINE S == {k \in 0..n : SumTo(t, k) = v - P(k) * (v \div P(k))}
<1>8. 0 \in S
  <2>1. v \div 1 = v /\ v - 1 * (v \div 1) = 0
    OBVIOUS
  <2> QED BY <1>1, <1>7, <2>1
<1>9. ASSUME NEW k \in 1..n, k - 1 \in S PROVE k \in S
  <2>1. PICK p \in Nat \ {0} : p = P(k - 1) /\ P(k) = Radix * p
    <3>1. k - 1 \in Nat /\ (k - 1) + 1 = k
      OBVIOUS
    <3> QED BY <1>1, <3>1
  <2>2. SumTo(t, k) = (v - p * (v \div p)) + ((v \div p) % Radix) * p
    <3>1. SumTo(t, k) = SumTo(t, k - 1) + t[k] /\ t[k] = d(k) * p /\ d(k) = (v \div p) % Radix
      BY <1>5, <1>7, <2>1 DEF d
    <3>2. SumTo(t, k - 1) = v - p * (v \div p)
      BY <1>9, <2>1
    <3> HIDE DEF S
    <3> QED BY <3>1, <3>2
  <2>3. (v - p * (v \div p)) + ((v \div p) % Radix) * p = v - (Radix * p) * (v \div (Radix * p))
    BY <1>1, DigitIs
  <2> QED BY <2>1, <2>2, <2>3
<1>10. SumOf(t) = v - P(n) * (v \div P(n))
  <2> HIDE DEF S
  <2>1. \A k \in 0..n : k \in S
    BY <1>8, <1>9, Throughout
  <2>2. n \in 0..n
    OBVIOUS
  <2> QED BY <1>7, <2>1, <2>2 DEF S
<1>11. ASSUME v < P(n) PROVE SumOf(t) = v
  <2>1. PICK p \in Nat \ {0} : p = P(n)
    BY <1>1
  <2>2. v \div p = 0
    BY <1>11, <2>1
  <2>3. p * 0 = 0
    OBVIOUS
  <2> QED BY <1>10, <2>1, <2>2, <2>3
<1> QED BY <1>4, <1>6, <1>11 DEF b, P

-----------------------------------------------------------------------------
(* What a header says. *)

\* The widths of a field.
LEMMA FieldWidths ==
  /\ Radix \in Nat \ {0, 1}
  /\ \A n \in Nat : Pow(Radix, n) \in Nat \ {0}
  /\ Pow(Radix, 0) = 1 /\ Pow(Radix, 1) = Radix
  /\ Radix < Pow(Radix, 2) /\ Pow(Radix, 2) < Pow(Radix, 4) /\ Pow(Radix, 4) < Pow(Radix, 8)
<1>1. Radix \in Nat \ {0, 1} /\ Radix \in Nat \ {0}
  BY HeaderConstants
<1>2. Pow(Radix, 0) = 1 /\ \A n \in Nat : Pow(Radix, n) \in Nat \ {0} /\ Pow(Radix, n + 1) = Radix * Pow(Radix, n)
  BY <1>1, PowIs
<1>3. Pow(Radix, 0 + 1) = Radix
  BY <1>1, <1>2
<1>4. 0 + 1 = 1 /\ 2 \in Nat /\ 4 \in Nat /\ 8 \in Nat
  OBVIOUS
<1>5. Pow(Radix, 1) = Radix
  BY <1>3, <1>4
<1>6. Pow(Radix, 1) < Pow(Radix, 2) /\ Pow(Radix, 2) < Pow(Radix, 4) /\ Pow(Radix, 4) < Pow(Radix, 8)
  BY <1>1, PowGrows
<1> QED BY <1>1, <1>2, <1>5, <1>6

\* A number v in n bytes.
Written(b, n, v) == b \in Seq(Nat) /\ Len(b) = n /\ Value(b) = v

LEMMA WrittenIs ==
  ASSUME NEW v \in Nat, NEW n \in Nat, v < Pow(Radix, n)
  PROVE  Written(Bytes(v, n), n, v)
BY BytesAre DEF Written

LEMMA NoneWritten == Written(<<>>, 0, 0)
<1>1. 0 < Pow(Radix, 0)
  BY FieldWidths
<1>2. Written(Bytes(0, 0), 0, 0)
  BY <1>1, WrittenIs
<1>3. Bytes(0, 0) = <<>>
  BY <1>2 DEF Written
<1> QED BY <1>2, <1>3

\* The bytes of a size, and what they are short of it.
SizeLen(flag, single) ==
  IF flag = 0 THEN IF single THEN 1 ELSE 0 ELSE IF flag = 1 THEN 2 ELSE IF flag = 2 THEN 4 ELSE 8
SizeLess(flag) == IF flag = 1 THEN Radix ELSE 0

SizeWritten(f, single, pledged) ==
  /\ f.flag \in 0..3
  /\ f.bytes \in Seq(Nat) /\ Len(f.bytes) = SizeLen(f.flag, single)
  /\ (pledged = None) <=> (f.flag = 0 /\ ~single)
  /\ pledged # None => Value(f.bytes) + SizeLess(f.flag) = pledged

LEMMA SizeIs ==
  ASSUME NEW h, h.pledged \in Nat \cup {None}, h.pledged # None => h.pledged < Pow(Radix, 8)
  PROVE  SizeWritten(ContentSizeField(h), SingleSegment(h), h.pledged)
<1> DEFINE size == h.pledged
           f == ContentSizeField(h)
           single == SingleSegment(h)
           p2 == Pow(Radix, 2)
           p4 == Pow(Radix, 4)
<1>1. Radix \in Nat /\ p2 \in Nat /\ p4 \in Nat /\ Radix < p2 /\ p2 < p4 /\ Pow(Radix, 1) = Radix
  BY FieldWidths
<1>2. single \in BOOLEAN /\ (single => size # None)
  BY DEF SingleSegment
<1>3. f = CASE size = None -> [flag |-> 0, bytes |-> <<>>]
            [] size # None /\ size < Radix /\ single -> [flag |-> 0, bytes |-> Bytes(size, 1)]
            [] size # None /\ size < Radix /\ ~single -> [flag |-> 2, bytes |-> Bytes(size, 4)]
            [] size # None /\ size >= Radix /\ size < Radix + p2 ->
                 [flag |-> 1, bytes |-> Bytes(size - Radix, 2)]
            [] size # None /\ size >= Radix + p2 /\ size < p4 -> [flag |-> 2, bytes |-> Bytes(size, 4)]
            [] OTHER -> [flag |-> 3, bytes |-> Bytes(size, 8)]
  BY DEF ContentSizeField
<1> HIDE DEF f, single, p2, p4
<1>4. CASE size = None
  <2>1. f = [flag |-> 0, bytes |-> <<>>]
    BY <1>3, <1>4
  <2> QED BY <1>2, <1>4, <2>1, NoneWritten DEF Written, SizeWritten, SizeLen, f, single
<1>5. CASE size # None
  <2>1. size \in Nat /\ size < Pow(Radix, 8)
    BY <1>5
  <2>2. CASE size < Radix /\ single
    <3>1. f = [flag |-> 0, bytes |-> Bytes(size, 1)]
      BY <1>1, <1>3, <1>5, <2>1, <2>2
    <3>2. Written(Bytes(size, 1), 1, size)
      BY <1>1, <2>1, <2>2, WrittenIs
    <3> QED BY <1>5, <2>1, <2>2, <3>1, <3>2 DEF Written, SizeWritten, SizeLen, SizeLess, f, single
  <2>3. CASE (size < Radix /\ ~single) \/ (size >= Radix + p2 /\ size < p4)
    <3>1. f = [flag |-> 2, bytes |-> Bytes(size, 4)]
      BY <1>1, <1>3, <1>5, <2>1, <2>3
    <3>2. Written(Bytes(size, 4), 4, size)
      BY <1>1, <2>1, <2>3, WrittenIs DEF p4
    <3> QED BY <1>5, <2>1, <3>1, <3>2 DEF Written, SizeWritten, SizeLen, SizeLess, f, single
  <2>4. CASE size >= Radix /\ size < Radix + p2
    <3>1. f = [flag |-> 1, bytes |-> Bytes(size - Radix, 2)]
      BY <1>1, <1>3, <1>5, <2>1, <2>4
    <3>2. size - Radix \in Nat /\ size - Radix < Pow(Radix, 2)
      BY <1>1, <2>1, <2>4 DEF p2
    <3>3. Written(Bytes(size - Radix, 2), 2, size - Radix)
      BY <3>2, WrittenIs
    <3>4. (size - Radix) + Radix = size
      BY <1>1, <2>1
    <3> QED BY <1>5, <3>1, <3>3, <3>4 DEF Written, SizeWritten, SizeLen, SizeLess, f, single
  <2>5. CASE size >= Radix + p2 /\ ~(size < p4)
    <3>1. f = [flag |-> 3, bytes |-> Bytes(size, 8)]
      BY <1>1, <1>3, <1>5, <2>1, <2>5
    <3>2. Written(Bytes(size, 8), 8, size)
      BY <2>1, WrittenIs
    <3> QED BY <1>5, <2>1, <3>1, <3>2 DEF Written, SizeWritten, SizeLen, SizeLess, f, single
  <2> QED BY <1>1, <1>2, <2>1, <2>2, <2>3, <2>4, <2>5
<1> QED BY <1>4, <1>5

\* The bytes of a dictionary's id.
IdWritten(f, id) ==
  /\ f.flag \in 0..3
  /\ f.bytes \in Seq(Nat) /\ Len(f.bytes) = DictIdLen(f.flag)
  /\ Value(f.bytes) = IF id = None THEN 0 ELSE id

LEMMA IdIs ==
  ASSUME NEW id \in Nat \cup {None}, id # None => id < Pow(Radix, 4)
  PROVE  IdWritten(DictIdField(id), id)
<1> DEFINE f == DictIdField(id)
           p2 == Pow(Radix, 2)
<1>1. Radix \in Nat /\ p2 \in Nat /\ Radix < p2 /\ Pow(Radix, 1) = Radix
  BY FieldWidths
<1>2. f = CASE id \in {None, 0} -> [flag |-> 0, bytes |-> <<>>]
            [] id \notin {None, 0} /\ id < Radix -> [flag |-> 1, bytes |-> Bytes(id, 1)]
            [] id \notin {None, 0} /\ id >= Radix /\ id < p2 -> [flag |-> 2, bytes |-> Bytes(id, 2)]
            [] OTHER -> [flag |-> 3, bytes |-> Bytes(id, 4)]
  BY DEF DictIdField
<1>3. DictIdLen(0) = 0 /\ DictIdLen(1) = 1 /\ DictIdLen(2) = 2 /\ DictIdLen(3) = 4
  BY DEF DictIdLen
<1> HIDE DEF f, p2
<1> SUFFICES IdWritten(f, id)
  BY Zenon DEF f
<1>4. CASE id \in {None, 0}
  <2>1. f = [flag |-> 0, bytes |-> <<>>]
    BY <1>2, <1>4
  <2>2. f.flag = 0 /\ f.bytes = <<>>
    BY <2>1
  <2> QED BY <1>3, <1>4, <2>2, NoneWritten DEF Written, IdWritten
<1>5. CASE id \notin {None, 0}
  <2>1. id \in Nat /\ id < Pow(Radix, 4) /\ id # None
    BY <1>5
  <2>2. CASE id < Radix
    <3>1. f = [flag |-> 1, bytes |-> Bytes(id, 1)]
      BY <1>1, <1>2, <1>5, <2>1, <2>2
    <3>2. f.flag = 1 /\ f.bytes = Bytes(id, 1)
      BY <3>1
    <3>3. Written(f.bytes, 1, id)
      BY <1>1, <2>1, <2>2, <3>2, WrittenIs
    <3>4. f.flag \in 0..3
      BY <3>2
    <3>5. f.bytes \in Seq(Nat) /\ Len(f.bytes) = DictIdLen(f.flag)
      BY <1>3, <3>2, <3>3, Zenon DEF Written
    <3>6. Value(f.bytes) = IF id = None THEN 0 ELSE id
      BY <2>1, <3>3, Zenon DEF Written
    <3> QED BY <3>4, <3>5, <3>6, Zenon DEF IdWritten
  <2>3. CASE id >= Radix /\ id < p2
    <3>1. f = [flag |-> 2, bytes |-> Bytes(id, 2)]
      BY <1>1, <1>2, <1>5, <2>1, <2>3
    <3>2. f.flag = 2 /\ f.bytes = Bytes(id, 2)
      BY <3>1
    <3>3. Written(f.bytes, 2, id)
      BY <2>1, <2>3, <3>2, WrittenIs DEF p2
    <3>4. f.flag \in 0..3
      BY <3>2
    <3>5. f.bytes \in Seq(Nat) /\ Len(f.bytes) = DictIdLen(f.flag)
      BY <1>3, <3>2, <3>3, Zenon DEF Written
    <3>6. Value(f.bytes) = IF id = None THEN 0 ELSE id
      BY <2>1, <3>3, Zenon DEF Written
    <3> QED BY <3>4, <3>5, <3>6, Zenon DEF IdWritten
  <2>4. CASE ~(id < Radix) /\ ~(id < p2)
    <3>1. f = [flag |-> 3, bytes |-> Bytes(id, 4)]
      BY <1>1, <1>2, <1>5, <2>1, <2>4
    <3>2. f.flag = 3 /\ f.bytes = Bytes(id, 4)
      BY <3>1
    <3>3. Written(f.bytes, 4, id)
      BY <2>1, <3>2, WrittenIs
    <3>4. f.flag \in 0..3
      BY <3>2
    <3>5. f.bytes \in Seq(Nat) /\ Len(f.bytes) = DictIdLen(f.flag)
      BY <1>3, <3>2, <3>3, Zenon DEF Written
    <3>6. Value(f.bytes) = IF id = None THEN 0 ELSE id
      BY <2>1, <3>3, Zenon DEF Written
    <3> QED BY <3>4, <3>5, <3>6, Zenon DEF IdWritten
  <2> QED BY <1>1, <2>1, <2>2, <2>3, <2>4
<1> QED BY <1>4, <1>5

\* A part of a sequence is what it has there.
LEMMA PartEquals ==
  ASSUME NEW X, NEW s \in Seq(X), NEW a \in Nat, NEW b \in Nat, a <= b, b <= Len(s),
         NEW q \in Seq(X), Len(q) = b - a, \A i \in 1..(b - a) : s[a + i] = q[i]
  PROVE  SubSeq(s, a + 1, b) = q
<1> DEFINE p == SubSeq(s, a + 1, b)
<1>1. \A i \in (a + 1)..b : s[i] \in X
  OBVIOUS
<1>2. a + 1 \in Int /\ b \in Int
  OBVIOUS
<1>3. /\ p \in Seq(X)
      /\ Len(p) = IF a + 1 <= b THEN b - (a + 1) + 1 ELSE 0
      /\ \A i \in 1..(b - (a + 1) + 1) : p[i] = s[(a + 1) + i - 1]
  BY <1>1, <1>2, SubSeqProperties
<1> HIDE DEF p
<1>4. Len(p) = Len(q)
  BY <1>3
<1>5. ASSUME NEW i \in 1..Len(p) PROVE p[i] = q[i]
  <2>1. i \in 1..(b - (a + 1) + 1) /\ i \in 1..(b - a) /\ (a + 1) + i - 1 = a + i
    BY <1>4
  <2> QED BY <1>3, <2>1
<1>6. p = q
  BY <1>3, <1>4, <1>5, SeqEqual
<1> QED BY <1>6 DEF p

\* A header: its descriptor, n more fields of which B is the first, D and C.
Laid(w, n, A, B, D, C) ==
  /\ Len(w) = 1 + n + Len(D) + Len(C)
  /\ w[1] = A /\ (n = 1 => w[2] = B)
  /\ SubSeq(w, (1 + n) + 1, (1 + n) + Len(D)) = D
  /\ SubSeq(w, (1 + n) + Len(D) + 1, (1 + n) + Len(D) + Len(C)) = C
  /\ \A k \in 1..Len(w) : Len(SubSeq(w, 1, k)) = k /\ SubSeq(w, 1, k)[1] = A

LEMMA LaidIs ==
  ASSUME NEW A, NEW B, NEW n \in {0, 1}, NEW D \in Seq(Nat), NEW C \in Seq(Nat)
  PROVE  Laid(<<A>> \o (IF n = 0 THEN <<>> ELSE <<B>>) \o D \o C, n, A, B, D, C)
<1> DEFINE X == Nat \cup {A, B}
           W == IF n = 0 THEN <<>> ELSE <<B>>
           u == <<A>> \o W
           v == u \o D
           w == v \o C
<1>1. D \in Seq(X) /\ C \in Seq(X) /\ Len(D) \in Nat /\ Len(C) \in Nat
  OBVIOUS
<1>2. <<A>> \in Seq(X) /\ Len(<<A>>) = 1 /\ <<A>>[1] = A
  OBVIOUS
<1>3. W \in Seq(X) /\ Len(W) = n /\ (n = 1 => W[1] = B)
  <2>1. CASE n = 0
    <3>1. W = <<>>
      BY <2>1
    <3>2. <<>> \in Seq(X) /\ Len(<<>>) = 0
      OBVIOUS
    <3> HIDE DEF W, X
    <3> QED BY <2>1, <3>1, <3>2
  <2>2. CASE n = 1
    <3>1. W = <<B>>
      BY <2>2
    <3>2. <<B>> \in Seq(X) /\ Len(<<B>>) = 1 /\ <<B>>[1] = B
      OBVIOUS
    <3> HIDE DEF W, X
    <3> QED BY <2>2, <3>1, <3>2
  <2> QED BY <2>1, <2>2
<1> HIDE DEF X, W
<1>4. u \in Seq(X) /\ Len(u) = 1 + n /\ u[1] = A /\ (n = 1 => u[2] = B)
  <2>1. u \in Seq(X) /\ Len(u) = 1 + n
    BY <1>2, <1>3, JoinHas
  <2>2. \A i \in 1..(1 + n) : u[i] = IF i <= 1 THEN <<A>>[i] ELSE W[i - 1]
    BY <1>2, <1>3, JoinHas
  <2> HIDE DEF u
  <2>3. u[1] = A
    BY <1>2, <2>2
  <2>4. n = 1 => u[2] = B
    BY <1>3, <2>2
  <2> QED BY <2>1, <2>3, <2>4
<1> HIDE DEF u
<1>5. /\ v \in Seq(X) /\ Len(v) = (1 + n) + Len(D)
      /\ \A i \in 1..((1 + n) + Len(D)) : v[i] = IF i <= 1 + n THEN u[i] ELSE D[i - (1 + n)]
  BY <1>1, <1>4, JoinHas
<1> HIDE DEF v
<1>6. PICK m \in Nat : m = (1 + n) + Len(D)
  BY <1>1
<1>7. /\ w \in Seq(X) /\ Len(w) = m + Len(C)
      /\ \A i \in 1..(m + Len(C)) : w[i] = IF i <= m THEN v[i] ELSE C[i - m]
  <2>1. v \in Seq(X) /\ Len(v) = m
    BY <1>5, <1>6
  <2>2. /\ v \o C \in Seq(X) /\ Len(v \o C) = Len(v) + Len(C)
        /\ \A i \in 1..(Len(v) + Len(C)) : (v \o C)[i] = IF i <= Len(v) THEN v[i] ELSE C[i - Len(v)]
    BY <1>1, <2>1, JoinHas, Zenon
  <2> QED BY <2>1, <2>2, Zenon DEF w
<1> HIDE DEF w
<1>8. w[1] = A /\ (n = 1 => w[2] = B)
  BY <1>1, <1>4, <1>5, <1>6, <1>7
<1>9. SubSeq(w, (1 + n) + 1, (1 + n) + Len(D)) = D
  <2>1. ASSUME NEW i \in 1..Len(D) PROVE w[(1 + n) + i] = D[i]
    <3>1. /\ (1 + n) + i \in 1..((1 + n) + Len(D)) /\ (1 + n) + i \in 1..(m + Len(C))
          /\ (1 + n) + i <= m /\ ~((1 + n) + i <= 1 + n) /\ ((1 + n) + i) - (1 + n) = i
      BY <1>1, <1>6
    <3>2. w[(1 + n) + i] = v[(1 + n) + i]
      BY <1>7, <3>1
    <3>3. v[(1 + n) + i] = D[i]
      BY <1>5, <3>1
    <3> QED BY <3>2, <3>3
  <2>2. 1 + n \in Nat /\ 1 + n <= m /\ m <= Len(w) /\ m - (1 + n) = Len(D)
    BY <1>1, <1>6, <1>7
  <2>3. SubSeq(w, (1 + n) + 1, m) = D
    BY <1>1, <1>7, <2>1, <2>2, PartEquals
  <2> QED BY <1>6, <2>3
<1>10. SubSeq(w, (1 + n) + Len(D) + 1, (1 + n) + Len(D) + Len(C)) = C
  <2>1. \A i \in 1..Len(C) : w[m + i] = C[i]
    BY <1>1, <1>7
  <2>2. m + Len(C) \in Nat /\ m <= m + Len(C) /\ m + Len(C) <= Len(w) /\ (m + Len(C)) - m = Len(C)
    BY <1>1, <1>7
  <2>3. SubSeq(w, m + 1, m + Len(C)) = C
    BY <1>1, <1>7, <2>1, <2>2, PartEquals
  <2> QED BY <1>6, <2>3
<1>11. ASSUME NEW k \in 1..Len(w) PROVE Len(SubSeq(w, 1, k)) = k /\ SubSeq(w, 1, k)[1] = A
  <2>1. /\ Len(SubSeq(w, 1, k)) = IF 1 <= k THEN k - 1 + 1 ELSE 0
        /\ \A i \in 1..(k - 1 + 1) : SubSeq(w, 1, k)[i] = w[1 + i - 1]
    <3>1. \A i \in 1..k : w[i] \in X
      BY <1>7
    <3>2. 1 \in Int /\ k \in Int
      BY <1>7
    <3> QED BY <3>1, <3>2, SubSeqProperties
  <2>2. 1 \in 1..(k - 1 + 1) /\ 1 + 1 - 1 = 1 /\ k - 1 + 1 = k /\ 1 <= k
    BY <1>7
  <2> QED BY <1>8, <2>1, <2>2
<1>12. Len(w) = 1 + n + Len(D) + Len(C)
  BY <1>1, <1>6, <1>7
<1>13. Laid(w, n, A, B, D, C)
  BY <1>8, <1>9, <1>10, <1>11, <1>12, Zenon DEF Laid
<1> QED BY <1>13, Zenon DEF w, v, u, W

\* The window log a header can say, from 0 on.
ExponentOf(h) ==
  IF h.window_log < WindowLogMin THEN 0 ELSE Min({h.window_log - WindowLogMin, 31})

\* The window that is read is no smaller than the one that was meant.
LEMMA WindowCovers ==
  ASSUME NEW h, h.window_log \in Nat
  PROVE  /\ WindowOf(h.window_log) \in Nat \ {0}
         /\ WindowSize([exponent |-> ExponentOf(h), mantissa |-> 0]) \in Nat
         /\ WindowSize([exponent |-> ExponentOf(h), mantissa |-> 0]) >= WindowOf(h.window_log)
<1> DEFINE l == h.window_log
           e == ExponentOf(h)
           m == Min({l, WindowLogMax})
           r == WindowLogMin + e
           d == IF r < 3 THEN 0 ELSE r - 3
<1>1. WindowLogMin \in Nat /\ WindowLogMax \in Nat /\ WindowLogMax <= WindowLogMin + 31 /\ l \in Nat
  BY HeaderConstants
<1>2. m \in Nat /\ m = IF l <= WindowLogMax THEN l ELSE WindowLogMax
  BY <1>1, TwoOf
<1>3. e \in Nat /\ e = IF l < WindowLogMin THEN 0 ELSE IF l - WindowLogMin <= 31 THEN l - WindowLogMin ELSE 31
  <2>1. CASE l < WindowLogMin
    BY <2>1 DEF ExponentOf
  <2>2. CASE ~(l < WindowLogMin)
    <3>1. l - WindowLogMin \in Nat /\ 31 \in Nat
      BY <1>1, <2>2
    <3>2. /\ Min({l - WindowLogMin, 31}) \in Nat
          /\ Min({l - WindowLogMin, 31}) = IF l - WindowLogMin <= 31 THEN l - WindowLogMin ELSE 31
      BY <3>1, TwoOf
    <3> QED BY <2>2, <3>2 DEF ExponentOf
  <2> QED BY <2>1, <2>2
<1> HIDE DEF m, e, l
<1>4. m <= r /\ r \in Nat /\ d \in Nat
  BY <1>1, <1>2, <1>3
<1>5. 2 \in Nat \ {0, 1} /\ 2 \in Nat \ {0}
  OBVIOUS
<1>6. \A k \in Nat : Pow(2, k) \in Nat \ {0}
  BY <1>5, PowIs
<1>7. Pow(2, m) <= Pow(2, r)
  <2> HIDE DEF r
  <2>1. CASE m = r
    BY <1>4, <1>6, <2>1
  <2>2. CASE m < r
    BY <1>2, <1>4, <1>5, <1>6, <2>2, PowGrows
  <2> QED BY <1>2, <1>4, <2>1, <2>2
<1>8. WindowSize([exponent |-> e, mantissa |-> 0]) = Pow(2, r) + 0 * Pow(2, d)
  BY DEF WindowSize
<1>9. 0 * Pow(2, d) = 0
  <2> HIDE DEF d
  <2> QED BY <1>4, <1>6
<1>10. WindowOf(h.window_log) = Pow(2, m)
  BY DEF WindowOf, m, l
<1> HIDE DEF r
<1>11. WindowSize([exponent |-> e, mantissa |-> 0]) = Pow(2, r)
  BY <1>4, <1>6, <1>8, <1>9
<1> QED BY <1>2, <1>4, <1>6, <1>7, <1>10, <1>11 DEF e

\* What is read of bytes that begin with a descriptor.
ReadOf(src, desc, n, dict, fcs) ==
  LET id == Value(SubSeq(src, 1 + n + 1, 1 + n + dict))
      size == Value(SubSeq(src, 1 + n + dict + 1, 1 + n + dict + fcs)) + SizeLess(desc.fcs_flag)
  IN [err |-> None, len |-> ParsedLen(desc), dict_id |-> IF id = 0 THEN None ELSE id,
      content_size |-> IF fcs = 0 THEN None ELSE size, checksum |-> desc.checksum,
      single |-> desc.single, window_size |-> IF desc.single THEN size ELSE WindowSize(src[2])]

LEMMA ReadIs ==
  ASSUME NEW src, NEW desc, src[1] = desc, ~desc.reserved, desc.single \in BOOLEAN,
         NEW n, n = IF desc.single THEN 0 ELSE 1
  PROVE  /\ Len(src) < ParsedLen(desc) => ParseZstdHeader(src).err = "UnexpectedEof"
         /\ ~(Len(src) < ParsedLen(desc)) =>
              ParseZstdHeader(src) = ReadOf(src, desc, n, DictIdLen(desc.dict_flag), ContentSizeLen(desc))
<1> DEFINE at == IF desc.single THEN 1 ELSE 2
<1>1. at = 1 + n
  OBVIOUS
<1> DEFINE dict == DictIdLen(desc.dict_flag)
           fcs == ContentSizeLen(desc)
           id == Value(SubSeq(src, at + 1, at + dict))
           size == Value(SubSeq(src, at + dict + 1, at + dict + fcs))
                     + (IF desc.fcs_flag = 1 THEN Radix ELSE 0)
           read == [err |-> None, len |-> ParsedLen(desc), dict_id |-> IF id = 0 THEN None ELSE id,
                    content_size |-> IF fcs = 0 THEN None ELSE size, checksum |-> desc.checksum,
                    single |-> desc.single, window_size |-> IF desc.single THEN size ELSE WindowSize(src[2])]
<1>2. ParseZstdHeader(src) =
        CASE desc.reserved -> [err |-> "ReservedBitSet"]
          [] ~desc.reserved /\ Len(src) < ParsedLen(desc) -> [err |-> "UnexpectedEof"]
          [] OTHER -> read
  BY Zenon DEF ParseZstdHeader
<1>3. read = ReadOf(src, desc, n, dict, fcs)
  <2> HIDE DEF at, dict, fcs
  <2> QED BY <1>1, Zenon DEF ReadOf, SizeLess
<1> HIDE DEF read
<1>4. Len(src) < ParsedLen(desc) => ParseZstdHeader(src) = [err |-> "UnexpectedEof"]
  BY <1>2
<1>5. ~(Len(src) < ParsedLen(desc)) => ParseZstdHeader(src) = read
  BY <1>2
<1> QED BY <1>3, <1>4, <1>5

\* What is said of the fields of a frame header.
HeaderOf == [pledged : Nat \cup {None}, dict_id : Nat \cup {None}, window_log : Nat,
             checksum : BOOLEAN, ext_hist : BOOLEAN]

Told(p, h) ==
  /\ p.err = None /\ p.content_size = h.pledged
  /\ p.dict_id = IF h.dict_id = 0 THEN None ELSE h.dict_id
  /\ p.checksum = h.checksum /\ p.single = SingleSegment(h)
  /\ IF p.single THEN p.window_size = h.pledged
                 ELSE p.window_size \in Nat /\ p.window_size >= WindowOf(h.window_log)

Cut(w) == \A k \in 1..(Len(w) - 1) : ParseZstdHeader(SubSeq(w, 1, k)).err = "UnexpectedEof"

LEMMA HeaderIs ==
  ASSUME NEW h \in HeaderOf, Fits(h)
  PROVE  LET w == WriteFrameHeader(h) IN
         Told(ParseZstdHeader(w), h) /\ ParseZstdHeader(w).len = Len(w) /\ Cut(w)
<1> DEFINE w == WriteFrameHeader(h)
           single == SingleSegment(h)
           f == ContentSizeField(h)
           g == DictIdField(h.dict_id)
           n == IF single THEN 0 ELSE 1
           win == [exponent |-> ExponentOf(h), mantissa |-> 0]
           desc == [fcs_flag |-> f.flag, single |-> single, reserved |-> FALSE,
                    checksum |-> h.checksum, dict_flag |-> g.flag]
<1>1. /\ h.pledged \in Nat \cup {None} /\ h.dict_id \in Nat \cup {None} /\ h.window_log \in Nat
      /\ h.checksum \in BOOLEAN /\ h.ext_hist \in BOOLEAN
  BY DEF HeaderOf
<1>2. /\ h.pledged # None => h.pledged < Pow(Radix, 8)
      /\ h.dict_id # None => h.dict_id < Pow(Radix, 4)
  BY DEF Fits
<1>3. SizeWritten(f, single, h.pledged)
  BY <1>1, <1>2, SizeIs
<1>4. IdWritten(g, h.dict_id)
  BY <1>1, <1>2, IdIs
<1>5. single \in BOOLEAN /\ (single => h.pledged # None)
  BY DEF SingleSegment
<1>6. w = <<desc>> \o WindowField(h) \o g.bytes \o f.bytes
  BY Zenon DEF WriteFrameHeader
<1>7. WindowField(h) = IF n = 0 THEN <<>> ELSE <<win>>
  BY <1>5 DEF WindowField, ExponentOf
<1>8. desc.single = single /\ ~desc.reserved /\ desc.checksum = h.checksum
      /\ desc.fcs_flag = f.flag /\ desc.dict_flag = g.flag
  OBVIOUS
<1> HIDE DEF w, single, f, g, win, desc
<1>9. n \in {0, 1} /\ f.bytes \in Seq(Nat) /\ g.bytes \in Seq(Nat)
  BY <1>3, <1>4, Zenon DEF SizeWritten, IdWritten
<1>10. Laid(w, n, desc, win, g.bytes, f.bytes)
  <2> HIDE DEF n
  <2> QED BY <1>6, <1>7, <1>9, LaidIs
<1>11. DictIdLen(desc.dict_flag) = Len(g.bytes) /\ Len(g.bytes) \in Nat
  BY <1>4, <1>8, <1>9 DEF IdWritten
<1>12. ContentSizeLen(desc) = Len(f.bytes) /\ Len(f.bytes) \in Nat /\ f.flag \in 0..3
  <2>1. f.flag \in 0..3 /\ Len(f.bytes) = SizeLen(f.flag, single)
    BY <1>3 DEF SizeWritten
  <2>2. ContentSizeLen(desc) = IF f.flag = 0 THEN (IF single THEN 1 ELSE 0) ELSE <<2, 4, 8>>[f.flag]
    BY <1>8 DEF ContentSizeLen
  <2>3. <<2, 4, 8>>[1] = 2 /\ <<2, 4, 8>>[2] = 4 /\ <<2, 4, 8>>[3] = 8
    OBVIOUS
  <2>4. f.flag = 0 \/ f.flag = 1 \/ f.flag = 2 \/ f.flag = 3
    BY <2>1
  <2>5. ContentSizeLen(desc) = SizeLen(f.flag, single)
    BY <2>2, <2>3, <2>4 DEF SizeLen
  <2> QED BY <1>9, <2>1, <2>5
<1>13. ParsedLen(desc) = Len(w) /\ Len(w) \in Nat
  <2>1. ParsedLen(desc) = 1 + (IF single THEN 0 ELSE 1) + DictIdLen(desc.dict_flag) + ContentSizeLen(desc)
    BY <1>8, Zenon DEF ParsedLen
  <2>2. Len(w) = 1 + n + Len(g.bytes) + Len(f.bytes)
    BY <1>10, Zenon DEF Laid
  <2>3. n = IF single THEN 0 ELSE 1
    OBVIOUS
  <2> HIDE DEF n
  <2>4. ParsedLen(desc) = Len(w)
    BY <1>11, <1>12, <2>1, <2>2, <2>3
  <2>5. n \in Nat /\ Len(g.bytes) \in Nat /\ Len(f.bytes) \in Nat
    <3>1. n \in {0, 1}
      BY <1>9
    <3>2. n \in Nat
      BY <3>1
    <3> QED BY <1>11, <1>12, <3>2, Zenon
  <2>6. 1 + n + Len(g.bytes) + Len(f.bytes) \in Nat
    <3> DEFINE x == Len(g.bytes)
               y == Len(f.bytes)
    <3>1. n \in Nat /\ x \in Nat /\ y \in Nat
      BY <2>5
    <3> HIDE DEF x, y
    <3>2. 1 + n + x + y \in Nat
      BY <3>1
    <3> QED BY <3>2 DEF x, y
  <2> QED BY <2>2, <2>4, <2>6, Zenon
<1>14. w[1] = desc
  BY <1>10 DEF Laid
<1>15. ParseZstdHeader(w) = ReadOf(w, desc, n, Len(g.bytes), Len(f.bytes))
  <2>1. ~(Len(w) < ParsedLen(desc))
    BY <1>13
  <2>2. desc.single \in BOOLEAN /\ n = IF desc.single THEN 0 ELSE 1
    BY <1>5, <1>8
  <2> HIDE DEF n
  <2> QED BY <1>8, <1>11, <1>12, <1>14, <2>1, <2>2, ReadIs
<1>16. /\ SubSeq(w, 1 + n + 1, 1 + n + Len(g.bytes)) = g.bytes
       /\ SubSeq(w, 1 + n + Len(g.bytes) + 1, 1 + n + Len(g.bytes) + Len(f.bytes)) = f.bytes
       /\ n = 1 => w[2] = win
  BY <1>10, Zenon DEF Laid
<1> DEFINE p == ParseZstdHeader(w)
           id == Value(g.bytes)
           size == Value(f.bytes) + SizeLess(f.flag)
<1>17. p = [err |-> None, len |-> ParsedLen(desc), dict_id |-> IF id = 0 THEN None ELSE id,
            content_size |-> IF Len(f.bytes) = 0 THEN None ELSE size, checksum |-> h.checksum,
            single |-> single, window_size |-> IF single THEN size ELSE WindowSize(w[2])]
  <2> HIDE DEF n
  <2> QED BY <1>8, <1>15, <1>16, Zenon DEF ReadOf
<1> HIDE DEF p, id, size
<1>18. p.content_size = h.pledged /\ (single => p.window_size = h.pledged)
  <2>1. /\ (h.pledged = None) <=> (f.flag = 0 /\ ~single)
        /\ h.pledged # None => size = h.pledged
        /\ Len(f.bytes) = SizeLen(f.flag, single)
    BY <1>3 DEF SizeWritten, size
  <2>2. Len(f.bytes) = 0 <=> h.pledged = None
    BY <1>5, <1>12, <2>1 DEF SizeLen
  <2>3. (IF Len(f.bytes) = 0 THEN None ELSE size) = h.pledged
    BY <2>1, <2>2, Zenon
  <2> QED BY <1>5, <1>17, <2>1, <2>3
<1>19. p.dict_id = IF h.dict_id = 0 THEN None ELSE h.dict_id
  <2>1. id = IF h.dict_id = None THEN 0 ELSE h.dict_id
    BY <1>4 DEF IdWritten, id
  <2>2. p.dict_id = IF id = 0 THEN None ELSE id
    BY <1>17
  <2> QED BY <2>1, <2>2, Zenon
<1>20. ~single => p.window_size \in Nat /\ p.window_size >= WindowOf(h.window_log)
  <2>1. WindowSize(win) \in Nat /\ WindowSize(win) >= WindowOf(h.window_log)
    BY <1>1, WindowCovers DEF win
  <2>2. ~single => p.window_size = WindowSize(win)
    BY <1>5, <1>16, <1>17
  <2> QED BY <2>1, <2>2
<1>21. p.err = None /\ p.len = Len(w) /\ p.checksum = h.checksum /\ p.single = single
  BY <1>13, <1>17
<1>22. Told(p, h)
  BY <1>5, <1>18, <1>19, <1>20, <1>21, Zenon DEF Told, single
<1>23. Cut(w)
  <2> SUFFICES ASSUME NEW k \in 1..(Len(w) - 1)
               PROVE  ParseZstdHeader(SubSeq(w, 1, k)).err = "UnexpectedEof"
    BY DEF Cut
  <2>1. k \in 1..Len(w) /\ k < Len(w)
    BY <1>13
  <2>2. Len(SubSeq(w, 1, k)) = k /\ SubSeq(w, 1, k)[1] = desc
    BY <1>10, <2>1 DEF Laid
  <2>3. Len(SubSeq(w, 1, k)) < ParsedLen(desc)
    BY <1>13, <2>1, <2>2
  <2>4. desc.single \in BOOLEAN
    BY <1>5, <1>8
  <2> QED BY <1>8, <2>2, <2>3, <2>4, ReadIs
<1> QED BY <1>21, <1>22, <1>23 DEF p, w

\* The bits of a block header: a last block, its type and its size.
Bits(v, l, t, size) == v % 2 = l /\ (v \div 2) % 4 = t /\ v \div 8 = size

LEMMA HeaderBits ==
  ASSUME NEW l \in {0, 1}, NEW t \in 0..2, NEW size \in Nat
  PROVE  Bits(l + 2 * t + 8 * size, l, t, size)
<1>1. (l + 2 * t + 8 * size) \div 2 = t + 4 * size
  OBVIOUS
<1> QED BY <1>1 DEF Bits

\* A block header reads back.
LEMMA BlockHeaderReads ==
  ASSUME NEW last \in BOOLEAN, NEW ty \in {"raw", "rle", "compressed"},
         NEW size \in Nat, size <= BlockSizeMax
  PROVE  ParseBlockHeader(WriteBlockHeader(last, ty, size)) =
           [err |-> None, last |-> last, ty |-> ty, size |-> size]
<1> DEFINE t == CHOOSE i \in 1..3 : BlockTypes[i] = ty
           l == IF last THEN 1 ELSE 0
           v == l + 2 * (t - 1) + 8 * size
           b == Bytes(v, 3)
<1>1. t \in 1..3 /\ BlockTypes[t] = ty
  <2>1. \E i \in 1..3 : BlockTypes[i] = ty
    <3>1. BlockTypes[1] = "raw" /\ BlockTypes[2] = "rle" /\ BlockTypes[3] = "compressed"
      BY DEF BlockTypes
    <3>2. 1 \in 1..3 /\ 2 \in 1..3 /\ 3 \in 1..3
      OBVIOUS
    <3> QED BY <3>1, <3>2
  <2> QED BY <2>1, Zenon
<1>2. WriteBlockHeader(last, ty, size) = b
  BY Zenon DEF WriteBlockHeader
<1> HIDE DEF t, b
<1>3. v \in Nat /\ v < Pow(Radix, 3)
  <2>1. 8 * BlockSizeMax + 8 <= Pow(Radix, 3) /\ BlockSizeMax \in Nat /\ Pow(Radix, 3) \in Nat
    BY HeaderConstants, FieldWidths
  <2>2. v < 8 * BlockSizeMax + 8 /\ v \in Nat
    BY <1>1, <2>1
  <2> HIDE DEF v
  <2> QED BY <2>1, <2>2
<1>4. l \in {0, 1} /\ t - 1 \in 0..2 /\ (t - 1) + 1 = t
  BY <1>1
<1>5. v % 2 = l /\ (v \div 2) % 4 = t - 1 /\ v \div 8 = size
  <2> HIDE DEF l
  <2>1. Bits(l + 2 * (t - 1) + 8 * size, l, t - 1, size)
    BY <1>4, HeaderBits, Zenon
  <2> QED BY <2>1, Zenon DEF Bits
<1> HIDE DEF v
<1>6. b \in Seq(Nat) /\ Len(b) = 3 /\ Value(b) = v
  <2>1. 3 \in Nat
    OBVIOUS
  <2>2. Written(Bytes(v, 3), 3, v)
    BY <1>3, <2>1, WrittenIs
  <2> QED BY <2>2 DEF Written, b
<1>7. SubSeq(b, 1, 3) = b
  <2>1. SubSeq(b, 0 + 1, 3) = b
    <3>1. 0 \in Nat /\ 3 \in Nat /\ 0 <= 3 /\ 3 <= Len(b) /\ Len(b) = 3 - 0 /\ \A i \in 1..(3 - 0) : b[0 + i] = b[i]
      BY <1>6
    <3> QED BY <1>6, <3>1, PartEquals
  <2>2. 0 + 1 = 1
    OBVIOUS
  <2> QED BY <2>1, <2>2
<1> DEFINE m == Value(SubSeq(b, 1, 3))
           u == (m \div 2) % 4
           read == [err |-> None, last |-> m % 2 = 1, ty |-> BlockTypes[u + 1], size |-> m \div 8]
<1>8. ParseBlockHeader(b) =
        CASE Len(b) < 3 -> [err |-> "UnexpectedEof"]
          [] Len(b) >= 3 /\ u = 3 -> [err |-> "ReservedBlockType"]
          [] OTHER -> read
  BY Zenon DEF ParseBlockHeader
<1>9. m = v /\ u = t - 1
  BY <1>5, <1>6, <1>7
<1> HIDE DEF m, u
<1>10. read = [err |-> None, last |-> last, ty |-> ty, size |-> size]
  <2>1. m % 2 = l /\ m \div 8 = size /\ u + 1 = t
    BY <1>4, <1>5, <1>9
  <2>2. (m % 2 = 1) = last
    BY <2>1
  <2> QED BY <1>1, <2>1, <2>2, Zenon
<1> HIDE DEF read
<1>11. ParseBlockHeader(b) = read
  BY <1>1, <1>6, <1>8, <1>9
<1> QED BY <1>2, <1>10, <1>11

\* No block is larger than a window, than a size or than the largest of blocks.
LEMMA FrameBlockMaxIs ==
  ASSUME NEW window_log, NEW target \in Nat, WindowOf(window_log) \in Nat \ {0}
  PROVE  /\ FrameBlockMax(window_log, target) \in Nat
         /\ FrameBlockMax(window_log, target) <= WindowOf(window_log)
         /\ FrameBlockMax(window_log, target) <= BlockSizeMax
<1> DEFINE w == WindowOf(window_log)
           least == Min({w, BlockSizeMax})
           max == Max({least, 1})
           t == Max({target * 4, TargetBlockMin})
<1>1. w \in Nat \ {0} /\ BlockSizeMax \in Nat \ {0} /\ TargetBlockMin \in Nat /\ target * 4 \in Nat /\ 1 \in Nat
  BY HeaderConstants
<1>2. FrameBlockMax(window_log, target) = IF target = 0 THEN max ELSE Min({max, t})
  BY Zenon DEF FrameBlockMax
<1> HIDE DEF w
<1>3. least \in Nat /\ least = IF w <= BlockSizeMax THEN w ELSE BlockSizeMax
  BY <1>1, TwoOf
<1> HIDE DEF least
<1>4. max \in Nat /\ max = IF least >= 1 THEN least ELSE 1
  BY <1>1, <1>3, TwoOf
<1> HIDE DEF max
<1>5. t \in Nat
  <2> DEFINE q == target * 4
  <2>1. q \in Nat /\ TargetBlockMin \in Nat
    BY <1>1
  <2> HIDE DEF q
  <2>2. Max({q, TargetBlockMin}) \in Nat
    BY <2>1, TwoOf
  <2> QED BY <2>2 DEF q
<1> HIDE DEF t
<1>6. Min({max, t}) \in Nat /\ Min({max, t}) = IF max <= t THEN max ELSE t
  BY <1>4, <1>5, TwoOf
<1> QED BY <1>1, <1>2, <1>3, <1>4, <1>5, <1>6 DEF w

\* Every block fits what the header lets a decoder accept.
LEMMA BlocksAre ==
  ASSUME NEW h \in HeaderOf, Fits(h), NEW target \in Nat
  PROVE  BlocksFit(h, target)
<1> DEFINE p == ParseZstdHeader(WriteFrameHeader(h))
           max == FrameBlockMax(h.window_log, target)
           largest == IF h.pledged = None THEN max ELSE Min({max, h.pledged})
<1>1. h.pledged \in Nat \cup {None} /\ h.window_log \in Nat
  BY DEF HeaderOf
<1>2. Told(p, h)
  BY HeaderIs
<1>3. WindowOf(h.window_log) \in Nat \ {0}
  BY <1>1, WindowCovers
<1>4. max \in Nat /\ max <= WindowOf(h.window_log) /\ max <= BlockSizeMax
  BY <1>3, FrameBlockMaxIs
<1> HIDE DEF p, max
<1>5. largest \in Nat /\ largest <= max /\ (h.pledged # None => largest <= h.pledged)
  <2>1. CASE h.pledged = None
    BY <1>4, <2>1
  <2>2. CASE h.pledged # None
    <3>1. h.pledged \in Nat
      BY <1>1, <2>2
    <3>2. Min({max, h.pledged}) \in Nat /\ Min({max, h.pledged}) = IF max <= h.pledged THEN max ELSE h.pledged
      BY <1>4, <3>1, TwoOf
    <3> QED BY <1>4, <2>2, <3>1, <3>2
  <2> QED BY <2>1, <2>2
<1> HIDE DEF largest
<1>6. p.window_size \in Nat /\ largest <= p.window_size
  <2>1. p.single = SingleSegment(h) /\ (SingleSegment(h) => h.pledged # None)
    BY <1>2 DEF Told, SingleSegment
  <2>2. CASE p.single
    <3>1. p.window_size = h.pledged /\ h.pledged # None /\ h.pledged \in Nat
      BY <1>1, <1>2, <2>1, <2>2 DEF Told
    <3> QED BY <1>5, <3>1
  <2>3. CASE ~p.single
    <3>1. p.window_size \in Nat /\ p.window_size >= WindowOf(h.window_log)
      BY <1>2, <2>3 DEF Told
    <3> QED BY <1>3, <1>4, <1>5, <3>1
  <2> QED BY <2>2, <2>3
<1>7. largest <= BlockSizeMaxOf(p)
  <2>1. BlockSizeMax \in Nat
    BY HeaderConstants
  <2>2. Min({p.window_size, BlockSizeMax}) = IF p.window_size <= BlockSizeMax THEN p.window_size ELSE BlockSizeMax
    BY <1>6, <2>1, TwoOf
  <2> QED BY <1>4, <1>5, <1>6, <2>1, <2>2 DEF BlockSizeMaxOf
<1>8. ASSUME NEW ty \in {"raw", "rle", "compressed"}, NEW last \in BOOLEAN
      PROVE  LET b == ParseBlockHeader(WriteBlockHeader(last, ty, largest)) IN
             largest <= BlockSizeMaxOf(p) /\ b.err = None /\ b.last = last /\ b.ty = ty /\ b.size = largest
  <2>1. largest <= BlockSizeMax
    BY <1>4, <1>5, HeaderConstants
  <2>2. ParseBlockHeader(WriteBlockHeader(last, ty, largest)) = [err |-> None, last |-> last, ty |-> ty, size |-> largest]
    BY <1>5, <2>1, BlockHeaderReads
  <2> QED BY <1>7, <2>2
<1> QED BY <1>8, Zenon DEF BlocksFit, largest, max, p

LEMMA HeaderBack ==
  ASSUME NEW h \in HeaderOf, Fits(h)
  PROVE  HeaderReadsBack(h)
<1> DEFINE w == WriteFrameHeader(h)
           p == ParseZstdHeader(w)
<1>1. Told(p, h) /\ p.len = Len(w) /\ Cut(w)
  BY HeaderIs, Zenon
<1> HIDE DEF p, w
<1>2. p.single => ~h.ext_hist
  BY <1>1 DEF Told, SingleSegment
<1>3. /\ p.err = None /\ p.len = Len(w) /\ p.content_size = h.pledged
      /\ p.dict_id = IF h.dict_id = 0 THEN None ELSE h.dict_id
      /\ p.checksum = h.checksum
      /\ IF p.single THEN p.window_size = h.pledged /\ ~h.ext_hist
                     ELSE p.window_size >= WindowOf(h.window_log)
  BY <1>1, <1>2 DEF Told
<1> QED BY <1>1, <1>3, Zenon DEF HeaderReadsBack, Cut, p, w

-----------------------------------------------------------------------------
(* The parameters of a level. *)

\* The rows with a window of low to high.
Rows(low, high) == (low..high) \X (6..30) \X (6..30) \X (1..30) \X (3..7) \X (0..999) \X (1..9)

TableIn(table, low, high) == table \in Seq(Rows(low, high)) /\ Len(table) = 23

LEMMA TablesAre ==
  /\ TableIn(TableDefault, 18, 27) /\ TableIn(Table256K, 18, 18)
  /\ TableIn(Table128K, 17, 17) /\ TableIn(Table16K, 14, 14)
<1>1. TableIn(TableDefault, 18, 27)
  BY SMTT(60) DEF TableDefault, TableIn, Rows
<1>2. TableIn(Table256K, 18, 18)
  BY SMTT(60) DEF Table256K, TableIn, Rows
<1>3. TableIn(Table128K, 17, 17)
  BY SMTT(60) DEF Table128K, TableIn, Rows
<1>4. TableIn(Table16K, 14, 14)
  BY SMTT(60) DEF Table16K, TableIn, Rows
<1> QED BY <1>1, <1>2, <1>3, <1>4

\* Powers of 2.
LEMMA TwoPowers ==
  /\ \A n \in Nat : Pow(2, n) \in Nat \ {0}
  /\ Pow(2, 14) = 16 * 1024 /\ Pow(2, 17) = 128 * 1024 /\ Pow(2, 18) = 256 * 1024
<1>1. 2 \in Nat \ {0}
  OBVIOUS
<1>2. Pow(2, 0) = 1 /\ \A n \in Nat : Pow(2, n) \in Nat \ {0} /\ Pow(2, n + 1) = 2 * Pow(2, n)
  BY <1>1, PowIs
<1>3. ASSUME NEW n \in 1..18 PROVE Pow(2, n) = 2 * Pow(2, n - 1)
  <2>1. n - 1 \in Nat /\ (n - 1) + 1 = n
    OBVIOUS
  <2> QED BY <1>2, <2>1
<1>4. Pow(2, 6) = 64
  BY <1>2, <1>3
<1>5. Pow(2, 12) = 4096
  BY <1>3, <1>4
<1>6. Pow(2, 14) = 16384
  BY <1>3, <1>5
<1>7. Pow(2, 17) = 131072 /\ Pow(2, 18) = 262144
  BY <1>3, <1>6
<1> QED BY <1>2, <1>6, <1>7

LEMMA PowIn ==
  ASSUME NEW n \in Nat
  PROVE  Pow(2, n) \in Nat
BY TwoPowers

LEMMA PowMonotone ==
  ASSUME NEW i \in Nat, NEW j \in Nat, i <= j
  PROVE  Pow(2, i) <= Pow(2, j)
<1>1. 2 \in Nat \ {0, 1}
  OBVIOUS
<1>2. CASE i < j
  BY <1>1, <1>2, PowGrows, TwoPowers
<1>3. CASE i = j
  BY <1>3, TwoPowers
<1> QED BY <1>2, <1>3

\* A number is less than the power of 2 behind its log.
LEMMA Log2Is ==
  ASSUME NEW n \in Nat \ {0}
  PROVE  Log2(n) \in 0..30 /\ (n < Pow(2, 30) => n < Pow(2, Log2(n) + 1))
<1> DEFINE S == {k \in 0..30 : Pow(2, k) <= n}
           T == {j \in 0..30 : 30 - j \in S}
<1>1. 0 \in S
  <2>1. Pow(2, 0) = 1
    <3>1. 2 \in Nat \ {0}
      OBVIOUS
    <3> QED BY <3>1, PowIs
  <2> QED BY <2>1
<1>2. 30 \in T /\ T \in SUBSET Nat
  <2> HIDE DEF S
  <2> QED BY <1>1
<1>3. PICK j \in T : \A i \in T : j <= i
  <2> HIDE DEF T
  <2> QED BY <1>2, Least
<1>4. 30 - j \in S /\ \A k \in S : 30 - j >= k
  <2>1. \A k \in S : 30 - k \in T
    <3>1. \A k \in S : 30 - k \in 0..30 /\ 30 - (30 - k) = k
      OBVIOUS
    <3> HIDE DEF S
    <3> QED BY <3>1
  <2>2. S \subseteq 0..30
    OBVIOUS
  <2> HIDE DEF S
  <2>3. j \in 0..30 /\ 30 - j \in S
    BY <1>3
  <2>4. ASSUME NEW k \in S PROVE 30 - j >= k
    <3>1. j <= 30 - k
      BY <1>3, <2>1, Zenon
    <3>2. k \in 0..30
      BY <2>2
    <3> QED BY <2>3, <3>1, <3>2
  <2> QED BY <2>3, <2>4
<1> DEFINE m == Max(S)
<1>5. Log2(n) = m
  BY DEF Log2
<1>6. m \in S /\ \A k \in S : m >= k
  <2> HIDE DEF S
  <2> QED BY <1>4, Zenon DEF Max
<1> HIDE DEF m
<1>7. ASSUME n < Pow(2, 30) PROVE n < Pow(2, m + 1)
  <2>1. m \in 0..30 /\ m # 30
    BY <1>6, <1>7, TwoPowers
  <2>2. m + 1 \in 0..30 /\ ~(m >= m + 1) /\ m + 1 \in Nat
    BY <2>1
  <2>3. m + 1 \notin S
    <3> HIDE DEF S
    <3> QED BY <1>6, <2>2
  <2>4. ~(Pow(2, m + 1) <= n)
    BY <2>2, <2>3
  <2> QED BY <2>2, <2>4, TwoPowers
<1>8. m \in 0..30
  BY <1>6
<1> QED BY <1>5, <1>7, <1>8

\* The log that covers a size.
LEMMA SrcLogIs ==
  ASSUME NEW n \in Nat
  PROVE  SrcLog(n) \in Nat /\ (n <= 256 * 1024 => n <= Pow(2, SrcLog(n)))
<1> DEFINE m == Max({n, 64})
           l == Log2(m - 1)
<1>1. m \in Nat /\ m = IF n >= 64 THEN n ELSE 64
  <2>1. 64 \in Nat
    OBVIOUS
  <2> QED BY <2>1, TwoOf
<1>2. SrcLog(n) = l + 1
  BY DEF SrcLog
<1> HIDE DEF m
<1>3. m - 1 \in Nat \ {0} /\ n <= m
  BY <1>1
<1>4. l \in 0..30 /\ (m - 1 < Pow(2, 30) => m - 1 < Pow(2, l + 1))
  BY <1>3, Log2Is
<1> HIDE DEF l
<1>5. ASSUME n <= 256 * 1024 PROVE n <= Pow(2, l + 1)
  <2>1. Pow(2, 18) < Pow(2, 30) /\ Pow(2, 30) \in Nat
    <3>1. 2 \in Nat \ {0, 1} /\ 18 \in Nat /\ 30 \in Nat /\ 18 < 30
      OBVIOUS
    <3> QED BY <3>1, PowGrows, TwoPowers
  <2>2. m - 1 < Pow(2, 30)
    BY <1>1, <1>5, <2>1, TwoPowers
  <2>3. Pow(2, l + 1) \in Nat
    BY <1>4, TwoPowers
  <2> QED BY <1>1, <1>3, <1>4, <2>2, <2>3
<1> QED BY <1>2, <1>4, <1>5

\* Parameters with a window of low to high, a chain and a hash of 6 to most.
Params(low, high, most) ==
  [window_log : low..high, chain_log : 6..most, hash_log : 6..most, search_log : 1..30,
   min_match : 3..7, target_length : 0..999, strategy : 1..9]

\* The table for a size, whose windows cover it.
LEMMA TableForIs ==
  ASSUME NEW hint \in Seq(Nat), Len(hint) <= 1
  PROVE  \E low \in 14..27 : /\ \E high \in 14..27 : TableIn(TableForSize(hint), low, high)
                             /\ hint # <<>> /\ hint[1] <= 256 * 1024 => hint[1] <= Pow(2, low)
<1>1. CASE hint = <<>>
  <2>1. TableForSize(hint) = TableDefault
    BY <1>1 DEF TableForSize
  <2>2. 18 \in 14..27 /\ 27 \in 14..27
    OBVIOUS
  <2> QED BY <1>1, <2>1, <2>2, TablesAre
<1>2. CASE hint # <<>>
  <2>1. hint[1] \in Nat
    BY <1>2
  <2> DEFINE n == hint[1]
  <2>2. TableForSize(hint) = IF n <= 16 * 1024 THEN Table16K ELSE IF n <= 128 * 1024 THEN Table128K
                             ELSE IF n <= 256 * 1024 THEN Table256K ELSE TableDefault
    BY <1>2 DEF TableForSize
  <2> HIDE DEF n
  <2>3. n \in Nat
    BY <2>1 DEF n
  <2>4. /\ 14 \in 14..27 /\ 17 \in 14..27 /\ 18 \in 14..27 /\ 27 \in 14..27
        /\ Pow(2, 14) = 16 * 1024 /\ Pow(2, 17) = 128 * 1024 /\ Pow(2, 18) = 256 * 1024
    BY TwoPowers
  <2>5. CASE n <= 16 * 1024
    <3>1. TableIn(TableForSize(hint), 14, 14) /\ n <= Pow(2, 14)
      BY <2>2, <2>4, <2>5, TablesAre
    <3> QED BY <2>4, <3>1 DEF n
  <2>6. CASE ~(n <= 16 * 1024) /\ n <= 128 * 1024
    <3>1. TableIn(TableForSize(hint), 17, 17) /\ n <= Pow(2, 17)
      BY <2>2, <2>4, <2>6, TablesAre
    <3> QED BY <2>4, <3>1 DEF n
  <2>7. CASE ~(n <= 16 * 1024) /\ ~(n <= 128 * 1024) /\ n <= 256 * 1024
    <3>1. TableIn(TableForSize(hint), 18, 18) /\ n <= Pow(2, 18)
      BY <2>2, <2>4, <2>7, TablesAre
    <3> QED BY <2>4, <3>1 DEF n
  <2>8. CASE ~(n <= 16 * 1024) /\ ~(n <= 128 * 1024) /\ ~(n <= 256 * 1024)
    <3>1. TableIn(TableForSize(hint), 18, 27)
      BY <2>2, <2>8, TablesAre
    <3> QED BY <2>4, <2>8, <3>1 DEF n
  <2> QED BY <2>5, <2>6, <2>7, <2>8
<1> QED BY <1>1, <1>2

\* A row's parameters.
LEMMA RowIs ==
  ASSUME NEW low \in Nat, NEW high \in Nat, NEW row \in Rows(low, high)
  PROVE  RowToParams(row) \in Params(low, high, 30)
BY DEF Rows, RowToParams, Params

\* The parameters of a level, before they are fitted to the source.
LEMMA LevelParamsAre ==
  ASSUME NEW level \in Levels, NEW low \in Nat, NEW high \in Nat, NEW table, TableIn(table, low, high)
  PROVE  LevelParams(level, table) \in Params(low, high, 30)
<1>1. level \in -7..22
  BY DEF Levels
<1>2. ASSUME NEW i \in 1..23 PROVE RowToParams(table[i]) \in Params(low, high, 30)
  <2>1. table[i] \in Rows(low, high)
    <3> DEFINE X == Rows(low, high)
    <3>1. table \in Seq(X) /\ i \in 1..Len(table)
      BY DEF TableIn
    <3> HIDE DEF X
    <3>2. table[i] \in X
      BY <3>1, SeqHas
    <3> QED BY <3>2 DEF X
  <2> QED BY <2>1, RowIs
<1>3. LevelParams(level, table) =
        CASE level < 0 -> [RowToParams(table[1]) EXCEPT !.target_length = -level]
          [] level = 0 -> RowToParams(table[4])
          [] level > 0 -> RowToParams(table[level + 1])
  BY DEF LevelParams
<1>4. CASE level < 0
  <2>1. LevelParams(level, table) = [RowToParams(table[1]) EXCEPT !.target_length = -level]
    BY <1>1, <1>3, <1>4
  <2>2. -level \in 0..999 /\ 1 \in 1..23
    BY <1>1, <1>4
  <2>3. RowToParams(table[1]) \in Params(low, high, 30)
    BY <1>2, <2>2
  <2> DEFINE r == RowToParams(table[1])
             t == -level
  <2>4. r \in Params(low, high, 30) /\ t \in 0..999
    BY <2>2, <2>3
  <2> HIDE DEF r, t
  <2>5. [r EXCEPT !.target_length = t] \in Params(low, high, 30)
    BY <2>4 DEF Params
  <2> QED BY <2>1, <2>5 DEF r, t
<1>5. CASE level = 0
  <2>1. LevelParams(level, table) = RowToParams(table[4]) /\ 4 \in 1..23
    BY <1>3, <1>5
  <2> QED BY <1>2, <2>1
<1>6. CASE level > 0
  <2>1. LevelParams(level, table) = RowToParams(table[level + 1]) /\ level + 1 \in 1..23
    BY <1>1, <1>3, <1>6
  <2> QED BY <1>2, <2>1
<1> QED BY <1>1, <1>4, <1>5, <1>6

\* The greater of an integer and a number.
LEMMA MaxOf ==
  ASSUME NEW a \in Int, NEW b \in Nat
  PROVE  Max({a, b}) \in Nat /\ Max({a, b}) = IF a >= b THEN a ELSE b
<1> DEFINE most == Max({a, b})
<1>1. \E x \in {a, b} : \A y \in {a, b} : x >= y
  OBVIOUS
<1>2. most \in {a, b} /\ \A y \in {a, b} : most >= y
  BY <1>1, Zenon DEF Max
<1> HIDE DEF most
<1> QED BY <1>2 DEF most

LEMMA ClampIs ==
  ASSUME NEW n \in Nat, NEW low \in Nat, NEW high \in Nat, low <= high
  PROVE  /\ Clamp(n, low, high) \in low..high
         /\ Clamp(n, low, high) = IF n < low THEN low ELSE IF n > high THEN high ELSE n
<1> DEFINE m == Max({n, low})
<1>1. m \in Nat /\ m = IF n >= low THEN n ELSE low
  BY TwoOf
<1>2. Clamp(n, low, high) = Min({m, high})
  BY DEF Clamp
<1> HIDE DEF m
<1>3. Min({m, high}) = IF m <= high THEN m ELSE high
  BY <1>1, TwoOf
<1> QED BY <1>1, <1>2, <1>3

\* The less of two numbers is no more than either.
LEMMA MinOf ==
  ASSUME NEW a \in Nat, NEW b \in Nat
  PROVE  Min({a, b}) \in Nat /\ Min({a, b}) <= a /\ Min({a, b}) <= b
BY TwoOf

\* The fields, and one of them changed.
LEMMA ParamsHas ==
  ASSUME NEW p \in Params(10, 27, 30)
  PROVE  p.window_log \in 10..27 /\ p.hash_log \in 6..30
BY DEF Params

LEMMA WithWindow ==
  ASSUME NEW low, NEW high, NEW p \in Params(low, high, 30), NEW w \in 10..27
  PROVE  [p EXCEPT !.window_log = w] \in Params(10, 27, 30) /\ [p EXCEPT !.window_log = w].window_log = w
BY DEF Params

LEMMA WithHash ==
  ASSUME NEW p \in Params(10, 27, 30), NEW h \in 6..30
  PROVE  /\ [p EXCEPT !.hash_log = h] \in Params(10, 27, 30)
         /\ [p EXCEPT !.hash_log = h].hash_log = h
         /\ [p EXCEPT !.hash_log = h].window_log = p.window_log
BY DEF Params

\* Whether a size is known, and not 0.
Known(hint) == hint # <<>> /\ hint # <<0>>

LEMMA KnownIs ==
  ASSUME NEW hint \in Seq(Nat), Len(hint) <= 1
  PROVE  /\ hint # <<>> => hint[1] \in Nat
         /\ hint # <<>> /\ ~Known(hint) => hint[1] = 0
         /\ Known(hint) => hint # <<>>
<1>1. hint # <<>> => hint[1] \in Nat
  OBVIOUS
<1>2. hint = <<0>> => hint[1] = 0
  OBVIOUS
<1> QED BY <1>1, <1>2 DEF Known

\* The window is the source's where it is known, and no longer covers it less.
LEMMA FitWindowIs ==
  ASSUME NEW hint \in Seq(Nat), Len(hint) <= 1, NEW low \in 14..27, NEW high \in 14..27,
         hint # <<>> /\ hint[1] <= 256 * 1024 => hint[1] <= Pow(2, low),
         NEW p \in Params(low, high, 30)
  PROVE  /\ FitWindow(p, hint) \in Params(10, 27, 30)
         /\ hint # <<>> /\ hint[1] <= 256 * 1024 => Pow(2, FitWindow(p, hint).window_log) >= hint[1]
<1> DEFINE known == hint # <<>> /\ hint # <<0>>
           s == SrcLog(hint[1])
           x == Max({s, 10})
           y == Min({p.window_log, x})
           log == IF known THEN y ELSE p.window_log
           w == Max({log, 10})
<1>1. FitWindow(p, hint) = [p EXCEPT !.window_log = w]
  BY Zenon DEF FitWindow
<1>2. p.window_log \in Nat /\ p.window_log >= low /\ p.window_log <= 27
  BY DEF Params
<1>3. known => hint # <<>> /\ hint[1] \in Nat /\ s \in Nat /\ (hint[1] <= 256 * 1024 => hint[1] <= Pow(2, s))
  <2>1. known => hint # <<>> /\ hint[1] \in Nat
    BY KnownIs DEF Known
  <2> HIDE DEF known
  <2> QED BY <2>1, SrcLogIs
<1>4. hint # <<>> /\ ~known => hint[1] = 0
  BY KnownIs, Zenon DEF Known
<1> HIDE DEF known, s
<1>5. 10 \in Nat
  OBVIOUS
<1>6. known => x \in Nat /\ x = IF s >= 10 THEN s ELSE 10
  BY <1>3, <1>5, TwoOf
<1> HIDE DEF x
<1>7. known => y \in Nat /\ y = IF p.window_log <= x THEN p.window_log ELSE x
  BY <1>2, <1>6, TwoOf
<1> HIDE DEF y
<1>8. log \in Nat /\ log <= p.window_log /\ (known => log >= 10)
  <2>1. CASE known
    BY <1>2, <1>6, <1>7, <2>1
  <2>2. CASE ~known
    BY <1>2, <2>2
  <2> QED BY <2>1, <2>2
<1>9. w \in Nat /\ w = IF log >= 10 THEN log ELSE 10
  <2> HIDE DEF log
  <2> QED BY <1>5, <1>8, TwoOf
<1>10. known => w = IF p.window_log <= x THEN p.window_log ELSE x
  BY <1>7, <1>8, <1>9
<1> HIDE DEF log
<1> HIDE DEF w
<1>11. w \in 10..27
  BY <1>2, <1>8, <1>9
<1>12. FitWindow(p, hint) \in Params(10, 27, 30) /\ FitWindow(p, hint).window_log = w
  <2> DEFINE q == [p EXCEPT !.window_log = w]
  <2>1. q \in Params(10, 27, 30) /\ q.window_log = w
    BY <1>11, WithWindow
  <2> HIDE DEF q
  <2>2. FitWindow(p, hint) = q
    BY <1>1 DEF q
  <2> QED BY <2>1, <2>2
<1>13. ASSUME hint # <<>>, hint[1] <= 256 * 1024 PROVE Pow(2, w) >= hint[1]
  <2>1. PICK n \in Nat : n = hint[1]
    BY <1>13, KnownIs
  <2>2. w \in Nat /\ low \in Nat
    <3>1. w \in Nat
      BY <1>11
    <3> QED BY <3>1
  <2>3. Pow(2, w) \in Nat /\ Pow(2, low) \in Nat
    BY <2>2, PowIn, Zenon
  <2>4. CASE ~known
    <3>1. n = 0
      BY <1>4, <1>13, <2>1, <2>4
    <3> QED BY <2>1, <2>3, <3>1
  <2>5. CASE known /\ p.window_log <= x
    <3>1. low <= w
      BY <1>2, <1>10, <2>5
    <3>2. Pow(2, low) <= Pow(2, w)
      BY <2>2, <3>1, PowMonotone
    <3>3. n <= Pow(2, low)
      BY <1>13, <2>1
    <3> QED BY <2>1, <2>3, <3>2, <3>3
  <2>6. CASE known /\ ~(p.window_log <= x)
    <3>1. s <= w /\ s \in Nat
      BY <1>3, <1>6, <1>10, <2>6
    <3>2. Pow(2, s) <= Pow(2, w) /\ Pow(2, s) \in Nat
      <4>1. Pow(2, s) <= Pow(2, w)
        BY <2>2, <3>1, PowMonotone, Zenon
      <4>2. Pow(2, s) \in Nat
        BY <3>1, TwoPowers
      <4> QED BY <4>1, <4>2
    <3>3. n <= Pow(2, s)
      BY <1>3, <1>13, <2>1, <2>6
    <3> QED BY <2>1, <2>3, <3>2, <3>3
  <2> QED BY <2>4, <2>5, <2>6
<1> QED BY <1>12, <1>13

\* The hash has two slots for a position of the window, at most.
LEMMA FitHashIs ==
  ASSUME NEW hint \in Seq(Nat), Len(hint) <= 1, NEW p \in Params(10, 27, 30)
  PROVE  /\ FitHash(p, hint) \in Params(10, 27, 30)
         /\ FitHash(p, hint).hash_log \in 6..24
         /\ FitHash(p, hint).window_log = p.window_log
         /\ FitHash(p, hint).hash_log <= p.window_log + 1
<1> DEFINE c == Clamp(p.hash_log, 6, 24)
           log == Min({c, p.window_log + 1})
           known == hint # <<>> /\ hint # <<0>>
           s == SrcLog(hint[1])
           y == Min({log, s})
           tight == IF known THEN y ELSE log
           h == Clamp(tight, 6, 24)
<1>1. FitHash(p, hint) = [p EXCEPT !.hash_log = h]
  BY Zenon DEF FitHash
<1>2. p.window_log \in 10..27 /\ p.hash_log \in 6..30
  BY ParamsHas
<1>3. p.hash_log \in Nat
  BY <1>2
<1>4. PICK v \in 11..28 : v = p.window_log + 1
  BY <1>2
<1>5. 6 \in Nat /\ 24 \in Nat /\ 6 <= 24
  OBVIOUS
<1>6. c \in 6..24
  BY <1>3, <1>5, ClampIs
<1> HIDE DEF c
<1>7. log \in Nat /\ log <= v
  <2>1. v \in Nat /\ c \in Nat
    BY <1>6, <1>4
  <2>2. Min({c, v}) \in Nat /\ Min({c, v}) <= v
    BY <2>1, MinOf
  <2> QED BY <1>4, <2>2
<1> HIDE DEF log
<1>8. known => s \in Nat
  <2>1. known => hint[1] \in Nat
    BY KnownIs, Zenon DEF Known
  <2> QED BY <2>1, SrcLogIs
<1> HIDE DEF known, s
<1>9. known => y \in Nat /\ y <= log
  BY <1>7, <1>8, MinOf
<1> HIDE DEF y
<1>10. tight \in Nat /\ tight <= log
  BY <1>7, <1>9
<1> HIDE DEF tight
<1>11. h \in 6..24 /\ h = IF tight < 6 THEN 6 ELSE IF tight > 24 THEN 24 ELSE tight
  BY <1>5, <1>10, ClampIs
<1> HIDE DEF h
<1>12. h <= v
  BY <1>7, <1>10, <1>11, <1>4
<1> DEFINE q == [p EXCEPT !.hash_log = h]
<1>13. q \in Params(10, 27, 30) /\ q.hash_log = h /\ q.window_log = p.window_log
  <2>1. h \in 6..30
    BY <1>11
  <2> QED BY <2>1, WithHash
<1> HIDE DEF q
<1>14. FitHash(p, hint) = q
  BY <1>1 DEF q
<1> QED BY <1>11, <1>12, <1>13, <1>14, <1>4

LEMMA WithChain ==
  ASSUME NEW p \in Params(10, 27, 30), NEW c \in 6..24
  PROVE  /\ [p EXCEPT !.chain_log = c] \in Params(10, 27, 30)
         /\ [p EXCEPT !.chain_log = c].chain_log = c
         /\ [p EXCEPT !.chain_log = c].window_log = p.window_log
         /\ [p EXCEPT !.chain_log = c].hash_log = p.hash_log
         /\ [p EXCEPT !.chain_log = c].strategy = p.strategy
         /\ p.hash_log \in 6..24 => [p EXCEPT !.chain_log = c] \in Params(10, 27, 24)
<1> DEFINE q == [p EXCEPT !.chain_log = c]
<1>1. c \in 6..30
  OBVIOUS
<1>2. /\ q \in Params(10, 27, 30) /\ q.chain_log = c /\ q.window_log = p.window_log
      /\ q.hash_log = p.hash_log /\ q.strategy = p.strategy
  BY <1>1 DEF Params
<1>3. ASSUME p.hash_log \in 6..24 PROVE q \in Params(10, 27, 24)
  BY <1>3 DEF Params
<1> QED BY <1>2, <1>3

LEMMA ChainFits ==
  ASSUME NEW c \in 6..24, NEW d \in {0, 1}, NEW w \in 10..27, NEW over \in Nat, NEW e,
         over = IF (c - d) - w >= 0 THEN (c - d) - w ELSE 0,
         e = IF c - over >= 6 THEN c - over ELSE 6
  PROVE  e \in 6..24 /\ e - d <= w
OBVIOUS

\* The chain is no longer than the window, the tree's two slots taken together.
LEMMA FitChainIs ==
  ASSUME NEW p \in Params(10, 27, 30), p.hash_log \in 6..24, p.hash_log <= p.window_log + 1
  PROVE  /\ FitChain(p) \in Params(10, 27, 24)
         /\ FitChain(p).window_log = p.window_log /\ FitChain(p).hash_log = p.hash_log
         /\ CycleLog(FitChain(p)) <= p.window_log
<1> DEFINE c == Min({p.chain_log, 24})
           d == IF p.strategy >= BtLazy2 THEN 1 ELSE 0
           q == [p EXCEPT !.chain_log = c]
           over == Max({CycleLog(q) - q.window_log, 0})
           e == Max({q.chain_log - over, 6})
           r == [q EXCEPT !.chain_log = e]
<1>1. FitChain(p) = r
  BY Zenon DEF FitChain
<1>2. p.window_log \in 10..27 /\ p.chain_log \in 6..30
  BY DEF Params
<1>3. d \in {0, 1}
  OBVIOUS
<1>4. c \in 6..24
  <2>1. 24 \in Nat /\ p.chain_log \in Nat
    BY <1>2
  <2>2. c = IF p.chain_log <= 24 THEN p.chain_log ELSE 24
    BY <2>1, TwoOf
  <2> HIDE DEF c
  <2> QED BY <1>2, <2>2
<1> HIDE DEF c
<1>5. /\ q \in Params(10, 27, 30) /\ q.chain_log = c /\ q.window_log = p.window_log
      /\ q.hash_log = p.hash_log /\ q.strategy = p.strategy
  BY <1>4, WithChain
<1> HIDE DEF q
<1>6. CycleLog(q) = c - d
  BY <1>5 DEF CycleLog
<1> HIDE DEF d
<1>7. PICK w \in 10..27 : w = p.window_log
  BY <1>2
<1>8. over \in Nat /\ over = IF (c - d) - w >= 0 THEN (c - d) - w ELSE 0
  <2>1. over = Max({(c - d) - w, 0})
    BY <1>5, <1>6, <1>7
  <2>2. (c - d) - w \in Int /\ 0 \in Nat
    BY <1>3, <1>4, <1>7
  <2> HIDE DEF over
  <2> DEFINE x == (c - d) - w
  <2>3. x \in Int /\ over = Max({x, 0})
    BY <2>1, <2>2
  <2> HIDE DEF x
  <2>4. over \in Nat /\ over = IF x >= 0 THEN x ELSE 0
    BY <2>2, <2>3, MaxOf
  <2> QED BY <2>4 DEF x
<1> HIDE DEF over
<1>9. e \in 6..24 /\ e - d <= w
  <2>1. c - over \in Nat /\ 6 \in Nat
    BY <1>3, <1>4, <1>7, <1>8
  <2> DEFINE x == c - over
  <2>2. x \in Nat /\ e = Max({x, 6})
    BY <1>5, <2>1
  <2> HIDE DEF e, x
  <2>3. e = IF x >= 6 THEN x ELSE 6
    BY <2>1, <2>2, TwoOf
  <2>4. e = IF c - over >= 6 THEN c - over ELSE 6
    BY <2>3 DEF x
  <2> QED BY <1>3, <1>4, <1>7, <1>8, <2>4, ChainFits
<1> HIDE DEF e
<1>10. /\ r.chain_log = e /\ r.window_log = q.window_log
       /\ r.hash_log = q.hash_log /\ r.strategy = q.strategy
       /\ r \in Params(10, 27, 24)
  <2>1. q.hash_log \in 6..24
    BY <1>5
  <2> QED BY <1>5, <1>9, <2>1, WithChain
<1> HIDE DEF r
<1>11. CycleLog(r) = e - d
  BY <1>5, <1>10 DEF CycleLog, d
<1> QED BY <1>1, <1>5, <1>7, <1>9, <1>10, <1>11

\* What compression_params gives, and how it fits a source of a known size.
Fitted == Params(10, 27, 24)

LEMMA ParamsFit ==
  ASSUME NEW level \in Levels, NEW hint \in Seq(Nat), Len(hint) <= 1
  PROVE  LET p == CompressionParams(level, hint) IN
         /\ p \in Fitted
         /\ hint # <<>> /\ hint[1] <= 256 * 1024 => Pow(2, p.window_log) >= hint[1]
         /\ p.hash_log <= p.window_log + 1
         /\ CycleLog(p) <= p.window_log
<1> DEFINE table == TableForSize(hint)
           a == LevelParams(level, table)
           b == FitWindow(a, hint)
           c == FitHash(b, hint)
           d == FitChain(c)
           m == Clamp(d.min_match, 3, 7)
           p == CompressionParams(level, hint)
<1>1. PICK low \in 14..27 : /\ \E high \in 14..27 : TableIn(table, low, high)
                            /\ hint # <<>> /\ hint[1] <= 256 * 1024 => hint[1] <= Pow(2, low)
  BY TableForIs
<1>2. PICK high \in 14..27 : TableIn(table, low, high)
  BY <1>1
<1> HIDE DEF table
<1>3. a \in Params(low, high, 30)
  <2>1. low \in Nat /\ high \in Nat
    OBVIOUS
  <2> QED BY <1>2, <2>1, LevelParamsAre, Zenon
<1> HIDE DEF a
<1>4. /\ b \in Params(10, 27, 30)
      /\ hint # <<>> /\ hint[1] <= 256 * 1024 => Pow(2, b.window_log) >= hint[1]
  BY <1>1, <1>3, FitWindowIs
<1> HIDE DEF b
<1>5. c \in Params(10, 27, 30) /\ c.hash_log \in 6..24 /\ c.window_log = b.window_log
      /\ c.hash_log <= b.window_log + 1
  BY <1>4, FitHashIs
<1> HIDE DEF c
<1>6. d \in Fitted /\ d.window_log = c.window_log /\ d.hash_log = c.hash_log /\ CycleLog(d) <= c.window_log
  <2>1. c.hash_log <= c.window_log + 1
    BY <1>5
  <2> QED BY <1>5, <2>1, FitChainIs DEF Fitted
<1>7. p = [d EXCEPT !.min_match = m]
  BY Zenon DEF CompressionParams, a, b, c, d, table
<1> HIDE DEF d, p
<1>8. m = d.min_match
  <2>1. d.min_match \in 3..7
    BY <1>6 DEF Fitted, Params
  <2>2. d.min_match \in Nat /\ 3 \in Nat /\ 7 \in Nat /\ 3 <= 7
    BY <2>1
  <2>3. m = IF d.min_match < 3 THEN 3 ELSE IF d.min_match > 7 THEN 7 ELSE d.min_match
    BY <2>2, ClampIs
  <2> HIDE DEF m
  <2> QED BY <2>1, <2>3
<1> HIDE DEF m
<1>9. p = d
  <2>1. [d EXCEPT !.min_match = d.min_match] = d
    BY <1>6 DEF Fitted, Params
  <2> QED BY <1>7, <1>8, <2>1, Zenon
<1>10. CycleLog(p) <= p.window_log /\ p.hash_log <= p.window_log + 1
  BY <1>5, <1>6, <1>9
<1>11. p.window_log = b.window_log
  BY <1>5, <1>6, <1>9
<1> QED BY <1>4, <1>6, <1>9, <1>10, <1>11 DEF p

\* A number inside of its bounds is not clamped.
LEMMA Inside ==
  ASSUME NEW low \in Nat, NEW high \in Nat, NEW n \in Nat, low <= n, n <= high
  PROVE  Clamp(n, low, high) = n
<1>1. low <= high
  OBVIOUS
<1>2. Clamp(n, low, high) = IF n < low THEN low ELSE IF n > high THEN high ELSE n
  BY <1>1, ClampIs
<1> QED BY <1>2

\* Parameters that fit are not clamped.
LEMMA ClampedIs ==
  ASSUME NEW p \in Fitted
  PROVE  Clamped(p) = p
<1> DEFINE w == Clamp(p.window_log, 10, 31)
           c == Clamp(p.chain_log, 6, 30)
           h == Clamp(p.hash_log, 6, 30)
           s == Clamp(p.search_log, 1, 30)
           m == Clamp(p.min_match, 3, 7)
           t == Min({p.target_length, BlockMaxBytes})
<1>1. /\ p.window_log \in 10..27 /\ p.chain_log \in 6..24 /\ p.hash_log \in 6..24
      /\ p.search_log \in 1..30 /\ p.min_match \in 3..7 /\ p.target_length \in 0..999
      /\ p.strategy \in 1..9
  BY DEF Fitted, Params
<1>2. Clamped(p) = [p EXCEPT !.window_log = w, !.chain_log = c, !.hash_log = h, !.search_log = s,
                             !.min_match = m, !.target_length = t]
  BY Zenon DEF Clamped
<1>3. w = p.window_log
  BY <1>1, Inside
<1>4. c = p.chain_log /\ h = p.hash_log
  BY <1>1, Inside
<1>5. s = p.search_log
  BY <1>1, Inside
<1>6. m = p.min_match
  BY <1>1, Inside
<1>7. t = p.target_length
  <2>1. BlockMaxBytes = 128 * 1024
    BY TwoPowers DEF BlockMaxBytes
  <2>2. BlockMaxBytes \in Nat /\ p.target_length \in Nat /\ p.target_length <= BlockMaxBytes
    BY <1>1, <2>1
  <2>3. t = IF p.target_length <= BlockMaxBytes THEN p.target_length ELSE BlockMaxBytes
    BY <2>2, TwoOf
  <2> HIDE DEF t
  <2> QED BY <2>2, <2>3
<1> HIDE DEF w, c, h, s, m, t
<1>8. [p EXCEPT !.window_log = p.window_log, !.chain_log = p.chain_log, !.hash_log = p.hash_log,
                !.search_log = p.search_log, !.min_match = p.min_match,
                !.target_length = p.target_length] = p
  BY DEF Fitted, Params
<1> QED BY <1>2, <1>3, <1>4, <1>5, <1>6, <1>7, <1>8, Zenon

-----------------------------------------------------------------------------
(* What an option string sets. *)

\* The first k fields of p, the others of o.
Mixed(o, p, k) ==
  [window_log |-> IF k >= 1 THEN p.window_log ELSE o.window_log,
   chain_log |-> IF k >= 2 THEN p.chain_log ELSE o.chain_log,
   hash_log |-> IF k >= 3 THEN p.hash_log ELSE o.hash_log,
   search_log |-> IF k >= 4 THEN p.search_log ELSE o.search_log,
   min_match |-> IF k >= 5 THEN p.min_match ELSE o.min_match,
   target_length |-> IF k >= 6 THEN p.target_length ELSE o.target_length,
   strategy |-> IF k >= 7 THEN p.strategy ELSE o.strategy]

LEMMA MixedIs ==
  ASSUME NEW o \in Fitted, NEW p \in Fitted
  PROVE  /\ Mixed(o, p, 0) = o /\ Mixed(o, p, 7) = p
         /\ \A k \in 0..7 : Mixed(o, p, k) # <<>>
<1>1. Mixed(o, p, 0) = o
  BY DEF Mixed, Fitted, Params
<1>2. Mixed(o, p, 7) = p
  BY DEF Mixed, Fitted, Params
<1>3. ASSUME NEW k \in 0..7 PROVE Mixed(o, p, k) # <<>>
  BY DEF Mixed
<1> QED BY <1>1, <1>2, <1>3

LEMMA MaxIs ==
  ASSUME NEW low \in Nat, NEW n \in Nat, low <= n
  PROVE  Max({n, low}) = n
BY TwoOf

\* A field at a time.
Sets(o, p, k, key, value) == ApplyKV(Mixed(o, p, k - 1), key, value) = Mixed(o, p, k)

LEMMA SetsAll ==
  ASSUME NEW o \in Fitted, NEW p \in Fitted
  PROVE  /\ Sets(o, p, 1, "windowLog", p.window_log) /\ Sets(o, p, 2, "chainLog", p.chain_log)
         /\ Sets(o, p, 3, "hashLog", p.hash_log) /\ Sets(o, p, 4, "searchLog", p.search_log)
         /\ Sets(o, p, 5, "minMatch", p.min_match) /\ Sets(o, p, 6, "targetLength", p.target_length)
         /\ Sets(o, p, 7, "strategy", p.strategy)
<1>1. /\ p.window_log \in 10..27 /\ p.chain_log \in 6..24 /\ p.hash_log \in 6..24
      /\ p.search_log \in 1..30 /\ p.min_match \in 3..7 /\ p.target_length \in 0..999
      /\ p.strategy \in 1..9
  BY DEF Fitted, Params
<1>2. /\ Max({p.window_log, 10}) = p.window_log /\ Max({p.chain_log, 6}) = p.chain_log
      /\ Max({p.hash_log, 6}) = p.hash_log /\ Max({p.search_log, 1}) = p.search_log
      /\ Max({p.target_length, 0}) = p.target_length
  <2>1. Max({p.window_log, 10}) = p.window_log
    BY <1>1, MaxIs
  <2>2. Max({p.chain_log, 6}) = p.chain_log /\ Max({p.hash_log, 6}) = p.hash_log
    BY <1>1, MaxIs
  <2>3. Max({p.search_log, 1}) = p.search_log
    BY <1>1, MaxIs
  <2>4. Max({p.target_length, 0}) = p.target_length
    <3>1. p.target_length \in Nat /\ 0 \in Nat /\ 0 <= p.target_length
      BY <1>1
    <3> QED BY <3>1, MaxIs, Zenon
  <2> QED BY <2>1, <2>2, <2>3, <2>4
<1>3. CastClamp(p.min_match, 3, 7) = p.min_match
  BY <1>1, Inside DEF CastClamp
<1>4. Sets(o, p, 1, "windowLog", p.window_log)
  <2>1. \A q : ApplyKV(q, "windowLog", p.window_log) = [q EXCEPT !.window_log = p.window_log]
    BY <1>2 DEF ApplyKV
  <2>2. [Mixed(o, p, 1 - 1) EXCEPT !.window_log = p.window_log] = Mixed(o, p, 1)
    BY DEF Mixed
  <2> QED BY <2>1, <2>2, Zenon DEF Sets
<1>5. Sets(o, p, 2, "chainLog", p.chain_log)
  <2>1. \A q : ApplyKV(q, "chainLog", p.chain_log) = [q EXCEPT !.chain_log = p.chain_log]
    BY <1>2 DEF ApplyKV
  <2>2. [Mixed(o, p, 2 - 1) EXCEPT !.chain_log = p.chain_log] = Mixed(o, p, 2)
    BY DEF Mixed
  <2> QED BY <2>1, <2>2, Zenon DEF Sets
<1>6. Sets(o, p, 3, "hashLog", p.hash_log)
  <2>1. \A q : ApplyKV(q, "hashLog", p.hash_log) = [q EXCEPT !.hash_log = p.hash_log]
    BY <1>2 DEF ApplyKV
  <2>2. [Mixed(o, p, 3 - 1) EXCEPT !.hash_log = p.hash_log] = Mixed(o, p, 3)
    BY DEF Mixed
  <2> QED BY <2>1, <2>2, Zenon DEF Sets
<1>7. Sets(o, p, 4, "searchLog", p.search_log)
  <2>1. \A q : ApplyKV(q, "searchLog", p.search_log) = [q EXCEPT !.search_log = p.search_log]
    BY <1>2 DEF ApplyKV
  <2>2. [Mixed(o, p, 4 - 1) EXCEPT !.search_log = p.search_log] = Mixed(o, p, 4)
    BY DEF Mixed
  <2> QED BY <2>1, <2>2, Zenon DEF Sets
<1>8. Sets(o, p, 5, "minMatch", p.min_match)
  <2>1. \A q : ApplyKV(q, "minMatch", p.min_match) = [q EXCEPT !.min_match = p.min_match]
    BY <1>3 DEF ApplyKV
  <2>2. [Mixed(o, p, 5 - 1) EXCEPT !.min_match = p.min_match] = Mixed(o, p, 5)
    BY DEF Mixed
  <2> QED BY <2>1, <2>2, Zenon DEF Sets
<1>9. Sets(o, p, 6, "targetLength", p.target_length)
  <2>1. \A q : ApplyKV(q, "targetLength", p.target_length) = [q EXCEPT !.target_length = p.target_length]
    BY <1>2 DEF ApplyKV
  <2>2. [Mixed(o, p, 6 - 1) EXCEPT !.target_length = p.target_length] = Mixed(o, p, 6)
    BY DEF Mixed
  <2> QED BY <2>1, <2>2, Zenon DEF Sets
<1>10. Sets(o, p, 7, "strategy", p.strategy)
  <2>1. \A q : ApplyKV(q, "strategy", p.strategy) = [q EXCEPT !.strategy = p.strategy]
    BY <1>1 DEF ApplyKV
  <2>2. [Mixed(o, p, 7 - 1) EXCEPT !.strategy = p.strategy] = Mixed(o, p, 7)
    BY DEF Mixed
  <2> QED BY <2>1, <2>2, Zenon DEF Sets
<1> QED BY <1>4, <1>5, <1>6, <1>7, <1>8, <1>9, <1>10

\* The option string of parameters that fit sets them all.
LEMMA OptionsIs ==
  ASSUME NEW o \in Fitted, NEW p \in Fitted
  PROVE  ApplyOptions(o, OptionString(p)) = p
<1> DEFINE s == OptionString(p)
           next(q, i) == IF q = <<>> THEN <<>> ELSE ApplyKV(q, s[i][1], s[i][2])
           body(a) == [i \in 0..7 |-> IF i = 0 THEN o ELSE next(a[i - 1], i)]
           g == [i \in 0..7 |-> Mixed(o, p, i)]
           a == CHOOSE f : f = body(f)
<1>1. /\ Len(s) = 7
      /\ s[1] = <<"windowLog", p.window_log>> /\ s[2] = <<"chainLog", p.chain_log>>
      /\ s[3] = <<"hashLog", p.hash_log>> /\ s[4] = <<"searchLog", p.search_log>>
      /\ s[5] = <<"minMatch", p.min_match>> /\ s[6] = <<"targetLength", p.target_length>>
      /\ s[7] = <<"strategy", p.strategy>>
  BY DEF OptionString
<1>2. \A i \in 1..7 : Sets(o, p, i, s[i][1], s[i][2])
  <2>1. /\ Sets(o, p, 1, s[1][1], s[1][2]) /\ Sets(o, p, 2, s[2][1], s[2][2])
        /\ Sets(o, p, 3, s[3][1], s[3][2]) /\ Sets(o, p, 4, s[4][1], s[4][2])
        /\ Sets(o, p, 5, s[5][1], s[5][2]) /\ Sets(o, p, 6, s[6][1], s[6][2])
        /\ Sets(o, p, 7, s[7][1], s[7][2])
    <3> HIDE DEF s
    <3> QED BY <1>1, SetsAll
  <2> HIDE DEF s
  <2>2. \A i \in 1..7 : i = 1 \/ i = 2 \/ i = 3 \/ i = 4 \/ i = 5 \/ i = 6 \/ i = 7
    OBVIOUS
  <2> QED BY <2>1, <2>2, Zenon
<1>3. ApplyOptions(o, s) = a[7]
  <2>1. ApplyOptions(o, s) = LET f[i \in 0..7] == IF i = 0 THEN o ELSE next(f[i - 1], i) IN f[7]
    <3> HIDE DEF s
    <3> QED BY <1>1, Zenon DEF ApplyOptions
  <2> QED BY <2>1, Zenon
<1> HIDE DEF s
<1>4. g = body(g)
  <2>1. ASSUME NEW i \in 0..7 PROVE g[i] = IF i = 0 THEN o ELSE next(g[i - 1], i)
    <3>1. CASE i = 0
      BY <3>1, MixedIs
    <3>2. CASE i # 0
      <4>1. i \in 1..7 /\ i - 1 \in 0..7
        BY <3>2
      <4>2. g[i - 1] = Mixed(o, p, i - 1) /\ g[i] = Mixed(o, p, i)
        BY <4>1
      <4>3. Mixed(o, p, i - 1) # <<>>
        BY <4>1, MixedIs
      <4>4. ApplyKV(Mixed(o, p, i - 1), s[i][1], s[i][2]) = Mixed(o, p, i)
        BY <1>2, <4>1, Zenon DEF Sets
      <4> HIDE DEF g
      <4> QED BY <3>2, <4>2, <4>3, <4>4, Zenon
    <3> QED BY <3>1, <3>2
  <2>2. g = [i \in 0..7 |-> g[i]]
    OBVIOUS
  <2> HIDE DEF g, next
  <2> QED BY <2>1, <2>2
<1>5. a = body(a)
  <2> HIDE DEF body, g
  <2> QED BY <1>4
<1>6. a[0] = o /\ \A i \in 1..7 : a[i] = next(a[i - 1], i)
  <2>1. \A i \in 0..7 : body(a)[i] = IF i = 0 THEN o ELSE next(a[i - 1], i)
    <3> HIDE DEF a, next
    <3> QED OBVIOUS
  <2> HIDE DEF a, body, next
  <2>2. \A i \in 0..7 : a[i] = IF i = 0 THEN o ELSE next(a[i - 1], i)
    BY <1>5, <2>1
  <2>3. 0 \in 0..7 /\ \A i \in 1..7 : i \in 0..7 /\ i # 0
    OBVIOUS
  <2> QED BY <2>2, <2>3, Zenon
<1> HIDE DEF a, body
<1> DEFINE S == {i \in 0..7 : a[i] = Mixed(o, p, i)}
<1>7. 0 \in S
  BY <1>6, MixedIs
<1>8. ASSUME NEW i \in 1..7, i - 1 \in S PROVE i \in S
  <2>1. a[i - 1] = Mixed(o, p, i - 1) /\ i - 1 \in 0..7 /\ i \in 0..7
    BY <1>8
  <2>2. a[i] = next(Mixed(o, p, i - 1), i)
    BY <1>6, <2>1
  <2>3. Mixed(o, p, i - 1) # <<>>
    BY <2>1, MixedIs
  <2>4. ApplyKV(Mixed(o, p, i - 1), s[i][1], s[i][2]) = Mixed(o, p, i)
    BY <1>2, Zenon DEF Sets
  <2>5. a[i] = Mixed(o, p, i)
    BY <2>2, <2>3, <2>4, Zenon
  <2> QED BY <2>1, <2>5
<1>9. 7 \in S
  <2> HIDE DEF S
  <2>1. \A i \in 0..7 : i \in S
    BY <1>7, <1>8, Throughout
  <2> QED BY <2>1
<1> QED BY <1>3, <1>9, MixedIs DEF s

\* The parameters of a level are in range, cover the source and are all set.
LEMMA LevelIs ==
  ASSUME NEW level \in Levels, NEW hint \in Seq(Nat), Len(hint) <= 1, NEW other \in Fitted
  PROVE  LevelInRange(level, hint, other)
<1> DEFINE p == CompressionParams(level, hint)
<1>1. /\ p \in Fitted
      /\ hint # <<>> /\ hint[1] <= 256 * 1024 => Pow(2, p.window_log) >= hint[1]
      /\ p.hash_log <= p.window_log + 1
      /\ CycleLog(p) <= p.window_log
  BY ParamsFit, Zenon
<1> HIDE DEF p
<1>2. Clamped(p) = p /\ ApplyOptions(other, OptionString(p)) = p
  BY <1>1, ClampedIs, OptionsIs
<1> QED BY <1>1, <1>2, Zenon DEF LevelInRange, p

-----------------------------------------------------------------------------
(* Headers and levels are honoured. *)

\* What is taken up as a header or a level are arguments the code may be called with.
ArgsTaken ==
  /\ "kind" \in DOMAIN input
  /\ input.kind = "header" =>
       input.of.h \in HeaderOf /\ Fits(input.of.h) /\ input.of.target_cblock_size \in Nat
  /\ input.kind = "level" =>
       input.of.level \in Levels /\ input.of.hint \in Seq(Nat) /\ Len(input.of.hint) <= 1

LEMMA ArgsInit == Init => ArgsTaken
BY DEF Init, Idle, ArgsTaken

LEMMA ArgsStep == ArgsTaken /\ [Next]_input => ArgsTaken'
<1> SUFFICES ASSUME ArgsTaken, [Next]_input PROVE ArgsTaken'
  OBVIOUS
<1>1. CASE TakeHeader
  <2>1. PICK of \in HeaderArgs : input' = [kind |-> "header", of |-> of]
    BY <1>1 DEF TakeHeader
  <2>2. of \in [h : HeaderOf, target_cblock_size : Nat] /\ Fits(of.h)
    BY FormatsAssumption DEF HeaderArg, HeaderOf
  <2> DEFINE X == HeaderOf
  <2>3. of \in [h : X, target_cblock_size : Nat]
    BY <2>2
  <2> HIDE DEF X
  <2>4. of.h \in X /\ of.target_cblock_size \in Nat
    BY <2>3
  <2>5. input'.kind = "header" /\ input'.of = of /\ "kind" \in DOMAIN input'
    BY <2>1
  <2>6. input'.kind # "level"
    BY <2>5
  <2> QED BY <2>2, <2>4, <2>5, <2>6, Zenon DEF ArgsTaken, X
<1>2. CASE TakeLevel
  <2>1. PICK of \in LevelArgs : input' = [kind |-> "level", of |-> of]
    BY <1>2 DEF TakeLevel
  <2>2. of.level \in Levels /\ of.hint \in Seq(Nat) /\ Len(of.hint) <= 1
    BY FormatsAssumption
  <2>3. input'.kind = "level" /\ input'.of = of /\ "kind" \in DOMAIN input'
    BY <2>1
  <2>4. input'.kind # "header"
    BY <2>3
  <2> QED BY <2>2, <2>3, <2>4, Zenon DEF ArgsTaken
<1>3. CASE TakeSource \/ TakeBlob \/ TakeContent
  <2>1. input'.kind # "header" /\ input'.kind # "level" /\ "kind" \in DOMAIN input'
    BY <1>3 DEF TakeSource, TakeBlob, TakeContent
  <2> QED BY <2>1 DEF ArgsTaken
<1>4. CASE input.kind = "content" /\ TakePart
  <2>1. input'.kind = input.kind /\ "kind" \in DOMAIN input'
    BY <1>4 DEF TakePart, ArgsTaken
  <2> QED BY <1>4, <2>1 DEF ArgsTaken
<1>5. CASE input' = Idle
  BY <1>5 DEF ArgsTaken, Idle
<1>6. CASE UNCHANGED input
  BY <1>6 DEF ArgsTaken
<1> QED BY <1>1, <1>2, <1>3, <1>4, <1>5, <1>6 DEF Next

LEMMA ArgsHonoured == ArgsTaken => HeadersHonoured
<1> SUFFICES ASSUME ArgsTaken PROVE HeadersHonoured
  OBVIOUS
<1>1. ASSUME input.kind = "header"
      PROVE  HeaderReadsBack(input.of.h) /\ BlocksFit(input.of.h, input.of.target_cblock_size)
  BY <1>1, HeaderBack, BlocksAre, Zenon DEF ArgsTaken
<1>2. ASSUME input.kind = "level"
      PROVE  LevelInRange(input.of.level, input.of.hint, CompressionParams(3, <<>>))
  <2>1. 3 \in Levels /\ <<>> \in Seq(Nat) /\ Len(<<>>) <= 1
    BY DEF Levels
  <2>2. CompressionParams(3, <<>>) \in Fitted
    BY <2>1, ParamsFit, Zenon
  <2> QED BY <1>2, <2>2, LevelIs, Zenon DEF ArgsTaken
<1> QED BY <1>1, <1>2 DEF HeadersHonoured

\* What a decoder reads of a header is what was written, for every size, dictionary
\* and window; every block may be as large as frame_block_max makes it; and the
\* parameters of every level are in range for a source of every size.
THEOREM HeadersHonouredHolds == Spec => []HeadersHonoured
<1>1. ArgsTaken /\ UNCHANGED input => ArgsTaken'
  BY DEF ArgsTaken
<1> QED BY <1>1, ArgsInit, ArgsStep, ArgsHonoured, PTL DEF Spec
=============================================================================
