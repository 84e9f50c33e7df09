-------------------------- MODULE MatchSearch_proofs --------------------------
(***************************************************************************)
(* Proofs about the search for the sequences of a block, for every content *)
(* and history, window, block length, table size, minimum and margin, and  *)
(* for every finder: that what is found gives the block back.              *)
(*                                                                         *)
(* The argument.  A world (World) is what a decoder's answer depends on.   *)
(* Sequences and literals are Rebuilt from one position to another if each *)
(* sequence leads from where the last one ended, over literals that are    *)
(* the bytes there, to the end of a copy the decoder accepts and that is   *)
(* right (CanCopy).  Three lemmas make such sequences out of smaller ones  *)
(* (RebuiltLits, RebuiltSeq, RebuiltJoin), and one says what a decoder     *)
(* makes of them (ExecuteAllIs).  Whatever is in a table when it is read,  *)
(* a position only becomes a match if it lies in what may be reached and   *)
(* agrees (LongestIs, LengthAtIs), and drawing it back keeps that          *)
(* (TakenIs); a repeat offset is a distance that fits, wherever it came    *)
(* from (RepCopyIs, RepPickIs).  IInv says what is in hand between two     *)
(* steps; each action keeps it.                                            *)
(*                                                                         *)
(* The last part is about rsync_sections, the other half of ldm.rs: two    *)
(* cuttings that have met beyond an edit stay together.                    *)
(***************************************************************************)
EXTENDS MatchSearch, RsyncEdit, SequenceTheorems, WellFoundedInduction, NaturalsInduction, TLAPS

-----------------------------------------------------------------------------
(* Numbers, and the greatest of those for which a test holds throughout. *)

\* The saturating and the clipping operators, as numbers.
LEMMA Bounded ==
  ASSUME NEW a \in Int, NEW b \in Int
  PROVE  /\ Lower(a, b) \in Int /\ Lower(a, b) <= a /\ Lower(a, b) <= b /\ Lower(a, b) \in {a, b}
         /\ Upper(a, b) \in Int /\ Upper(a, b) >= a /\ Upper(a, b) >= b /\ Upper(a, b) \in {a, b}
         /\ Above(a, b) \in Nat /\ Above(a, b) >= a - b /\ (a > b => Above(a, b) = a - b)
         /\ (a <= b => Above(a, b) = 0)
  BY DEF Lower, Upper, Above

\* A set of naturals that is not empty has a least member.
LEMMA LeastOf ==
  ASSUME NEW T \in SUBSET Nat, T # {}
  PROVE  \E x \in T : \A y \in T : x <= y
<1>1. \E R : IsWellFoundedOn(R, Nat) /\ \A x, y \in Nat : <<y, x>> \in R <=> y < x
  <2> DEFINE R == OpToRel(<, Nat)
  <2>1. IsWellFoundedOn(R, Nat)
    BY NatLessThanWellFounded
  <2>2. \A x, y \in Nat : <<y, x>> \in R <=> y < x
    BY DEF OpToRel
  <2> HIDE DEF R
  <2> QED BY <2>1, <2>2, Zenon
<1>2. PICK R : IsWellFoundedOn(R, Nat) /\ \A x, y \in Nat : <<y, x>> \in R <=> y < x
  BY <1>1, Zenon
<1>3. PICK x \in T : \A y \in T : ~(<<y, x>> \in R)
  BY <1>2, WFMin, Zenon
<1>4. \A y \in T : ~(y < x)
  BY <1>2, <1>3
<1> QED BY <1>3, <1>4

\* Induction over the naturals, for a set.
LEMMA NatSet ==
  ASSUME NEW S \in SUBSET Nat, 0 \in S, \A n \in S : n + 1 \in S
  PROVE  S = Nat
<1> DEFINE T == Nat \ S
<1>1. SUFFICES ASSUME T # {} PROVE FALSE
  OBVIOUS
<1>2. PICK x \in T : \A y \in T : x <= y
  <2> T \in SUBSET Nat
    OBVIOUS
  <2> HIDE DEF T
  <2> QED BY <1>1, LeastOf
<1>3. x \in Nat \ {0}
  OBVIOUS
<1>4. x - 1 \in Nat /\ x - 1 < x /\ (x - 1) + 1 = x
  BY <1>3
<1>5. x - 1 \in S
  BY <1>2, <1>4
<1> QED BY <1>4, <1>5

\* How long a stretch of the members of E there is from 0 on, up to `most`.
LEMMA Stretch ==
  ASSUME NEW most \in Nat, NEW E
  PROVE  \E n \in 0..most : (\A k \in 0..(n - 1) : k \in E) /\ (n < most => n \notin E)
<1> DEFINE T == {n \in 0..most : n = most \/ n \notin E}
<1>1. most \in T /\ T \in SUBSET Nat
  OBVIOUS
<1>2. PICK n \in T : \A y \in T : n <= y
  BY <1>1, LeastOf
<1>3. \A k \in 0..(n - 1) : k \in E
  BY <1>2
<1> QED BY <1>2, <1>3

\* count_match stops where the bytes differ.
LEMMA MatchLengthIs ==
  ASSUME NEW m, NEW ip \in Int, NEW end \in Int, ip <= end
  PROVE  /\ MatchLength(m, ip, end) \in 0..(end - ip)
         /\ Equal(m, ip, MatchLength(m, ip, end))
<1> DEFINE E == {k \in Nat : At(m + k) = At(ip + k)}
<1>1. end - ip \in Nat
  OBVIOUS
<1>2. PICK n \in 0..(end - ip) : (\A k \in 0..(n - 1) : k \in E) /\ (n < end - ip => n \notin E)
  BY <1>1, Stretch
<1>3. Equal(m, ip, n)
  BY <1>2 DEF Equal
<1>4. ip + n < end => At(m + n) # At(ip + n)
  BY <1>2
<1> QED BY <1>3, <1>4 DEF MatchLength

\* Nothing is drawn back over that does not agree.
AgreeBack(m, p, n) == \A k \in 0..(n - 1) : At(m - 1 - k) = At(p - 1 - k)

\* A match is drawn back no further than the last sequence and what may be reached,
\* over bytes that agree.
LEMMA BackIs ==
  ASSUME NEW s \in Int, NEW m \in Int, NEW floor \in Int,
         piece.anchor \in Int, piece.anchor <= s, floor <= m
  PROVE  /\ Back(s, m, floor) \in Nat
         /\ Back(s, m, floor) <= s - piece.anchor /\ Back(s, m, floor) <= m - floor
         /\ AgreeBack(m, s, Back(s, m, floor))
<1> DEFINE most == Lower(s - piece.anchor, m - floor)
           E == {k \in Nat : At(m - 1 - k) = At(s - 1 - k)}
           Q(n) == /\ \A k \in 0..(n - 1) : At(m - 1 - k) = At(s - 1 - k)
                   /\ n < most => At(m - 1 - n) # At(s - 1 - n)
<1>1. most \in Nat /\ most <= s - piece.anchor /\ most <= m - floor
  BY DEF Lower
<1>2. PICK n \in 0..most : (\A k \in 0..(n - 1) : k \in E) /\ (n < most => n \notin E)
  <2> HIDE DEF most, E
  <2> QED BY <1>1, Stretch
<1>3. Q(n)
  <2> HIDE DEF most
  <2> QED BY <1>1, <1>2
<1>4. Back(s, m, floor) = CHOOSE x \in 0..most : Q(x)
  BY DEF Back
<1>5. Back(s, m, floor) \in 0..most /\ Q(Back(s, m, floor))
  <2> HIDE DEF most, Q
  <2> QED BY <1>3, <1>4
<1>6. AgreeBack(m, s, Back(s, m, floor))
  BY <1>5 DEF AgreeBack
<1> HIDE DEF most
<1> QED BY <1>1, <1>5, <1>6

-----------------------------------------------------------------------------
(* What a decoder may be told, apart from any state.  A world is the data, *)
(* what of it has left the workspace, how far back anything may reach and  *)
(* where the content begins.                                               *)

World == [data |-> data, dropped |-> dropped, start |-> FrameStart, content |-> PayloadAt]
WorldOK(w) ==
  /\ w.data \in Seq(Nat) /\ w.dropped \in Nat
  /\ w.start \in Int /\ w.dropped + w.start >= 0 /\ w.content \in Int

Byte(w, p) == w.data[w.dropped + p + 1]
Same(w, m, p, n) == \A k \in 0..(n - 1) : Byte(w, m + k) = Byte(w, p + k)

\* A copy of len bytes from o back is the right one at p, and one the decoder accepts.
Reaches(w, o, p) ==
  /\ o \in Nat \ {0} /\ p - o >= w.start
  /\ p - o >= w.content => o <= Window
CanCopy(w, p, len, o) == len \in Nat /\ Reaches(w, o, p) /\ Same(w, p - o, p, len)

Sequence == [lit : Nat, len : Nat, off : Nat \ {0}]

\* The sequence s, with the literals from u on, leads from a to b.
Leads(w, s, lits, a, u, b, v) ==
  /\ v = u + s.lit /\ v <= Len(lits) /\ b = a + s.lit + s.len
  /\ \A i \in 1..s.lit : lits[u + i] = Byte(w, a + (i - 1))
  /\ CanCopy(w, a + s.lit, s.len, s.off)

\* Sequences and literals that give the bytes from `from` to `to`, the last match of
\* them up to `mid`: `at` says how far each sequence leads, `used` how many literals.
Marks(w, seqs, lits, from, mid, to, at, used) ==
  /\ at[0] = from /\ used[0] = 0 /\ at[Len(seqs)] = mid
  /\ Len(lits) = used[Len(seqs)] + (to - mid)
  /\ \A k \in 1..Len(seqs) : Leads(w, seqs[k], lits, at[k - 1], used[k - 1], at[k], used[k])
                             /\ at[k] <= mid
  /\ \A i \in 1..(to - mid) : lits[used[Len(seqs)] + i] = Byte(w, mid + (i - 1))
Rebuilt(w, seqs, lits, from, mid, to) ==
  /\ seqs \in Seq(Sequence) /\ lits \in Seq(Nat)
  /\ from \in Nat /\ mid \in Nat /\ to \in Nat /\ from <= mid /\ mid <= to
  /\ \E at, used \in [0..Len(seqs) -> Nat] : Marks(w, seqs, lits, from, mid, to, at, used)

\* Nothing gives back nothing.
LEMMA RebuiltEmpty ==
  ASSUME NEW w, NEW p \in Nat
  PROVE  Rebuilt(w, <<>>, <<>>, p, p, p)
<1> DEFINE at == [k \in 0..0 |-> p]  used == [k \in 0..0 |-> 0]
<1>1. at \in [0..Len(<<>>) -> Nat] /\ used \in [0..Len(<<>>) -> Nat]
  OBVIOUS
<1>2. Marks(w, <<>>, <<>>, p, p, p, at, used)
  BY DEF Marks
<1>3. \E a, u \in [0..Len(<<>>) -> Nat] : Marks(w, <<>>, <<>>, p, p, p, a, u)
  <2> HIDE DEF at, used
  <2> QED BY <1>1, <1>2
<1> QED BY <1>3 DEF Rebuilt

\* What is put behind some literals leaves them where they are.
LEMMA LimitBehind ==
  ASSUME NEW l \in Seq(Nat), NEW more \in Seq(Nat)
  PROVE  /\ l \o more \in Seq(Nat) /\ Len(l \o more) = Len(l) + Len(more)
         /\ \A i \in 1..Len(l) : (l \o more)[i] = l[i]
         /\ \A i \in 1..Len(more) : (l \o more)[Len(l) + i] = more[i]
<1>1. l \o more \in Seq(Nat) /\ Len(l \o more) = Len(l) + Len(more)
  OBVIOUS
<1>2. \A i \in 1..(Len(l) + Len(more)) :
        (l \o more)[i] = IF i <= Len(l) THEN l[i] ELSE more[i - Len(l)]
  OBVIOUS
<1>3. ASSUME NEW i \in 1..Len(more) PROVE (l \o more)[Len(l) + i] = more[i]
  <2>1. /\ Len(l) \in Nat /\ Len(l) + i \in 1..(Len(l) + Len(more))
        /\ ~(Len(l) + i <= Len(l)) /\ (Len(l) + i) - Len(l) = i
    OBVIOUS
  <2> QED BY <1>2, <2>1
<1>4. ASSUME NEW i \in 1..Len(l) PROVE (l \o more)[i] = l[i]
  BY <1>2
<1> QED BY <1>1, <1>3, <1>4

\* More literals behind a sequence's own change nothing for it.
LEMMA LeadsBefore ==
  ASSUME NEW w, NEW s \in Sequence, NEW l \in Seq(Nat), NEW more \in Seq(Nat),
         NEW a \in Nat, NEW u \in Nat, NEW b, NEW v, Leads(w, s, l, a, u, b, v)
  PROVE  Leads(w, s, l \o more, a, u, b, v)
<1>1. /\ Len(l \o more) = Len(l) + Len(more) /\ Len(l) \in Nat /\ Len(more) \in Nat
      /\ \A i \in 1..Len(l) : (l \o more)[i] = l[i]
  BY LimitBehind
<1>2. v = u + s.lit /\ v <= Len(l) /\ s.lit \in Nat
  BY DEF Leads, Sequence
<1>3. ASSUME NEW i \in 1..s.lit PROVE (l \o more)[u + i] = l[u + i]
  BY <1>1, <1>2
<1>4. v <= Len(l \o more)
  BY <1>1, <1>2
<1> QED BY <1>3, <1>4 DEF Leads

\* The literals of a second part are behind those of the first.
LEMMA LeadsBehind ==
  ASSUME NEW w, NEW s \in Sequence, NEW l \in Seq(Nat), NEW more \in Seq(Nat),
         NEW a \in Nat, NEW u \in Nat, NEW b, NEW v \in Nat, Leads(w, s, more, a, u, b, v)
  PROVE  Leads(w, s, l \o more, a, Len(l) + u, b, Len(l) + v)
<1>1. /\ Len(l \o more) = Len(l) + Len(more) /\ Len(l) \in Nat /\ Len(more) \in Nat
      /\ \A i \in 1..Len(more) : (l \o more)[Len(l) + i] = more[i]
  BY LimitBehind
<1>2. v = u + s.lit /\ v <= Len(more) /\ s.lit \in Nat
  BY DEF Leads, Sequence
<1>3. ASSUME NEW i \in 1..s.lit PROVE (l \o more)[(Len(l) + u) + i] = more[u + i]
  <2>1. u + i \in 1..Len(more) /\ (Len(l) + u) + i = Len(l) + (u + i)
    BY <1>1, <1>2
  <2> QED BY <1>1, <2>1
<1>4. Len(l) + v <= Len(l \o more) /\ Len(l) + v = (Len(l) + u) + s.lit
  <2> DEFINE a1 == Len(l)
             a2 == Len(more)
  <2>1. a1 \in Nat /\ a2 \in Nat /\ Len(l \o more) = a1 + a2
    BY <1>1
  <2> HIDE DEF a1, a2
  <2>2. v = u + s.lit /\ v <= a2 /\ s.lit \in Nat
    BY <1>2 DEF a2
  <2>3. a1 + v <= Len(l \o more)
    BY <2>1, <2>2
  <2>4. a1 + v = (a1 + u) + s.lit
    BY <2>1, <2>2
  <2> QED BY <2>3, <2>4 DEF a1
<1> QED BY <1>3, <1>4 DEF Leads

\* More literals.
LEMMA RebuiltLits ==
  ASSUME NEW w, NEW seqs, NEW lits, NEW from, NEW mid, NEW t, Rebuilt(w, seqs, lits, from, mid, t),
         NEW u \in Nat, t <= u, NEW more \in Seq(Nat), Len(more) = u - t,
         \A i \in 1..(u - t) : more[i] = Byte(w, t + (i - 1))
  PROVE  Rebuilt(w, seqs, lits \o more, from, mid, u)
<1>1. /\ seqs \in Seq(Sequence) /\ lits \in Seq(Nat)
      /\ from \in Nat /\ mid \in Nat /\ t \in Nat /\ from <= mid /\ mid <= t
  BY DEF Rebuilt
<1>2. PICK at, used \in [0..Len(seqs) -> Nat] : Marks(w, seqs, lits, from, mid, t, at, used)
  BY DEF Rebuilt
<1> DEFINE n == Len(seqs)
<1>3. n \in Nat /\ used[n] \in Nat
  <2>1. n \in Nat /\ n \in 0..n
    BY <1>1
  <2> QED BY <2>1
<1>4. Len(lits) = used[n] + (t - mid)
  BY <1>2 DEF Marks
<1>5. /\ lits \o more \in Seq(Nat) /\ Len(lits \o more) = Len(lits) + Len(more)
      /\ \A i \in 1..Len(lits) : (lits \o more)[i] = lits[i]
      /\ \A i \in 1..Len(more) : (lits \o more)[Len(lits) + i] = more[i]
  BY <1>1, LimitBehind
<1>6. ASSUME NEW k \in 1..n
      PROVE  /\ Leads(w, seqs[k], lits \o more, at[k - 1], used[k - 1], at[k], used[k])
             /\ at[k] <= mid
  <2>1. Leads(w, seqs[k], lits, at[k - 1], used[k - 1], at[k], used[k]) /\ at[k] <= mid
    BY <1>2 DEF Marks
  <2>2. k - 1 \in 0..n /\ seqs[k] \in Sequence
    BY <1>1
  <2>3. at[k - 1] \in Nat /\ used[k - 1] \in Nat
    BY <1>2, <2>2
  <2> QED BY <1>1, <2>1, <2>2, <2>3, LeadsBefore
<1>7. ASSUME NEW i \in 1..(u - mid) PROVE (lits \o more)[used[n] + i] = Byte(w, mid + (i - 1))
  <2>1. CASE i <= t - mid
    <3>1. i \in 1..(t - mid) /\ used[n] + i \in 1..Len(lits)
      BY <1>1, <1>3, <1>4, <2>1
    <3>2. lits[used[n] + i] = Byte(w, mid + (i - 1))
      BY <1>2, <3>1 DEF Marks
    <3> QED BY <1>5, <3>1, <3>2
  <2>2. CASE ~(i <= t - mid)
    <3> DEFINE j == i - (t - mid)
    <3>1. /\ j \in 1..(u - t) /\ j \in 1..Len(more) /\ used[n] + i = Len(lits) + j
          /\ t + (j - 1) = mid + (i - 1)
      <4> DEFINE a1 == Len(lits)
      <4>1. a1 \in Nat /\ a1 = used[n] + (t - mid) /\ Len(more) = u - t
        BY <1>1, <1>4
      <4>2. i \in Int /\ i > t - mid /\ i <= u - mid /\ i >= 1
        BY <1>1, <2>2
      <4> HIDE DEF a1
      <4>3. j \in 1..(u - t) /\ j \in 1..Len(more)
        BY <1>1, <4>1, <4>2
      <4>4. used[n] + i = a1 + j /\ t + (j - 1) = mid + (i - 1)
        BY <1>1, <1>3, <4>1, <4>2
      <4> QED BY <4>3, <4>4 DEF a1
    <3>2. (lits \o more)[Len(lits) + j] = more[j] /\ more[j] = Byte(w, t + (j - 1))
      BY <1>5, <3>1
    <3> QED BY <3>1, <3>2
  <2> QED BY <2>1, <2>2
<1>8. Len(lits \o more) = used[n] + (u - mid)
  BY <1>1, <1>3, <1>4, <1>5
<1>9. Marks(w, seqs, lits \o more, from, mid, u, at, used)
  <2>1. at[0] = from /\ used[0] = 0 /\ at[Len(seqs)] = mid
    BY <1>2 DEF Marks
  <2> QED BY <2>1, <1>6, <1>7, <1>8 DEF Marks
<1>10. mid <= u
  BY <1>1
<1> QED BY <1>1, <1>2, <1>5, <1>9, <1>10 DEF Rebuilt

\* One more sequence, of the literals since the last and a copy.
LEMMA RebuiltSeq ==
  ASSUME NEW w, NEW seqs, NEW lits, NEW from, NEW mid, NEW t, Rebuilt(w, seqs, lits, from, mid, t),
         NEW len, NEW o, CanCopy(w, t, len, o), NEW lit, lit = t - mid
  PROVE  Rebuilt(w, Append(seqs, [lit |-> lit, len |-> len, off |-> o]), lits, from, t + len, t + len)
<1>1. /\ seqs \in Seq(Sequence) /\ lits \in Seq(Nat)
      /\ from \in Nat /\ mid \in Nat /\ t \in Nat /\ from <= mid /\ mid <= t
  BY DEF Rebuilt
<1>2. PICK at, used \in [0..Len(seqs) -> Nat] : Marks(w, seqs, lits, from, mid, t, at, used)
  BY DEF Rebuilt
<1> DEFINE n == Len(seqs)
           s == [lit |-> lit, len |-> len, off |-> o]
           more == Append(seqs, s)
           at2 == [k \in 0..(n + 1) |-> IF k <= n THEN at[k] ELSE t + len]
           used2 == [k \in 0..(n + 1) |-> IF k <= n THEN used[k] ELSE Len(lits)]
<1>3. n \in Nat /\ used[n] \in Nat /\ Len(lits) \in Nat /\ at[n] = mid
  <2>1. n \in Nat /\ n \in 0..n /\ Len(lits) \in Nat
    BY <1>1
  <2>2. at[n] = mid
    BY <1>2 DEF Marks
  <2> QED BY <2>1, <2>2
<1>4. Len(lits) = used[n] + (t - mid)
  BY <1>2 DEF Marks
<1>5. len \in Nat /\ o \in Nat \ {0} /\ s \in Sequence /\ s.lit = lit /\ s.len = len /\ s.off = o
  BY <1>1 DEF CanCopy, Reaches, Sequence
<1>6. /\ more \in Seq(Sequence) /\ Len(more) = n + 1
      /\ more[n + 1] = s /\ \A k \in 1..n : more[k] = seqs[k]
  <2> HIDE DEF s
  <2> QED BY <1>1, <1>5
<1>7. /\ at2 \in [0..(n + 1) -> Nat] /\ used2 \in [0..(n + 1) -> Nat]
      /\ \A k \in 0..n : at2[k] = at[k] /\ used2[k] = used[k]
      /\ at2[n + 1] = t + len /\ used2[n + 1] = Len(lits)
  BY <1>1, <1>3, <1>5
<1> HIDE DEF at2, used2, more, s
<1>8. ASSUME NEW k \in 1..(n + 1)
      PROVE  /\ Leads(w, more[k], lits, at2[k - 1], used2[k - 1], at2[k], used2[k])
             /\ at2[k] <= t + len
  <2>1. CASE k <= n
    <3>1. k \in 1..n /\ k - 1 \in 0..n /\ k \in 0..n
      BY <1>3, <2>1
    <3>2. Leads(w, seqs[k], lits, at[k - 1], used[k - 1], at[k], used[k]) /\ at[k] <= mid
      BY <1>2, <3>1 DEF Marks
    <3>3. at[k] <= t + len
      <4>1. at[k] \in Nat
        BY <1>2, <3>1
      <4> QED BY <1>1, <1>5, <3>2, <4>1
    <3>4. /\ more[k] = seqs[k] /\ at2[k - 1] = at[k - 1] /\ at2[k] = at[k]
          /\ used2[k - 1] = used[k - 1] /\ used2[k] = used[k]
      BY <1>6, <1>7, <3>1
    <3> QED BY <3>2, <3>3, <3>4
  <2>2. CASE k = n + 1
    <3>1. k - 1 = n /\ n \in 0..n
      BY <1>3, <2>2
    <3>2. at2[k - 1] = mid /\ used2[k - 1] = used[n] /\ at2[k] = t + len /\ used2[k] = Len(lits)
      BY <1>3, <1>7, <2>2, <3>1
    <3>3. \A i \in 1..(t - mid) : lits[used[n] + i] = Byte(w, mid + (i - 1))
      BY <1>2 DEF Marks
    <3>4. Len(lits) = used[n] + lit /\ t + len = mid + lit + len /\ mid + lit = t
      BY <1>1, <1>3, <1>4, <1>5
    <3>5. Leads(w, s, lits, mid, used[n], t + len, Len(lits))
      BY <1>3, <1>5, <3>3, <3>4 DEF Leads
    <3> QED BY <1>1, <1>5, <1>6, <2>2, <3>2, <3>5
  <2> QED BY <1>3, <2>1, <2>2
<1>9. Marks(w, more, lits, from, t + len, t + len, at2, used2)
  <2>1. /\ 0 \in 0..n /\ at[0] = from /\ used[0] = 0
    BY <1>2, <1>3 DEF Marks
  <2>2. at2[0] = from /\ used2[0] = 0
    BY <1>7, <2>1
  <2>3. Len(lits) = Len(lits) + ((t + len) - (t + len)) /\ 1..((t + len) - (t + len)) = {}
    BY <1>1, <1>3, <1>5
  <2> QED BY <1>6, <1>7, <1>8, <2>2, <2>3 DEF Marks
<1>10. t + len \in Nat /\ from <= t + len
  BY <1>1, <1>5
<1>11. Rebuilt(w, more, lits, from, t + len, t + len)
  BY <1>1, <1>6, <1>7, <1>9, <1>10 DEF Rebuilt
<1> QED BY <1>11 DEF more, s

\* One part behind another.
LEMMA RebuiltJoin ==
  ASSUME NEW w, NEW s1, NEW l1, NEW from, NEW p, Rebuilt(w, s1, l1, from, p, p),
         NEW s2, NEW l2, NEW mid, NEW to, Rebuilt(w, s2, l2, p, mid, to)
  PROVE  Rebuilt(w, s1 \o s2, l1 \o l2, from, mid, to)
<1>1. /\ s1 \in Seq(Sequence) /\ l1 \in Seq(Nat) /\ s2 \in Seq(Sequence) /\ l2 \in Seq(Nat)
      /\ from \in Nat /\ p \in Nat /\ mid \in Nat /\ to \in Nat
      /\ from <= p /\ p <= mid /\ mid <= to
  BY DEF Rebuilt
<1>2. PICK at1, used1 \in [0..Len(s1) -> Nat] : Marks(w, s1, l1, from, p, p, at1, used1)
  BY DEF Rebuilt
<1>3. PICK at2, used2 \in [0..Len(s2) -> Nat] : Marks(w, s2, l2, p, mid, to, at2, used2)
  BY DEF Rebuilt
<1> DEFINE n1 == Len(s1)
           n2 == Len(s2)
           at == [k \in 0..(n1 + n2) |-> IF k <= n1 THEN at1[k] ELSE at2[k - n1]]
           used == [k \in 0..(n1 + n2) |-> IF k <= n1 THEN used1[k] ELSE Len(l1) + used2[k - n1]]
<1>4. /\ n1 \in Nat /\ n2 \in Nat /\ Len(l1) \in Nat /\ Len(l2) \in Nat
      /\ at1[0] = from /\ used1[0] = 0 /\ at1[n1] = p /\ Len(l1) = used1[n1] + (p - p)
      /\ at2[0] = p /\ used2[0] = 0 /\ at2[n2] = mid /\ Len(l2) = used2[n2] + (to - mid)
      /\ used1[n1] \in Nat /\ used2[n2] \in Nat
  <2>1. n1 \in Nat /\ n2 \in Nat /\ Len(l1) \in Nat /\ Len(l2) \in Nat /\ n1 \in 0..n1 /\ n2 \in 0..n2
    BY <1>1
  <2>2. /\ at1[0] = from /\ used1[0] = 0 /\ at1[n1] = p /\ Len(l1) = used1[n1] + (p - p)
    BY <1>2 DEF Marks
  <2>3. at2[0] = p /\ used2[0] = 0 /\ at2[n2] = mid /\ Len(l2) = used2[n2] + (to - mid)
    BY <1>3 DEF Marks
  <2> QED BY <2>1, <2>2, <2>3
<1>5. used1[n1] = Len(l1)
  BY <1>1, <1>4
<1>6. /\ \A k \in 0..n1 : at1[k] \in Nat /\ used1[k] \in Nat
      /\ \A k \in 0..n2 : at2[k] \in Nat /\ used2[k] \in Nat
  BY <1>2, <1>3
<1>7. \A k \in 0..n1 : at[k] = at1[k] /\ used[k] = used1[k]
  BY <1>4
<1>8. ASSUME NEW j \in 0..n2 PROVE at[n1 + j] = at2[j] /\ used[n1 + j] = Len(l1) + used2[j]
  <2>1. CASE j = 0
    BY <1>4, <1>5, <1>7, <2>1
  <2>2. CASE j # 0
    <3>1. n1 + j \in 0..(n1 + n2) /\ ~(n1 + j <= n1) /\ (n1 + j) - n1 = j
      BY <1>4, <2>2
    <3> QED BY <3>1
  <2> QED BY <2>1, <2>2
<1>9. at \in [0..(n1 + n2) -> Nat] /\ used \in [0..(n1 + n2) -> Nat]
  <2>1. ASSUME NEW k \in 0..(n1 + n2) PROVE at[k] \in Nat /\ used[k] \in Nat
    <3>1. CASE k <= n1
      BY <1>4, <1>6, <1>7, <3>1
    <3>2. CASE ~(k <= n1)
      <4>1. k - n1 \in 0..n2 /\ n1 + (k - n1) = k
        BY <1>4, <3>2
      <4>2. at[k] = at2[k - n1] /\ used[k] = Len(l1) + used2[k - n1]
        BY <1>8, <4>1
      <4> HIDE DEF at, used
      <4> QED BY <1>4, <1>6, <4>1, <4>2
    <3> QED BY <3>1, <3>2
  <2> QED BY <2>1
<1> HIDE DEF at, used
<1>10. /\ s1 \o s2 \in Seq(Sequence) /\ Len(s1 \o s2) = n1 + n2
       /\ \A k \in 1..n1 : (s1 \o s2)[k] = s1[k]
       /\ \A j \in 1..n2 : (s1 \o s2)[n1 + j] = s2[j]
  <2>1. s1 \o s2 \in Seq(Sequence) /\ Len(s1 \o s2) = n1 + n2
    BY <1>1
  <2>2. \A i \in 1..(n1 + n2) : (s1 \o s2)[i] = IF i <= n1 THEN s1[i] ELSE s2[i - n1]
    BY <1>1
  <2>3. ASSUME NEW j \in 1..n2 PROVE (s1 \o s2)[n1 + j] = s2[j]
    <3>1. n1 + j \in 1..(n1 + n2) /\ ~(n1 + j <= n1) /\ (n1 + j) - n1 = j
      BY <1>4
    <3> QED BY <2>2, <3>1
  <2>4. ASSUME NEW k \in 1..n1 PROVE (s1 \o s2)[k] = s1[k]
    BY <1>4, <2>2
  <2> QED BY <2>1, <2>3, <2>4
<1>11. /\ l1 \o l2 \in Seq(Nat) /\ Len(l1 \o l2) = Len(l1) + Len(l2)
       /\ \A i \in 1..Len(l2) : (l1 \o l2)[Len(l1) + i] = l2[i]
  BY <1>1, LimitBehind
<1>12. ASSUME NEW k \in 1..(n1 + n2)
       PROVE  /\ Leads(w, (s1 \o s2)[k], l1 \o l2, at[k - 1], used[k - 1], at[k], used[k])
              /\ at[k] <= mid
  <2>1. CASE k <= n1
    <3>1. k \in 1..n1 /\ k - 1 \in 0..n1 /\ k \in 0..n1
      BY <1>4, <2>1
    <3>2. Leads(w, s1[k], l1, at1[k - 1], used1[k - 1], at1[k], used1[k]) /\ at1[k] <= p
      BY <1>2, <3>1 DEF Marks
    <3>3. at1[k - 1] \in Nat /\ used1[k - 1] \in Nat /\ at1[k] \in Nat /\ s1[k] \in Sequence
      BY <1>1, <1>6, <3>1
    <3>4. Leads(w, s1[k], l1 \o l2, at1[k - 1], used1[k - 1], at1[k], used1[k])
      BY <1>1, <3>2, <3>3, LeadsBefore
    <3>5. at1[k] <= mid
      BY <1>1, <3>2, <3>3
    <3> QED BY <1>7, <1>10, <3>1, <3>4, <3>5
  <2>2. CASE ~(k <= n1)
    <3> DEFINE j == k - n1
    <3>1. j \in 1..n2 /\ j - 1 \in 0..n2 /\ j \in 0..n2 /\ n1 + j = k /\ n1 + (j - 1) = k - 1
      BY <1>4, <2>2
    <3> HIDE DEF j
    <3>2. Leads(w, s2[j], l2, at2[j - 1], used2[j - 1], at2[j], used2[j]) /\ at2[j] <= mid
      BY <1>3, <3>1 DEF Marks
    <3>3. at2[j - 1] \in Nat /\ used2[j - 1] \in Nat /\ used2[j] \in Nat /\ s2[j] \in Sequence
      BY <1>1, <1>6, <3>1
    <3>4. Leads(w, s2[j], l1 \o l2, at2[j - 1], Len(l1) + used2[j - 1], at2[j], Len(l1) + used2[j])
      BY <1>1, <3>2, <3>3, LeadsBehind
    <3>5. /\ at[k] = at2[j] /\ used[k] = Len(l1) + used2[j]
          /\ at[k - 1] = at2[j - 1] /\ used[k - 1] = Len(l1) + used2[j - 1]
          /\ (s1 \o s2)[k] = s2[j]
      BY <1>8, <1>10, <3>1
    <3> QED BY <3>2, <3>4, <3>5
  <2> QED BY <2>1, <2>2
<1>13. at[0] = from /\ used[0] = 0 /\ at[n1 + n2] = mid /\ used[n1 + n2] = Len(l1) + used2[n2]
  BY <1>4, <1>7, <1>8
<1>14. Len(l1 \o l2) = used[n1 + n2] + (to - mid)
  <2>1. /\ Len(l1 \o l2) = Len(l1) + Len(l2) /\ Len(l2) = used2[n2] + (to - mid)
        /\ used[n1 + n2] = Len(l1) + used2[n2]
    BY <1>4, <1>11, <1>13
  <2>2. Len(l1) + (used2[n2] + (to - mid)) = (Len(l1) + used2[n2]) + (to - mid)
    <3>1. PICK l \in Nat, u \in Nat : l = Len(l1) /\ u = used2[n2]
      BY <1>4
    <3> QED BY <1>1, <3>1
  <2> QED BY <2>1, <2>2
<1>15. ASSUME NEW i \in 1..(to - mid)
       PROVE  (l1 \o l2)[used[n1 + n2] + i] = Byte(w, mid + (i - 1))
  <2>1. used2[n2] + i \in 1..Len(l2)
    BY <1>1, <1>4
  <2>2. used[n1 + n2] + i = Len(l1) + (used2[n2] + i)
    <3>1. used2[n2] \in Nat /\ Len(l1) \in Nat /\ i \in Int /\ used[n1 + n2] = Len(l1) + used2[n2]
      BY <1>1, <1>4, <1>13
    <3> QED BY <3>1
  <2>3. l2[used2[n2] + i] = Byte(w, mid + (i - 1))
    BY <1>3 DEF Marks
  <2> QED BY <1>11, <2>1, <2>2, <2>3
<1>16. Marks(w, s1 \o s2, l1 \o l2, from, mid, to, at, used)
  BY <1>10, <1>12, <1>13, <1>14, <1>15 DEF Marks
<1>17. from <= mid
  BY <1>1
<1> QED BY <1>1, <1>9, <1>10, <1>11, <1>16, <1>17 DEF Rebuilt

-----------------------------------------------------------------------------
(* What follows one step at a time: two that do are alike, and one exists. *)

StepAlike(n, f, g) == f[0] = g[0] /\ \A k \in 1..n : f[k - 1] = g[k - 1] => f[k] = g[k]
AlikeTo(n, f, g) == \A k \in 0..n : f[k] = g[k]

\* Two that begin alike and go on alike are alike.
LEMMA Alike == \A n \in Nat : \A f, g : StepAlike(n, f, g) => AlikeTo(n, f, g)
<1> SUFFICES ASSUME NEW n \in Nat, NEW f, NEW g, f[0] = g[0],
                    \A k \in 1..n : f[k - 1] = g[k - 1] => f[k] = g[k]
             PROVE  \A k \in 0..n : f[k] = g[k]
  BY DEF StepAlike, AlikeTo
<1> DEFINE T == {k \in 0..n : f[k] # g[k]}
<1>1. SUFFICES ASSUME T # {} PROVE FALSE
  OBVIOUS
<1>2. PICK k \in T : \A y \in T : k <= y
  <2> T \in SUBSET Nat
    OBVIOUS
  <2> HIDE DEF T
  <2> QED BY <1>1, LeastOf
<1>3. k \in 1..n /\ k - 1 \in 0..n /\ ~(k <= k - 1)
  OBVIOUS
<1>4. f[k - 1] = g[k - 1]
  BY <1>2, <1>3
<1> QED BY <1>3, <1>4

Iterated(n, X, b, F) ==
  \E f \in [0..n -> X] : f[0] = b /\ \A k \in 1..n : f[k] = F[<<k, f[k - 1]>>]

\* What a function gives at each step from the one before exists: a value for every step.
LEMMA Iterates ==
  \A n \in Nat : \A X : \A b \in X : \A F \in [(1..n) \X X -> X] : Iterated(n, X, b, F)
<1> SUFFICES ASSUME NEW n \in Nat, NEW X, NEW b \in X, NEW F \in [(1..n) \X X -> X]
             PROVE  \E f \in [0..n -> X] : f[0] = b /\ \A k \in 1..n : f[k] = F[<<k, f[k - 1]>>]
  BY DEF Iterated
<1> DEFINE Q(m, f) == f[0] = b /\ \A k \in 1..m : f[k] = F[<<k, f[k - 1]>>]
           S == {m \in Nat : m <= n => \E f \in [0..m -> X] : Q(m, f)}
<1>1. 0 \in S
  <2>1. [k \in 0..0 |-> b] \in [0..0 -> X] /\ Q(0, [k \in 0..0 |-> b])
    OBVIOUS
  <2> HIDE DEF Q
  <2> QED BY <2>1
<1>2. ASSUME NEW m \in S PROVE m + 1 \in S
  <2>1. SUFFICES ASSUME m + 1 <= n PROVE \E f \in [0..(m + 1) -> X] : Q(m + 1, f)
    <3> HIDE DEF Q
    <3> QED OBVIOUS
  <2>2. PICK f \in [0..m -> X] : Q(m, f)
    <3> HIDE DEF Q
    <3> QED BY <2>1
  <2> DEFINE y == F[<<m + 1, f[m]>>]
             g == [k \in 0..(m + 1) |-> IF k <= m THEN f[k] ELSE y]
  <2>3. m \in Nat /\ m \in 0..m /\ m + 1 \in 1..n /\ f[m] \in X
    BY <2>1
  <2>4. y \in X
    BY <2>3
  <2> HIDE DEF y
  <2>5. g \in [0..(m + 1) -> X]
    BY <2>3, <2>4
  <2>6. (\A k \in 0..m : g[k] = f[k]) /\ g[m + 1] = y
    BY <2>3
  <2> HIDE DEF g
  <2>7. ASSUME NEW k \in 1..(m + 1) PROVE g[k] = F[<<k, g[k - 1]>>]
    <3>1. CASE k = m + 1
      <4>1. g[k - 1] = f[m]
        BY <2>3, <2>6, <3>1
      <4> QED BY <2>6, <3>1, <4>1 DEF y
    <3>2. CASE k # m + 1
      <4>1. k \in 1..m /\ k \in 0..m /\ k - 1 \in 0..m
        BY <2>3, <3>2
      <4>2. f[k] = F[<<k, f[k - 1]>>]
        BY <2>2, <4>1
      <4> QED BY <2>6, <4>1, <4>2
    <3> QED BY <3>1, <3>2
  <2>8. g[0] = b
    BY <2>2, <2>3, <2>6
  <2>9. Q(m + 1, g)
    BY <2>7, <2>8
  <2> HIDE DEF Q
  <2> QED BY <2>5, <2>9
<1>3. S = Nat
  <2>1. S \in SUBSET Nat
    OBVIOUS
  <2> HIDE DEF S
  <2> QED BY <1>1, <1>2, <2>1, NatSet
<1>4. \E f \in [0..n -> X] : Q(n, f)
  <2> HIDE DEF Q
  <2> QED BY <1>3
<1> QED BY <1>4

\* The literals that the sequences leave are those behind the last match.
LEMMA SumLitIs ==
  ASSUME NEW w, NEW seqs, NEW lits, NEW from, NEW mid, NEW to, Rebuilt(w, seqs, lits, from, mid, to)
  PROVE  Above(Len(lits), SumLit(seqs)) = to - mid
<1>1. /\ seqs \in Seq(Sequence) /\ lits \in Seq(Nat) /\ mid \in Nat /\ to \in Nat /\ mid <= to
  BY DEF Rebuilt
<1>2. PICK at, used \in [0..Len(seqs) -> Nat] : Marks(w, seqs, lits, from, mid, to, at, used)
  BY DEF Rebuilt
<1> DEFINE n == Len(seqs)
           B(g) == [k \in 0..Len(seqs) |-> IF k = 0 THEN 0 ELSE g[k - 1] + seqs[k].lit]
           sum == CHOOSE g : g = B(g)
<1>3. SumLit(seqs) = sum[Len(seqs)]
  BY DEF SumLit
<1>4. n \in Nat /\ n \in 0..n
  BY <1>1
<1>5. ASSUME NEW k \in 1..n PROVE used[k] = used[k - 1] + seqs[k].lit
  BY <1>2 DEF Marks, Leads
<1>6. used[0] = 0 /\ Len(lits) = used[n] + (to - mid)
  BY <1>2 DEF Marks
<1>7. used = B(used)
  <2>1. ASSUME NEW k \in 0..n PROVE used[k] = IF k = 0 THEN 0 ELSE used[k - 1] + seqs[k].lit
    BY <1>4, <1>5, <1>6
  <2> QED BY <2>1
<1>8. sum = B(sum)
  <2> HIDE DEF B
  <2> QED BY <1>7
<1> HIDE DEF sum
<1>9. sum[0] = 0
  BY <1>4, <1>8
<1>10. ASSUME NEW k \in 1..n PROVE sum[k] = sum[k - 1] + seqs[k].lit
  <2>1. k \in 0..Len(seqs) /\ k # 0
    BY <1>4
  <2> QED BY <1>8, <2>1
<1>11. \A k \in 0..n : sum[k] = used[k]
  <2>1. StepAlike(n, sum, used)
    BY <1>5, <1>6, <1>9, <1>10 DEF StepAlike
  <2> HIDE DEF n
  <2>2. AlikeTo(n, sum, used)
    BY <1>4, <2>1, Alike
  <2> QED BY <2>2 DEF AlikeTo
<1>12. SumLit(seqs) = used[n] /\ used[n] \in Nat
  BY <1>3, <1>4, <1>11
<1> QED BY <1>1, <1>6, <1>12 DEF Above

\* The encoder's repeat offsets stay offsets.
RepsType == [1..3 -> Nat \ {0}]

\* rep_code_step leaves three offsets, none of them 0.
LEMMA RepMoveType ==
  ASSUME NEW r \in RepsType, NEW o \in Nat \ {0}, NEW no_lit \in BOOLEAN
  PROVE  RepMove(o, no_lit, r) \in RepsType
<1>1. r[1] \in Nat \ {0} /\ r[2] \in Nat \ {0} /\ r[3] \in Nat \ {0}
  BY DEF RepsType
<1>2. \A x, y, z \in Nat \ {0} : <<x, y, z>> \in [1..3 -> Nat \ {0}]
  OBVIOUS
<1> QED BY <1>1, <1>2 DEF RepMove, RepsType

\* So do the sequences of a block.
LEMMA RepsAfterType ==
  ASSUME NEW seqs \in Seq(Sequence), reps \in RepsType
  PROVE  RepsAfter(seqs) \in RepsType
<1> DEFINE n == Len(seqs)
           F == [x \in (1..n) \X RepsType |-> RepMove(seqs[x[1]].off, seqs[x[1]].lit = 0, x[2])]
           B(g) == [k \in 0..Len(seqs) |-> IF k = 0 THEN reps
                                           ELSE RepMove(seqs[k].off, seqs[k].lit = 0, g[k - 1])]
           after == CHOOSE g : g = B(g)
<1>1. n \in Nat /\ n \in 0..n
  OBVIOUS
<1>2. ASSUME NEW k \in 1..n, NEW r \in RepsType
      PROVE  RepMove(seqs[k].off, seqs[k].lit = 0, r) \in RepsType
  <2>1. seqs[k] \in Sequence
    OBVIOUS
  <2>2. seqs[k].off \in Nat \ {0} /\ (seqs[k].lit = 0) \in BOOLEAN
    BY <2>1 DEF Sequence
  <2> QED BY <2>2, RepMoveType
<1>3. F \in [(1..n) \X RepsType -> RepsType]
  BY <1>2
<1>4. \A k \in 1..n, r \in RepsType : F[<<k, r>>] = RepMove(seqs[k].off, seqs[k].lit = 0, r)
  OBVIOUS
<1> HIDE DEF F
<1>5. PICK f \in [0..n -> RepsType] : f[0] = reps /\ \A k \in 1..n : f[k] = F[<<k, f[k - 1]>>]
  <2>1. Iterated(n, RepsType, reps, F)
    <3> HIDE DEF n
    <3> QED BY <1>1, <1>3, Iterates
  <2> QED BY <2>1 DEF Iterated
<1>6. ASSUME NEW k \in 1..n PROVE f[k] = RepMove(seqs[k].off, seqs[k].lit = 0, f[k - 1])
  <2>1. k - 1 \in 0..n
    BY <1>1
  <2>2. f[k - 1] \in RepsType
    BY <2>1
  <2> QED BY <1>4, <1>5, <2>2
<1>7. f = B(f)
  <2>1. ASSUME NEW k \in 0..n
        PROVE  f[k] = IF k = 0 THEN reps ELSE RepMove(seqs[k].off, seqs[k].lit = 0, f[k - 1])
    BY <1>1, <1>5, <1>6
  <2> QED BY <2>1
<1>8. after = B(after)
  <2> HIDE DEF B
  <2> QED BY <1>7
<1>9. RepsAfter(seqs) = after[Len(seqs)]
  BY DEF RepsAfter
<1> HIDE DEF after
<1>10. after[0] = reps
  BY <1>1, <1>8
<1>11. ASSUME NEW k \in 1..n PROVE after[k] = RepMove(seqs[k].off, seqs[k].lit = 0, after[k - 1])
  <2>1. k \in 0..Len(seqs) /\ k # 0
    BY <1>1
  <2> QED BY <1>8, <2>1
<1>12. \A k \in 0..n : after[k] = f[k]
  <2>1. StepAlike(n, after, f)
    BY <1>5, <1>6, <1>10, <1>11 DEF StepAlike
  <2> HIDE DEF n
  <2>2. AlikeTo(n, after, f)
    BY <1>1, <2>1, Alike
  <2> QED BY <2>2 DEF AlikeTo
<1>13. after[n] \in RepsType
  BY <1>1, <1>12
<1> QED BY <1>9, <1>13

-----------------------------------------------------------------------------
(* The decoder at work: what Rebuilt says of sequences and literals is     *)
(* what executing them does.                                               *)

\* q is the part of s from a on, up to b.
Part(s, a, b, q) == q \in Seq(Nat) /\ Len(q) = b - a /\ \A i \in 1..(b - a) : q[i] = s[a + i]

\* SubSeq takes a part.
LEMMA PartIs ==
  ASSUME NEW s \in Seq(Nat), NEW a \in Nat, NEW b \in Nat, a <= b, b <= Len(s)
  PROVE  Part(s, a, b, SubSeq(s, a + 1, b))
<1>1. \A i \in (a + 1)..b : s[i] \in Nat
  OBVIOUS
<1>2. a + 1 \in Int /\ b \in Int
  OBVIOUS
<1>3. /\ SubSeq(s, a + 1, b) \in Seq(Nat)
      /\ Len(SubSeq(s, a + 1, b)) = IF a + 1 <= b THEN b - (a + 1) + 1 ELSE 0
      /\ \A i \in 1..(b - (a + 1) + 1) : SubSeq(s, a + 1, b)[i] = s[(a + 1) + i - 1]
  BY <1>1, <1>2, SubSeqProperties
<1>4. Len(SubSeq(s, a + 1, b)) = b - a
  BY <1>3
<1>5. ASSUME NEW i \in 1..(b - a) PROVE SubSeq(s, a + 1, b)[i] = s[a + i]
  <2>1. i \in 1..(b - (a + 1) + 1) /\ (a + 1) + i - 1 = a + i
    OBVIOUS
  <2> QED BY <1>3, <2>1
<1> QED BY <1>3, <1>4, <1>5 DEF Part

\* There is one part between two places.
LEMMA PartOne ==
  ASSUME NEW s, NEW a \in Nat, NEW b \in Nat, NEW q, NEW r, Part(s, a, b, q), Part(s, a, b, r)
  PROVE  q = r
<1>1. q \in Seq(Nat) /\ r \in Seq(Nat) /\ Len(q) = Len(r) /\ \A i \in 1..Len(q) : q[i] = r[i]
  BY DEF Part
<1> QED BY <1>1, SeqEqual

\* A part and the one behind it are a part.
LEMMA PartJoin ==
  ASSUME NEW s, NEW a \in Nat, NEW b \in Nat, NEW c \in Nat, NEW q, NEW r,
         a <= b, b <= c, Part(s, a, b, q), Part(s, b, c, r)
  PROVE  Part(s, a, c, q \o r)
<1>1. q \in Seq(Nat) /\ r \in Seq(Nat) /\ Len(q) = b - a /\ Len(r) = c - b
  BY DEF Part
<1>2. /\ q \o r \in Seq(Nat) /\ Len(q \o r) = Len(q) + Len(r)
      /\ \A i \in 1..Len(q) : (q \o r)[i] = q[i]
      /\ \A i \in 1..Len(r) : (q \o r)[Len(q) + i] = r[i]
  BY <1>1, LimitBehind
<1>3. Len(q \o r) = c - a
  BY <1>1, <1>2
<1>4. ASSUME NEW i \in 1..(c - a) PROVE (q \o r)[i] = s[a + i]
  <2>1. CASE i <= b - a
    <3>1. i \in 1..(b - a) /\ i \in 1..Len(q)
      BY <1>1, <2>1
    <3>2. q[i] = s[a + i]
      BY <3>1 DEF Part
    <3> QED BY <1>2, <3>1, <3>2
  <2>2. CASE ~(i <= b - a)
    <3> DEFINE j == i - (b - a)
    <3>1. j \in 1..(c - b) /\ j \in 1..Len(r) /\ b + j = a + i
      BY <1>1, <2>2
    <3>2. Len(q) + j = i
      BY <1>1, <2>2
    <3> HIDE DEF j
    <3>3. r[j] = s[b + j]
      BY <3>1 DEF Part
    <3> QED BY <1>2, <3>1, <3>2, <3>3
  <2> QED BY <2>1, <2>2
<1> QED BY <1>2, <1>3, <1>4 DEF Part

\* A function over 1..n that gives the members of a part is that part.
LEMMA PartFunction ==
  ASSUME NEW s \in Seq(Nat), NEW a \in Nat, NEW b \in Nat, a <= b, b <= Len(s),
         NEW f, f = [i \in 1..(b - a) |-> f[i]], \A i \in 1..(b - a) : f[i] = s[a + i]
  PROVE  Part(s, a, b, f)
<1>1. b - a \in Nat /\ \A i \in 1..(b - a) : a + i \in 1..Len(s)
  OBVIOUS
<1>2. \A i \in 1..(b - a) : f[i] \in Nat
  BY <1>1
<1>3. f \in [1..(b - a) -> Nat]
  BY <1>2
<1>4. f \in Seq(Nat) /\ Len(f) = b - a
  BY <1>1, <1>3
<1> QED BY <1>4 DEF Part

\* The places of a world are numbers, and so is the length of its bytes.
LEMMA WorldSizes ==
  ASSUME NEW w, WorldOK(w)
  PROVE  \E dr \in Nat, st \in Int, co \in Int, mx \in Nat :
           /\ w.dropped = dr /\ w.start = st /\ w.content = co /\ Len(w.data) = mx
           /\ w.data \in Seq(Nat)
<1>1. w.data \in Seq(Nat) /\ w.dropped \in Nat /\ w.start \in Int /\ w.content \in Int
  BY DEF WorldOK
<1>2. Len(w.data) \in Nat
  BY <1>1
<1> QED BY <1>1, <1>2, Zenon

\* A copy that Rebuilt allows, when the decoder has everything from `hidden` on.
Copies(w, p, s, hidden, before) ==
  \A o, l : Part(w.data, hidden, w.dropped + p, o) =>
    \E o2 : /\ Part(w.data, hidden, w.dropped + p + s.len, o2)
            /\ CopyMatch(s, [out |-> o, lits |-> l, ok |-> TRUE], before)
                 = [out |-> o2, lits |-> l, ok |-> TRUE]

\* Where a byte of a copy and the one it comes from lie.
LEMMA CopyPlaces ==
  ASSUME NEW dr \in Nat, NEW p \in Nat, NEW hidden \in Nat, NEW n \in Int, n = dr + (p - hidden),
         NEW i \in Nat, NEW k \in Int, k = i - (n + 1), NEW back \in Nat
  PROVE  /\ dr + ((p - back) + k) + 1 = hidden + (i - back)
         /\ dr + (p + k) + 1 = hidden + i
  OBVIOUS

\* copy_match, of a copy that is right and may be made, writes the bytes that come next.
LEMMA CopyIs ==
  ASSUME NEW w, WorldOK(w), NEW p \in Nat, NEW s \in Sequence, CanCopy(w, p, s.len, s.off),
         NEW hidden \in Nat, NEW before \in Int, hidden <= w.dropped + w.start,
         hidden + before = w.dropped + w.content, w.dropped + p + s.len <= Len(w.data)
  PROVE  Copies(w, p, s, hidden, before)
<1> SUFFICES ASSUME NEW o, NEW l, Part(w.data, hidden, w.dropped + p, o)
             PROVE  \E o2 : /\ Part(w.data, hidden, w.dropped + p + s.len, o2)
                            /\ CopyMatch(s, [out |-> o, lits |-> l, ok |-> TRUE], before)
                                 = [out |-> o2, lits |-> l, ok |-> TRUE]
  BY DEF Copies
<1>1. PICK dr \in Nat, st \in Int, co \in Int, mx \in Nat :
        /\ w.dropped = dr /\ w.start = st /\ w.content = co /\ Len(w.data) = mx
        /\ w.data \in Seq(Nat)
  BY WorldSizes
<1>2. PICK len \in Nat, back \in Nat : s.len = len /\ s.off = back /\ back > 0
  BY DEF Sequence
<1>3. PICK n \in Int : Len(o) = n /\ n = dr + (p - hidden) /\ \A i \in 1..n : o[i] = w.data[hidden + i]
  <2>1. Len(o) = (dr + p) - hidden /\ \A i \in 1..((dr + p) - hidden) : o[i] = w.data[hidden + i]
    BY <1>1 DEF Part
  <2>2. (dr + p) - hidden = dr + (p - hidden) /\ dr + (p - hidden) \in Int
    BY <1>1
  <2> QED BY <2>1, <2>2
<1>4. /\ p - back >= st /\ (p - back >= co => back <= Window)
      /\ hidden <= dr + st /\ hidden + before = dr + co /\ (dr + p) + len <= mx
  BY <1>1, <1>2 DEF CanCopy, Reaches
<1>5. back \in 1..n /\ n \in Nat /\ (n - back >= before => back <= Window)
  <2>1. back <= n
    BY <1>1, <1>2, <1>3, <1>4
  <2>2. n - back >= before => p - back >= co
    BY <1>1, <1>2, <1>3, <1>4
  <2> QED BY <1>2, <1>3, <1>4, <2>1, <2>2
<1>6. PICK N \in Nat : N = n + len
  BY <1>5
<1>7. N = ((dr + p) + len) - hidden
  BY <1>1, <1>3, <1>6
<1> DEFINE d == [out |-> o, lits |-> l, ok |-> TRUE]
           B(g) == [i \in 1..(Len(d.out) + s.len) |-> IF i <= Len(d.out) THEN d.out[i] ELSE g[i - s.off]]
           copied == CHOOSE g : g = B(g)
           sol == [i \in 1..N |-> w.data[hidden + i]]
<1>8. \A g : B(g) = [i \in 1..N |-> IF i <= n THEN o[i] ELSE g[i - back]]
  BY <1>2, <1>3, <1>6
<1>9. CopyMatch(s, d, before) = [out |-> copied, lits |-> l, ok |-> TRUE]
  <2> DEFINE ok == s.off \in 1..Len(d.out) /\ (Len(d.out) - s.off >= before => s.off <= Window)
  <2>1. CopyMatch(s, d, before)
          = [out |-> IF ok THEN copied ELSE d.out, lits |-> d.lits, ok |-> d.ok /\ ok]
    BY DEF CopyMatch
  <2>2. d.out = o /\ d.lits = l /\ d.ok = TRUE
    OBVIOUS
  <2>3. ok = TRUE
    BY <1>2, <1>3, <1>5, <2>2
  <2> HIDE DEF ok, copied, d
  <2> QED BY <2>1, <2>2, <2>3
<1> HIDE DEF d, B
<1>10. ASSUME NEW i \in 1..N, ~(i <= n) PROVE i - back \in 1..N /\ i - back < i
  BY <1>2, <1>5, <1>6, <1>10
<1>11. ASSUME NEW i \in 1..N, ~(i <= n) PROVE w.data[hidden + i] = w.data[hidden + (i - back)]
  <2>1. PICK k \in 0..(len - 1) : k = i - (n + 1)
    BY <1>2, <1>5, <1>6, <1>11
  <2>2. Byte(w, (p - back) + k) = Byte(w, p + k)
    BY <1>2, <2>1 DEF CanCopy, Same
  <2>3. dr \in Nat /\ n \in Int /\ n = dr + (p - hidden) /\ k \in Int /\ i \in Nat /\ back \in Nat
    BY <1>1, <1>2, <1>3, <2>1
  <2>4. dr + ((p - back) + k) + 1 = hidden + (i - back) /\ dr + (p + k) + 1 = hidden + i
    BY <2>1, <2>3, CopyPlaces
  <2> QED BY <1>1, <2>2, <2>4 DEF Byte
<1>12. \A i \in 1..N : sol[i] = w.data[hidden + i]
  OBVIOUS
<1>13. sol = B(sol)
  <2>1. ASSUME NEW i \in 1..N PROVE w.data[hidden + i] = IF i <= n THEN o[i] ELSE sol[i - back]
    <3>1. CASE i <= n
      <4>1. i \in 1..n
        BY <1>5, <3>1
      <4> QED BY <1>3, <3>1, <4>1
    <3>2. CASE ~(i <= n)
      <4>1. i - back \in 1..N
        BY <1>10, <3>2
      <4>2. sol[i - back] = w.data[hidden + (i - back)]
        BY <1>12, <4>1
      <4> HIDE DEF sol
      <4> QED BY <1>11, <3>2, <4>2
    <3> QED BY <3>1, <3>2
  <2>2. sol = [i \in 1..N |-> IF i <= n THEN o[i] ELSE sol[i - back]]
    BY <2>1
  <2> HIDE DEF sol
  <2> QED BY <1>8, <2>2
<1>14. copied = B(copied)
  <2> HIDE DEF sol
  <2> QED BY <1>13
<1> HIDE DEF copied
<1>15. /\ copied = [i \in 1..N |-> copied[i]]
       /\ \A i \in 1..N : copied[i] = IF i <= n THEN o[i] ELSE copied[i - back]
  <2>1. copied = [i \in 1..N |-> IF i <= n THEN o[i] ELSE copied[i - back]]
    BY <1>8, <1>14
  <2> QED BY <2>1
<1>16. \A i \in 1..N : copied[i] = w.data[hidden + i]
  <2> DEFINE T == {i \in 1..N : copied[i] # w.data[hidden + i]}
  <2>1. SUFFICES ASSUME T # {} PROVE FALSE
    OBVIOUS
  <2>2. PICK i \in T : \A j \in T : i <= j
    <3> T \in SUBSET Nat
      OBVIOUS
    <3> HIDE DEF T
    <3> QED BY <2>1, LeastOf
  <2>3. i \in 1..N /\ copied[i] # w.data[hidden + i]
    BY <2>2
  <2>4. CASE i <= n
    <3>1. i \in 1..n
      BY <1>5, <2>3, <2>4
    <3> QED BY <1>3, <1>15, <2>3, <2>4, <3>1
  <2>5. CASE ~(i <= n)
    <3>1. i - back \in 1..N /\ i - back < i
      BY <1>10, <2>3, <2>5
    <3>2. ~(i <= i - back)
      BY <1>2, <2>3, <3>1
    <3>3. copied[i - back] = w.data[hidden + (i - back)]
      BY <2>2, <3>1, <3>2
    <3>4. copied[i] = copied[i - back]
      BY <1>15, <2>3, <2>5
    <3> QED BY <1>11, <2>3, <2>5, <3>3, <3>4
  <2> QED BY <2>4, <2>5
<1>17. Part(w.data, hidden, w.dropped + p + s.len, copied)
  <2>1. PICK b \in Nat : b = (dr + p) + len
    BY <1>1, <1>2
  <2>2. hidden <= b /\ b <= Len(w.data) /\ N = b - hidden
    BY <1>1, <1>2, <1>3, <1>4, <1>5, <1>7, <2>1
  <2>3. Part(w.data, hidden, b, copied)
    BY <1>1, <1>15, <1>16, <2>2, PartFunction
  <2> QED BY <1>1, <1>2, <2>1, <2>3
<1> QED BY <1>9, <1>17 DEF d

\* One sequence: its literals, then its copy.
Steps(w, s, lits, hidden, before, a, u, b, v) ==
  Execute(s, [out |-> SubSeq(w.data, hidden + 1, w.dropped + a),
              lits |-> SubSeq(lits, u + 1, Len(lits)), ok |-> TRUE], before)
    = [out |-> SubSeq(w.data, hidden + 1, w.dropped + b),
       lits |-> SubSeq(lits, v + 1, Len(lits)), ok |-> TRUE]

\* A sequence that leads from one place to another takes the decoder there.
LEMMA ExecuteIs ==
  ASSUME NEW w, WorldOK(w), NEW a \in Nat, NEW u \in Nat, NEW b \in Nat, NEW v \in Nat,
         NEW s \in Sequence, NEW lits \in Seq(Nat), Leads(w, s, lits, a, u, b, v),
         NEW hidden \in Nat, NEW before \in Int, hidden <= w.dropped + w.start,
         hidden <= w.dropped + a, hidden + before = w.dropped + w.content,
         w.dropped + b <= Len(w.data)
  PROVE  Steps(w, s, lits, hidden, before, a, u, b, v)
<1>1. PICK dr \in Nat, st \in Int, co \in Int, mx \in Nat :
        /\ w.dropped = dr /\ w.start = st /\ w.content = co /\ Len(w.data) = mx
        /\ w.data \in Seq(Nat)
  BY WorldSizes
<1>2. PICK len \in Nat, lit \in Nat : s.len = len /\ s.lit = lit
  BY DEF Sequence
<1>3. PICK n \in Nat : n = Len(lits)
  OBVIOUS
<1>4. /\ v = u + lit /\ v <= n /\ b = a + lit + len /\ CanCopy(w, a + lit, s.len, s.off)
      /\ \A i \in 1..lit : lits[u + i] = Byte(w, a + (i - 1))
  BY <1>2, <1>3 DEF Leads
<1>5. PICK p \in Nat : p = a + lit
  BY <1>2
<1>6. b = p + len /\ a <= p /\ p <= b /\ CanCopy(w, p, s.len, s.off)
  BY <1>2, <1>4, <1>5
<1>7. PICK A \in Nat, P \in Nat, E \in Nat : A = dr + a /\ P = dr + p /\ E = dr + b
  BY <1>1
<1>8. hidden <= A /\ A <= P /\ P = A + lit /\ P <= E /\ E = P + len /\ E <= mx
  BY <1>1, <1>2, <1>5, <1>6, <1>7
<1> DEFINE out == SubSeq(w.data, hidden + 1, A)
           rest == SubSeq(lits, u + 1, n)
           front == SubSeq(rest, 1, lit)
           behind == SubSeq(rest, lit + 1, Len(rest))
<1>9. Part(w.data, hidden, A, out)
  <2>1. A <= mx
    BY <1>8
  <2> QED BY <1>1, <1>8, <2>1, PartIs
<1>10. Part(lits, u, n, rest)
  <2>1. u <= n
    BY <1>2, <1>4
  <2> QED BY <1>3, <2>1, PartIs
<1> HIDE DEF rest, out
<1>11. rest \in Seq(Nat) /\ Len(rest) = n - u /\ \A i \in 1..(n - u) : rest[i] = lits[u + i]
  BY <1>10 DEF Part
<1>12. PICK m \in Nat : Len(rest) = m /\ m = n - u /\ lit <= m
  BY <1>2, <1>4, <1>11
<1>13. Part(rest, 0, lit, front)
  <2>1. Part(rest, 0, lit, SubSeq(rest, 0 + 1, lit))
    BY <1>11, <1>12, PartIs
  <2> QED BY <2>1
<1>14. Part(rest, lit, m, behind)
  BY <1>11, <1>12, PartIs
<1> HIDE DEF front, behind
<1>15. front \in Seq(Nat) /\ Len(front) = lit /\ \A i \in 1..lit : front[i] = rest[i]
  <2>1. lit - 0 = lit /\ \A i \in 1..lit : 0 + i = i
    OBVIOUS
  <2> QED BY <1>13, <2>1 DEF Part
<1>16. Part(w.data, A, P, front)
  <2>1. P - A = lit
    BY <1>8
  <2>2. ASSUME NEW i \in 1..lit PROVE front[i] = w.data[A + i]
    <3>1. i \in 1..(n - u)
      BY <1>12
    <3>2. front[i] = lits[u + i]
      BY <1>11, <1>15, <3>1
    <3>3. lits[u + i] = Byte(w, a + (i - 1))
      BY <1>4
    <3>4. dr + (a + (i - 1)) + 1 = A + i
      BY <1>7
    <3> QED BY <1>1, <3>2, <3>3, <3>4 DEF Byte
  <2> QED BY <1>15, <2>1, <2>2 DEF Part
<1>17. Part(w.data, hidden, P, out \o front)
  BY <1>8, <1>9, <1>16, PartJoin
<1>18. behind = SubSeq(lits, v + 1, n)
  <2>1. behind \in Seq(Nat) /\ Len(behind) = m - lit /\ \A i \in 1..(m - lit) : behind[i] = rest[lit + i]
    BY <1>14 DEF Part
  <2>2. m - lit = n - v
    BY <1>4, <1>12
  <2>3. ASSUME NEW i \in 1..(n - v) PROVE behind[i] = lits[v + i]
    <3>1. i \in 1..(m - lit) /\ lit + i \in 1..(n - u) /\ u + (lit + i) = v + i
      BY <1>4, <1>12, <2>2
    <3>2. behind[i] = rest[lit + i]
      BY <2>1, <3>1
    <3> QED BY <1>11, <3>1, <3>2
  <2>4. Part(lits, v, n, behind)
    BY <2>1, <2>2, <2>3 DEF Part
  <2>5. Part(lits, v, n, SubSeq(lits, v + 1, n))
    BY <1>3, <1>4, PartIs
  <2> QED BY <2>4, <2>5, PartOne
<1>19. PICK o2 : /\ Part(w.data, hidden, w.dropped + p + s.len, o2)
                 /\ CopyMatch(s, [out |-> out \o front, lits |-> behind, ok |-> TRUE], before)
                      = [out |-> o2, lits |-> behind, ok |-> TRUE]
  <2>1. w.dropped + p + s.len <= Len(w.data)
    BY <1>1, <1>2, <1>7, <1>8
  <2>2. Part(w.data, hidden, w.dropped + p, out \o front)
    BY <1>1, <1>7, <1>17
  <2>3. hidden <= w.dropped + w.start /\ hidden + before = w.dropped + w.content
    OBVIOUS
  <2>4. Copies(w, p, s, hidden, before)
    BY <1>5, <1>6, <2>1, <2>3, CopyIs
  <2> QED BY <2>2, <2>4 DEF Copies
<1>20. o2 = SubSeq(w.data, hidden + 1, E)
  <2>1. w.dropped + p + s.len = E
    BY <1>1, <1>2, <1>7, <1>8
  <2>2. hidden <= E
    BY <1>8
  <2>3. Part(w.data, hidden, E, SubSeq(w.data, hidden + 1, E))
    BY <1>1, <1>8, <2>2, PartIs
  <2>4. Part(w.data, hidden, E, o2)
    BY <1>19, <2>1
  <2> QED BY <2>3, <2>4, PartOne
<1>21. Execute(s, [out |-> out, lits |-> rest, ok |-> TRUE], before)
         = CopyMatch(s, [out |-> out \o front, lits |-> behind, ok |-> TRUE], before)
  <2> DEFINE d == [out |-> out, lits |-> rest, ok |-> TRUE]
  <2>1. Execute(s, d, before)
          = CopyMatch(s, [out |-> d.out \o SubSeq(d.lits, 1, s.lit),
                          lits |-> SubSeq(d.lits, s.lit + 1, Len(d.lits)), ok |-> d.ok], before)
    BY DEF Execute
  <2>2. d.lits = rest /\ d.out = out /\ d.ok = TRUE
    OBVIOUS
  <2>3. SubSeq(d.lits, 1, s.lit) = front /\ SubSeq(d.lits, s.lit + 1, Len(d.lits)) = behind
    BY <1>2, <2>2 DEF front, behind
  <2> HIDE DEF d
  <2> QED BY <2>1, <2>2, <2>3 DEF d
<1>22. /\ out = SubSeq(w.data, hidden + 1, w.dropped + a)
       /\ rest = SubSeq(lits, u + 1, Len(lits))
  BY <1>1, <1>3, <1>7 DEF out, rest
<1>23. /\ o2 = SubSeq(w.data, hidden + 1, w.dropped + b)
       /\ behind = SubSeq(lits, v + 1, Len(lits))
  BY <1>1, <1>3, <1>7, <1>18, <1>20
<1> QED BY <1>19, <1>21, <1>22, <1>23 DEF Steps

\* What the decoder has begins at `hidden`, with `before` bytes before the content; it
\* has what lies before `from`, and there are bytes up to `to`.
Sees(w, hidden, before, from, to) ==
  /\ hidden <= w.dropped + w.start /\ hidden + before = w.dropped + w.content
  /\ hidden <= w.dropped + from /\ w.dropped + to <= Len(w.data)

\* Of the blocks before and the literals it makes every byte up to `to`.
Yields(w, seqs, lits, hidden, before, from, to) ==
  LET d == ExecuteAll(seqs, [out |-> SubSeq(w.data, hidden + 1, w.dropped + from),
                             lits |-> lits, ok |-> TRUE], before)
  IN d.ok /\ d.out \o d.lits = SubSeq(w.data, hidden + 1, w.dropped + to)

\* All of them: the decoder ends with every byte up to `to`.
LEMMA ExecuteAllIs ==
  ASSUME NEW w, WorldOK(w), NEW seqs \in Seq(Sequence), NEW lits \in Seq(Nat),
         NEW from \in Nat, NEW mid \in Nat, NEW to \in Nat, Rebuilt(w, seqs, lits, from, mid, to),
         NEW hidden \in Nat, NEW before \in Int, Sees(w, hidden, before, from, to)
  PROVE  Yields(w, seqs, lits, hidden, before, from, to)
<1>0. /\ from \in Nat /\ mid \in Nat /\ to \in Nat /\ hidden \in Nat /\ before \in Int
      /\ lits \in Seq(Nat) /\ WorldOK(w)
  OBVIOUS
<1>1. from <= mid /\ mid <= to
  BY DEF Rebuilt
<1>2. PICK at, used \in [0..Len(seqs) -> Nat] : Marks(w, seqs, lits, from, mid, to, at, used)
  BY DEF Rebuilt
<1>3. PICK n \in Nat : n = Len(seqs) /\ n \in 0..n
  BY <1>1
<1>4. /\ at[0] = from /\ used[0] = 0 /\ at[n] = mid /\ Len(lits) = used[n] + (to - mid)
      /\ \A k \in 1..n : /\ Leads(w, seqs[k], lits, at[k - 1], used[k - 1], at[k], used[k])
                         /\ at[k] <= mid
      /\ \A i \in 1..(to - mid) : lits[used[n] + i] = Byte(w, mid + (i - 1))
  BY <1>2, <1>3 DEF Marks
<1>5. \A k \in 0..n : at[k] \in Nat /\ used[k] \in Nat
  BY <1>2, <1>3
<1>6. PICK dr \in Nat, mx \in Nat : w.dropped = dr /\ Len(w.data) = mx /\ w.data \in Seq(Nat)
  BY DEF WorldOK
<1>7. hidden <= dr + from /\ dr + to <= mx
  BY <1>6 DEF Sees
<1> DEFINE first == [out |-> SubSeq(w.data, hidden + 1, w.dropped + from), lits |-> lits, ok |-> TRUE]
           D(k) == [out |-> SubSeq(w.data, hidden + 1, w.dropped + at[k]),
                    lits |-> SubSeq(lits, used[k] + 1, Len(lits)), ok |-> TRUE]
           sol == [k \in 0..n |-> D(k)]
           B(g) == [k \in 0..Len(seqs) |-> IF k = 0 THEN first ELSE Execute(seqs[k], g[k - 1], before)]
           after == CHOOSE g : g = B(g)
<1>8. \A k \in 0..n : from <= at[k]
  <2> DEFINE T == {k \in 0..n : ~(from <= at[k])}
  <2>1. SUFFICES ASSUME T # {} PROVE FALSE
    OBVIOUS
  <2>2. PICK k \in T : \A j \in T : k <= j
    <3> T \in SUBSET Nat
      OBVIOUS
    <3> HIDE DEF T
    <3> QED BY <2>1, LeastOf
  <2>3. k \in 0..n /\ ~(from <= at[k])
    BY <2>2
  <2>4. k # 0
    BY <1>1, <1>4, <2>3
  <2>5. k \in 1..n /\ k - 1 \in 0..n /\ ~(k <= k - 1)
    BY <1>3, <2>3, <2>4
  <2>6. from <= at[k - 1]
    BY <2>2, <2>5
  <2>7. PICK s \in Sequence : s = seqs[k]
    BY <1>1, <1>3, <2>5
  <2>8. at[k] = at[k - 1] + s.lit + s.len
    BY <1>4, <2>5, <2>7 DEF Leads
  <2>9. PICK x \in Nat, y \in Nat, z \in Nat, q \in Nat :
          x = s.lit /\ y = s.len /\ z = at[k - 1] /\ q = at[k]
    BY <1>5, <2>3, <2>5 DEF Sequence
  <2>10. q = z + x + y /\ from <= z /\ ~(from <= q)
    BY <2>3, <2>6, <2>8, <2>9
  <2> QED BY ONLY <1>0, <2>9, <2>10
<1>9. ASSUME NEW k \in 1..n PROVE Execute(seqs[k], D(k - 1), before) = D(k)
  <2>1. k - 1 \in 0..n /\ k \in 0..n /\ k \in 1..n
    BY <1>3
  <2>2. PICK a \in Nat, u \in Nat, b \in Nat, v \in Nat :
          a = at[k - 1] /\ u = used[k - 1] /\ b = at[k] /\ v = used[k]
    BY <1>5, <2>1
  <2>3. seqs[k] \in Sequence
    BY <1>1, <1>3
  <2>4. Leads(w, seqs[k], lits, a, u, b, v) /\ b <= mid /\ from <= a
    BY <1>4, <1>8, <2>1, <2>2
  <2>5. dr + b <= mx /\ hidden <= dr + a
    <3>1. b <= mid /\ from <= a
      BY <2>4
    <3>2. dr \in Nat /\ mx \in Nat /\ a \in Nat /\ b \in Nat
      BY <1>6, <2>2
    <3> QED BY <1>0, <1>1, <1>7, <3>1, <3>2
  <2>6. w.dropped + b <= Len(w.data) /\ hidden <= w.dropped + a
    BY <1>6, <2>5
  <2>7. Steps(w, seqs[k], lits, hidden, before, a, u, b, v)
    <3>1. hidden <= w.dropped + w.start /\ hidden + before = w.dropped + w.content
      BY DEF Sees
    <3>2. a \in Nat /\ u \in Nat /\ b \in Nat /\ v \in Nat
      BY <2>2
    <3>3. WorldOK(w) /\ lits \in Seq(Nat) /\ hidden \in Nat /\ before \in Int
      BY <1>0
    <3>4. Leads(w, seqs[k], lits, a, u, b, v)
      BY <2>4
    <3> QED BY ONLY <2>3, <2>6, <3>1, <3>2, <3>3, <3>4, ExecuteIs
  <2> QED BY <2>2, <2>7 DEF Steps
<1>10. D(0) = first
  <2>1. SubSeq(lits, 1, Len(lits)) = lits
    BY <1>1, SubSeqFull
  <2>2. D(0) = [out |-> SubSeq(w.data, hidden + 1, w.dropped + from),
                lits |-> SubSeq(lits, 1, Len(lits)), ok |-> TRUE]
    BY <1>4
  <2> HIDE DEF D
  <2> QED BY <2>1, <2>2
<1> HIDE DEF D, first
<1>11. sol = B(sol)
  <2>1. ASSUME NEW k \in 0..n
        PROVE  D(k) = IF k = 0 THEN first ELSE Execute(seqs[k], sol[k - 1], before)
    <3>1. CASE k = 0
      BY <1>10, <3>1
    <3>2. CASE k # 0
      <4>1. k \in 1..n /\ k - 1 \in 0..n
        BY <1>3, <3>2
      <4>2. sol[k - 1] = D(k - 1)
        BY <4>1
      <4> HIDE DEF sol
      <4> QED BY <1>9, <3>2, <4>1, <4>2
    <3> QED BY <3>1, <3>2
  <2> QED BY <1>3, <2>1
<1>12. after = B(after)
  <2> HIDE DEF B, sol
  <2> QED BY <1>11
<1>13. ExecuteAll(seqs, first, before) = after[Len(seqs)]
  BY DEF ExecuteAll
<1>14. \A k \in 0..n : sol[k] = D(k)
  OBVIOUS
<1> HIDE DEF after, sol
<1>15. /\ after[0] = first
       /\ \A k \in 1..n : after[k] = Execute(seqs[k], after[k - 1], before)
  <2>1. after[0] = first
    BY <1>3, <1>12
  <2>2. ASSUME NEW k \in 1..n PROVE after[k] = Execute(seqs[k], after[k - 1], before)
    <3>1. k \in 0..Len(seqs) /\ k # 0
      BY <1>3
    <3> QED BY <1>12, <3>1
  <2> QED BY <2>1, <2>2
<1> HIDE DEF B
<1>16. AlikeTo(n, after, sol)
  <2>1. after[0] = sol[0]
    <3>1. 0 \in 0..n
      BY <1>3
    <3>2. sol[0] = D(0)
      BY <1>14, <3>1
    <3> QED BY <1>10, <1>15, <3>2
  <2>2. ASSUME NEW k \in 1..n, after[k - 1] = sol[k - 1] PROVE after[k] = sol[k]
    <3>1. k - 1 \in 0..n /\ k \in 0..n
      BY <1>3
    <3> QED BY <1>9, <1>14, <1>15, <2>2, <3>1
  <2>3. StepAlike(n, after, sol)
    BY <2>1, <2>2 DEF StepAlike
  <2> QED BY <1>3, <2>3, Alike
<1>17. ExecuteAll(seqs, first, before) = D(n)
  BY <1>3, <1>13, <1>14, <1>16 DEF AlikeTo
<1> DEFINE out == SubSeq(w.data, hidden + 1, w.dropped + mid)
           rest == SubSeq(lits, used[n] + 1, Len(lits))
<1>18. D(n).ok = TRUE /\ D(n).out = out /\ D(n).lits = rest
  BY <1>4 DEF D
<1>19. out \o rest = SubSeq(w.data, hidden + 1, w.dropped + to)
  <2>1. PICK M \in Nat, E \in Nat, u \in Nat, l \in Nat :
          M = dr + mid /\ E = dr + to /\ u = used[n] /\ l = Len(lits)
    <3>1. used[n] \in Nat /\ Len(lits) \in Nat
      BY <1>3, <1>5
    <3>2. dr + mid \in Nat /\ dr + to \in Nat
      BY <1>0, <1>6
    <3> QED BY <3>1, <3>2
  <2>2. hidden <= M /\ M <= E /\ E <= mx /\ l = u + (to - mid) /\ u <= l /\ to - mid = E - M
    <3>1. l = u + (to - mid)
      BY <1>4, <2>1
    <3>2. hidden <= M /\ M <= E /\ E <= mx /\ to - mid = E - M
      BY <1>1, <1>6, <1>7, <2>1
    <3> QED BY <1>1, <2>1, <3>1, <3>2
  <2>3. Part(w.data, hidden, M, SubSeq(w.data, hidden + 1, M))
    <3>1. M <= mx
      BY <1>6, <2>1, <2>2
    <3> QED BY <1>6, <2>1, <2>2, <3>1, PartIs
  <2>4. Part(lits, u, l, SubSeq(lits, u + 1, l))
    <3>1. u \in Nat /\ l \in Nat /\ u <= l /\ l <= Len(lits)
      BY <2>1, <2>2
    <3> QED BY <1>0, <3>1, PartIs
  <2> DEFINE r == SubSeq(lits, u + 1, l)
  <2>5. Part(w.data, M, E, r)
    <3> HIDE DEF r
    <3>1. r \in Seq(Nat) /\ Len(r) = l - u /\ \A i \in 1..(l - u) : r[i] = lits[u + i]
      BY <2>4 DEF Part, r
    <3>2. l - u = E - M /\ l - u = to - mid
      BY <1>1, <2>1, <2>2
    <3>3. ASSUME NEW i \in 1..(E - M) PROVE r[i] = w.data[M + i]
      <4>1. lits[u + i] = Byte(w, mid + (i - 1))
        BY <1>4, <2>1, <2>2
      <4>2. dr + (mid + (i - 1)) + 1 = M + i
        BY <1>1, <1>6, <2>1
      <4> QED BY <1>6, <3>1, <3>2, <4>1, <4>2 DEF Byte
    <3> QED BY <3>1, <3>2, <3>3 DEF Part
  <2> HIDE DEF r
  <2>6. Part(w.data, hidden, E, SubSeq(w.data, hidden + 1, M) \o r)
    BY <2>1, <2>2, <2>3, <2>5, PartJoin
  <2>7. Part(w.data, hidden, E, SubSeq(w.data, hidden + 1, E))
    <3>1. hidden <= E /\ E <= mx
      BY <1>6, <2>1, <2>2
    <3> QED BY <1>6, <2>1, <3>1, PartIs
  <2>8. SubSeq(w.data, hidden + 1, M) \o r = SubSeq(w.data, hidden + 1, E)
    BY <2>1, <2>6, <2>7, PartOne
  <2> QED BY <1>6, <2>1, <2>8 DEF r
<1> HIDE DEF out, rest
<1> QED BY <1>17, <1>18, <1>19 DEF first, Yields

-----------------------------------------------------------------------------
(* The search, as it stands between two steps.  Everything found so far    *)
(* gives back the bytes it stands for: of the block what the long-distance *)
(* matches and the pieces cover, of the piece what lies before its anchor; *)
(* and what is in hand (a match, a repeat offset, a step of the optimal    *)
(* finder) is one the decoder can follow from where it would be used.      *)

SearchPcs == {"search", "look", "take", "again"}
PiecePcs == SearchPcs \union {"back", "way", "tail"}
AllPcs == PiecePcs \union {"block", "skipped", "far", "piece", "found"}

HitType == [ip : Nat, len : Nat \ {0}, off : Nat \ {0}]
PickType == [start : Nat, len : Nat, off : Nat]
EdgeType == [from : Nat, to : Nat, off : Nat]
BlockType == [from : Nat, to : Nat, hint : [1..3 -> Nat], seqs : Seq(Sequence), lits : Seq(Nat)]
PieceType ==
  [finder : {"", "fast", "dfast", "greedy", "lazy", "rows", "tree", "optimal"},
   to : Nat, ip : Nat, anchor : Nat, lowest : Int, lowest1 : Int, rep1 : Nat, rep2 : Nat,
   use_rep : BOOLEAN, walk_on : BOOLEAN, skipping : BOOLEAN, pick : PickType,
   edges : SUBSET EdgeType, way : Seq(EdgeType), seqs : Seq(Sequence), lits : Seq(Nat)]

TypeOK ==
  /\ call \in Settings /\ data \in Seq(Nat) /\ dropped \in Nat /\ off \in Nat
  /\ reps \in RepsType /\ pc \in AllPcs /\ block \in BlockType /\ hits \in SUBSET HitType
  /\ pos \in Nat /\ piece \in PieceType

\* The workspace holds the history that may be reached, and the content up to its end.
FrameOK ==
  /\ dropped + off <= Len(data) /\ Len(call.history) <= dropped + off
  /\ call.prime_only => dropped <= Len(call.history)

\* A repeat offset beyond the window is tried in the content's first window only.
Fits(rep) == rep <= Window \/ block.to - PayloadAt <= Window

BlockOK ==
  pc # "block" => /\ block.to = off /\ block.from <= off /\ PayloadAt <= block.from
                  /\ \A k \in 1..3 : Fits(block.hint[k])

\* The long-distance matches lie behind one another, each a copy the decoder can make.
HitOK(h, from) == from <= h.ip /\ h.ip + h.len <= block.to /\ CanCopy(World, h.ip, h.len, h.off)
Covered == IF pc = "far" THEN block.from ELSE pos
CoverOK ==
  pc \in PiecePcs \union {"far", "piece"} =>
    /\ block.from <= pos /\ (pc # "far" => pos <= block.to)
    /\ Rebuilt(World, block.seqs, block.lits, block.from, Covered, Covered)
    /\ \A h \in hits : HitOK(h, Covered)

PieceOK ==
  pc \in PiecePcs =>
    /\ pos <= piece.to /\ piece.to <= block.to /\ (hits = {} => piece.to = block.to)
    /\ piece.anchor <= piece.to
    /\ Rebuilt(World, piece.seqs, piece.lits, pos, piece.anchor, piece.anchor)

SearchOK ==
  pc \in SearchPcs \union {"back", "way"} =>
    /\ Margin <= piece.to /\ Fits(piece.rep1)
    /\ FrameStart <= piece.lowest /\ 0 <= piece.lowest /\ piece.lowest <= pos
    /\ pc \in SearchPcs => piece.anchor <= piece.ip /\ piece.way = <<>>

\* The row finder asks once how far its repeat offsets reach: at a search, which looks
\* them up a byte on, one may be a byte longer than straight after a match.
RowRepOK(rep, more) == rep <= Window /\ rep <= piece.anchor + more - piece.lowest
PickOK(p) ==
  /\ piece.anchor <= p.start /\ p.start + p.len <= piece.to /\ p.len # 0
  /\ p.off = 0 => piece.rep1 # 0 /\ CanCopy(World, p.start, p.len, piece.rep1)
  /\ p.off # 0 => /\ piece.lowest <= p.start - p.off /\ p.off <= Window
                  /\ CanCopy(World, p.start, p.len, p.off)
RowsOK ==
  /\ pc \in {"look", "take", "again"} => piece.finder = "rows"
  /\ pc \in SearchPcs /\ piece.finder = "rows" =>
       LET more == IF pc = "again" THEN 0 ELSE 1
       IN /\ piece.lowest <= piece.lowest1
          /\ RowRepOK(piece.rep1, more) /\ RowRepOK(piece.rep2, more)
  /\ pc \in {"look", "take"} => PickOK(piece.pick)
  /\ pc = "again" => piece.ip <= piece.to

\* The steps of the optimal finder lead forward, and those taken lie behind one another.
EdgeOK(e) ==
  /\ piece.anchor <= e.from /\ e.from < e.to /\ e.to <= piece.to
  /\ e.off # 0 => CanCopy(World, e.from, e.to - e.from, e.off)
WayOK(from) ==
  /\ \A k \in 1..Len(piece.way) :
       from <= piece.way[k].from /\ EdgeOK(piece.way[k]) /\ piece.way[k].off # 0
  /\ \A j, k \in 1..Len(piece.way) : j < k => piece.way[j].to <= piece.way[k].from
OptimalOK ==
  /\ pc \in SearchPcs /\ piece.finder # "optimal" => piece.edges = {}
  /\ pc \in {"search", "back"} => \A e \in piece.edges : EdgeOK(e)
  /\ pc = "back" => piece.anchor <= piece.ip /\ piece.ip <= piece.to /\ WayOK(piece.ip)
  /\ pc = "way" => WayOK(piece.anchor)

FoundOK ==
  pc = "found" =>
    \E mid \in Nat : Rebuilt(World, block.seqs, block.lits, block.from, mid, block.to)

IInv ==
  /\ TypeOK /\ FrameOK /\ BlockOK /\ CoverOK /\ PieceOK
  /\ SearchOK /\ RowsOK /\ OptimalOK /\ FoundOK

-----------------------------------------------------------------------------
(* What every step below needs: the constants are numbers, and the world   *)
(* of a state is one.                                                      *)

\* The constants, as numbers.
LEMMA Numbers ==
  /\ Window \in Nat \ {0} /\ BlockMax \in Nat \ {0} /\ BlockMax <= Window
  /\ \A n \in BlockLens : n \in Nat \ {0} /\ n <= BlockMax
  /\ Margin \in Nat \ {0} /\ MinMatch \in Nat \ {0} /\ MinMatch <= Margin
  /\ RepMin \in Nat \ {0} /\ SlideAt \in Nat /\ 2 * Window <= SlideAt
  /\ Depth \in Nat /\ Attempts \in Nat /\ StepLength \in Nat \ {0}
  /\ LdmMin \in Nat \ {0} /\ LdmStep \in Nat \ {0}
<1>1. Window \in Nat \ {0} /\ SlideAt \in Nat /\ 2 * Window <= SlideAt
  BY SearchAssumption
<1>2. BlockMax \in Nat \ {0} /\ BlockMax <= Window
  BY <1>1, SearchAssumption
<1>3. \A n \in BlockLens : n \in Nat \ {0} /\ n <= BlockMax
  BY <1>2, SearchAssumption
<1>4. Margin \in Nat /\ MinMatch \in Nat \ {0} /\ MinMatch <= Margin
  BY SearchAssumption
<1>5. RepMin \in Nat \ {0}
  BY <1>4, SearchAssumption
<1>6. Depth \in Nat /\ Attempts \in Nat /\ StepLength \in Nat \ {0}
  BY <1>4, SearchAssumption
<1>7. LdmMin \in Nat \ {0} /\ LdmStep \in Nat \ {0}
  BY SearchAssumption
<1> QED BY <1>1, <1>2, <1>3, <1>4, <1>5, <1>6, <1>7

\* A call's history is bytes, its repeat offsets are no zeros, and no stream only primes.
LEMMA HistoryIs ==
  ASSUME call \in Settings
  PROVE  /\ call.history \in Seq(Nat) /\ Len(call.history) \in Nat /\ call.reps \in RepsType
         /\ call.prime_only => ~call.stream
  BY InputAssumption DEF RepsType

\* The world of a state is one: positions, where the frame and the content begin.
LEMMA WorldIs ==
  ASSUME TypeOK, FrameOK
  PROVE  /\ WorldOK(World) /\ World.data = data /\ World.dropped = dropped
         /\ World.start = FrameStart /\ World.content = PayloadAt
         /\ FrameStart \in Int /\ PayloadAt \in Int /\ 0 <= FrameStart
         /\ PayloadAt <= off /\ FrameStart <= Upper(PayloadAt, 0)
         /\ Len(data) \in Nat /\ End \in Nat /\ off <= End
<1>1. PICK h \in Nat : h = Len(call.history)
  BY HistoryIs DEF TypeOK
<1>2. PICK dr \in Nat, o \in Nat, mx \in Nat : dr = dropped /\ o = off /\ mx = Len(data)
  BY DEF TypeOK
<1>3. dr + o <= mx /\ h <= dr + o /\ (call.prime_only => dr <= h)
  BY <1>1, <1>2 DEF FrameOK
<1>4. PayloadAt = h - dr
  BY <1>1, <1>2 DEF PayloadAt
<1>5. h - dr \in Int /\ h - dr <= o
  BY <1>1, <1>2, <1>3
<1>6. FrameStart = (IF call.prime_only THEN h - dr ELSE 0)
  BY <1>4 DEF FrameStart
<1>7. FrameStart \in Int /\ 0 <= FrameStart
  BY <1>1, <1>2, <1>3, <1>6
<1>8. FrameStart <= Upper(PayloadAt, 0)
  <2>1. h - dr <= Upper(h - dr, 0) /\ 0 <= Upper(h - dr, 0)
    BY <1>5 DEF Upper
  <2> QED BY <1>4, <1>6, <2>1, Zenon
<1>9. End = mx - dr
  BY <1>2 DEF End
<1>10. mx - dr \in Nat /\ o <= mx - dr
  BY <1>2, <1>3
<1>11. /\ World.data = data /\ World.dropped = dropped
       /\ World.start = FrameStart /\ World.content = PayloadAt
  BY DEF World
<1>12. data \in Seq(Nat)
  BY DEF TypeOK
<1>13. PICK f \in Int : f = FrameStart /\ 0 <= f
  BY <1>7
<1>14. dr + f >= 0
  BY <1>2, <1>13
<1>15. WorldOK(World)
  BY <1>2, <1>4, <1>5, <1>11, <1>12, <1>13, <1>14 DEF WorldOK
<1> QED BY <1>2, <1>4, <1>5, <1>7, <1>8, <1>9, <1>10, <1>11, <1>15

\* It changes only with the frame and when a stream slides.
LEMMA WorldStays ==
  ASSUME UNCHANGED <<call, data, dropped>>
  PROVE  /\ World' = World /\ FrameStart' = FrameStart /\ PayloadAt' = PayloadAt /\ End' = End
         /\ \A a, b : Slice(a, b)' = Slice(a, b)
  BY DEF World, FrameStart, PayloadAt, End, Slice

\* The literals of a stretch are its bytes.
LEMMA SliceIs ==
  ASSUME TypeOK, FrameOK, NEW a \in Nat, NEW b \in Nat, a <= b, b <= End
  PROVE  /\ Slice(a, b) \in Seq(Nat) /\ Len(Slice(a, b)) = b - a
         /\ \A i \in 1..(b - a) : Slice(a, b)[i] = Byte(World, a + (i - 1))
<1>1. PICK dr \in Nat, mx \in Nat : dr = dropped /\ mx = Len(data)
  BY DEF TypeOK
<1>2. PICK A \in Nat, B \in Nat : A = dr + a /\ B = dr + b
  <2>1. dr + a \in Nat /\ dr + b \in Nat
    BY <1>1
  <2> QED BY <2>1
<1>3. A <= B /\ B <= mx /\ B - A = b - a
  BY <1>1, <1>2 DEF End
<1>4. Slice(a, b) = SubSeq(data, A + 1, B)
  BY <1>1, <1>2 DEF Slice
<1>5. Part(data, A, B, Slice(a, b))
  <2>1. data \in Seq(Nat)
    BY DEF TypeOK
  <2> QED BY <1>1, <1>2, <1>3, <1>4, <2>1, PartIs
<1>6. ASSUME NEW i \in 1..(b - a) PROVE Slice(a, b)[i] = Byte(World, a + (i - 1))
  <2>1. Slice(a, b)[i] = data[A + i]
    BY <1>3, <1>5 DEF Part
  <2>2. dr + (a + (i - 1)) + 1 = A + i
    BY <1>1, <1>2
  <2> QED BY <1>1, <2>1, <2>2, WorldIs DEF Byte
<1> QED BY <1>3, <1>5, <1>6 DEF Part

\* What a finder compares is what the decoder copies.
LEMMA EqualSame ==
  ASSUME TypeOK, FrameOK, NEW m, NEW p, NEW n, Equal(m, p, n)
  PROVE  Same(World, m, p, n)
<1>1. \A x : At(x) = Byte(World, x)
  BY WorldIs DEF At, Byte
<1> QED BY <1>1 DEF Equal, Same

\* What a finder compares within the window, from where the frame begins on, the
\* decoder can copy.
LEMMA CanCopyNear ==
  ASSUME TypeOK, FrameOK, NEW m \in Int, NEW p \in Int, NEW len \in Nat,
         FrameStart <= m, m < p, p - m <= Window, Equal(m, p, len)
  PROVE  CanCopy(World, p, len, p - m)
<1>1. p - m \in Nat \ {0} /\ p - (p - m) = m
  OBVIOUS
<1>2. World.start <= m
  BY WorldIs
<1>3. Same(World, m, p, len)
  BY EqualSame
<1>4. Reaches(World, p - m, p)
  BY <1>1, <1>2, WorldIs DEF Reaches
<1> QED BY <1>1, <1>3, <1>4 DEF CanCopy

\* A repeat offset that fits the block leads to bytes the decoder has, too.
LEMMA CanCopyAgain ==
  ASSUME TypeOK, FrameOK, NEW rep \in Nat \ {0}, Fits(rep), NEW p \in Nat, p <= block.to,
         NEW low \in Int, FrameStart <= low, low <= p - rep, NEW len \in Nat, Equal(p - rep, p, len)
  PROVE  CanCopy(World, p, len, rep)
<1>1. PICK s \in Int, c \in Int, t \in Nat :
        s = FrameStart /\ c = PayloadAt /\ t = block.to
  <2>1. FrameStart \in Int /\ PayloadAt \in Int
    BY WorldIs
  <2>2. block.to \in Nat
    BY DEF TypeOK, BlockType
  <2> QED BY <2>1, <2>2
<1>2. p - rep >= s
  BY <1>1
<1>3. p - rep >= c => rep <= Window
  <2>1. Window \in Nat /\ (rep <= Window \/ t - c <= Window) /\ p <= t
    BY <1>1, Numbers DEF Fits
  <2> QED BY <1>1, <2>1
<1>4. Reaches(World, rep, p)
  BY <1>1, <1>2, <1>3, WorldIs DEF Reaches
<1>5. Same(World, p - rep, p, len)
  BY EqualSame
<1> QED BY <1>4, <1>5 DEF CanCopy

-----------------------------------------------------------------------------
(* The piece, as a step of a finder leaves it. *)

\* What a piece has found gives back the bytes up to a position.
Found(q, end) == Rebuilt(World, q.seqs, q.lits, pos, end, end)
\* Nothing but its sequences, its literals, its place and its repeat offset differs.
Alike1(q) ==
  /\ q.finder = piece.finder /\ q.to = piece.to /\ q.lowest = piece.lowest
  /\ q.way = piece.way /\ q.edges = piece.edges

\* The piece and the block, field by field.
LEMMA PieceIs ==
  ASSUME TypeOK
  PROVE  /\ piece.to \in Nat /\ piece.ip \in Nat /\ piece.anchor \in Nat
         /\ piece.lowest \in Int /\ piece.lowest1 \in Int
         /\ piece.rep1 \in Nat /\ piece.rep2 \in Nat /\ piece.pick \in PickType
         /\ piece.edges \in SUBSET EdgeType /\ piece.way \in Seq(EdgeType)
         /\ piece.seqs \in Seq(Sequence) /\ piece.lits \in Seq(Nat)
         /\ block.from \in Nat /\ block.to \in Nat /\ block.hint \in [1..3 -> Nat]
         /\ block.seqs \in Seq(Sequence) /\ block.lits \in Seq(Nat) /\ pos \in Nat
  BY DEF TypeOK, PieceType, BlockType

\* Emit: the literals up to a match and the match, behind what was found.
LEMMA EmitIs ==
  ASSUME TypeOK, FrameOK, Found(piece, piece.anchor),
         NEW start \in Nat, piece.anchor <= start, start <= End,
         NEW len, NEW o, CanCopy(World, start, len, o)
  PROVE  LET q == Emit(start, len, o)
         IN /\ q \in PieceType /\ Alike1(q) /\ Found(q, start + len)
            /\ q.ip = piece.ip /\ q.anchor = piece.anchor /\ q.rep1 = piece.rep1
            /\ q.rep2 = piece.rep2 /\ q.lowest1 = piece.lowest1 /\ q.pick = piece.pick
<1> DEFINE s == [lit |-> start - piece.anchor, len |-> len, off |-> o]
           seqs == Append(piece.seqs, s)
           lits == piece.lits \o Slice(piece.anchor, start)
<1>1. piece \in PieceType
  BY DEF TypeOK
<1>2. /\ Slice(piece.anchor, start) \in Seq(Nat)
      /\ Len(Slice(piece.anchor, start)) = start - piece.anchor
      /\ \A i \in 1..(start - piece.anchor) :
           Slice(piece.anchor, start)[i] = Byte(World, piece.anchor + (i - 1))
  BY PieceIs, SliceIs
<1>3. Rebuilt(World, piece.seqs, lits, pos, piece.anchor, start)
  BY <1>2, RebuiltLits DEF Found
<1> DEFINE lit == start - piece.anchor
<1>4. Rebuilt(World, Append(piece.seqs, [lit |-> lit, len |-> len, off |-> o]), lits, pos,
              start + len, start + len)
  <2> HIDE DEF lits
  <2>1. lit = start - piece.anchor
    OBVIOUS
  <2> HIDE DEF lit
  <2> QED BY <1>3, <2>1, RebuiltSeq
<1>5. Rebuilt(World, seqs, lits, pos, start + len, start + len)
  BY <1>4
<1>6. seqs \in Seq(Sequence) /\ lits \in Seq(Nat)
  BY <1>5 DEF Rebuilt
<1>7. Emit(start, len, o) = [piece EXCEPT !.seqs = seqs, !.lits = lits]
  BY DEF Emit
<1> HIDE DEF seqs, lits
<1> DEFINE q == [piece EXCEPT !.seqs = seqs, !.lits = lits]
<1>8. q \in PieceType
  BY <1>1, <1>6 DEF PieceType
<1>9. /\ q.seqs = seqs /\ q.lits = lits
      /\ q.finder = piece.finder /\ q.to = piece.to /\ q.lowest = piece.lowest
      /\ q.way = piece.way /\ q.edges = piece.edges
      /\ q.ip = piece.ip /\ q.anchor = piece.anchor /\ q.rep1 = piece.rep1
      /\ q.rep2 = piece.rep2 /\ q.lowest1 = piece.lowest1 /\ q.pick = piece.pick
  BY <1>1 DEF PieceType
<1> HIDE DEF q
<1>10. Found(q, start + len)
  BY <1>5, <1>9 DEF Found
<1>11. Emit(start, len, o) = q
  BY <1>7 DEF q
<1> QED BY <1>8, <1>9, <1>10, <1>11 DEF Alike1

\* A search step that leaves the piece in order: what it found is right, up to its
\* anchor, and the offset to repeat fits.
Good(q) ==
  /\ q \in PieceType /\ Alike1(q) /\ Found(q, q.anchor)
  /\ q.anchor <= q.to /\ q.anchor <= q.ip /\ Fits(q.rep1)

\* Before a step of a search.
Ready ==
  /\ TypeOK /\ FrameOK /\ BlockOK /\ CoverOK /\ PieceOK /\ SearchOK
  /\ pc \in SearchPcs

\* Where a search stands: in its piece, in its block, in the workspace.
LEMMA ReadyIs ==
  ASSUME Ready
  PROVE  /\ TypeOK /\ FrameOK /\ Found(piece, piece.anchor) /\ Fits(piece.rep1)
         /\ pos <= piece.to /\ piece.to <= block.to /\ block.to = off /\ piece.to <= End
         /\ piece.anchor <= piece.to /\ piece.anchor <= piece.ip
         /\ Margin <= piece.to /\ Limit \in Nat /\ Limit = piece.to - Margin
         /\ FrameStart <= piece.lowest /\ 0 <= piece.lowest /\ piece.lowest <= pos
         /\ pos <= piece.anchor /\ (Searching => piece.ip <= Limit)
<1>1. TypeOK /\ FrameOK /\ Found(piece, piece.anchor) /\ Fits(piece.rep1)
  BY DEF Ready, PieceOK, SearchOK, PiecePcs, Found
<1>2. /\ pos <= piece.to /\ piece.to <= block.to /\ block.to = off
      /\ piece.anchor <= piece.to /\ piece.anchor <= piece.ip
      /\ Margin <= piece.to
      /\ FrameStart <= piece.lowest /\ 0 <= piece.lowest /\ piece.lowest <= pos
  BY DEF Ready, PieceOK, SearchOK, PiecePcs, BlockOK, SearchPcs
<1>3. piece.to <= End
  <2>1. PICK t \in Nat, b \in Nat, e \in Nat : t = piece.to /\ b = block.to /\ e = End /\ off <= End
    BY <1>1, PieceIs, WorldIs
  <2> QED BY <1>2, <2>1
<1>4. Limit \in Nat /\ Limit = piece.to - Margin /\ Above(piece.to, Margin) = Limit
  <2>1. PICK t \in Nat, m \in Nat : t = piece.to /\ m = Margin /\ m <= t
    BY <1>1, <1>2, PieceIs, Numbers
  <2>2. Limit = t - m /\ t - m \in Nat
    BY <2>1 DEF Limit
  <2>3. Above(t, m) = t - m
    BY <2>1 DEF Above
  <2> QED BY <2>1, <2>2, <2>3
<1>5. pos <= piece.anchor
  BY <1>1 DEF Found, Rebuilt
<1>6. Searching => piece.ip <= Limit
  BY <1>4 DEF Searching
<1> QED BY <1>1, <1>2, <1>3, <1>4, <1>5, <1>6

\* A match at a repeat offset, a byte on.
LEMMA RepCopyIs ==
  ASSUME Ready, Searching, RepLength >= RepMin
  PROVE  /\ RepLength \in Nat \ {0} /\ piece.ip + 1 + RepLength <= piece.to
         /\ piece.rep1 \in Nat \ {0} /\ CanCopy(World, piece.ip + 1, RepLength, piece.rep1)
<1> DEFINE at == piece.ip + 1
           n == MatchLength(at - piece.rep1, at, piece.to)
<1>1. TypeOK /\ FrameOK /\ Found(piece, piece.anchor) /\ Fits(piece.rep1)
  BY ReadyIs
<1>2. RepLength = n /\ piece.rep1 # 0 /\ at - piece.rep1 >= piece.lowest
  BY Numbers DEF RepLength
<1>3. PICK ip \in Nat, to \in Nat, an \in Nat, r \in Nat, lo \in Int, li \in Nat, bt \in Nat :
        /\ ip = piece.ip /\ to = piece.to /\ an = piece.anchor /\ r = piece.rep1
        /\ lo = piece.lowest /\ li = Limit /\ bt = block.to
  BY <1>1, PieceIs, ReadyIs
<1>4. an <= ip /\ ip <= li /\ li = to - Margin /\ to <= bt /\ FrameStart <= lo
  BY <1>3, ReadyIs
<1>5. at \in Nat /\ at = ip + 1 /\ at <= to /\ an <= at /\ at <= bt
  BY <1>3, <1>4, Numbers
<1>6. n \in 0..(to - at) /\ Equal(at - r, at, n)
  <2>1. at \in Int /\ to \in Int /\ at <= to
    BY <1>3, <1>5
  <2> HIDE DEF at
  <2> QED BY <1>3, <2>1, MatchLengthIs
<1> HIDE DEF n
<1>7. CanCopy(World, at, n, r)
  <2>1. r \in Nat \ {0} /\ lo <= at - r /\ n \in Nat /\ Fits(r)
    BY <1>1, <1>2, <1>3, <1>5, <1>6
  <2> HIDE DEF at
  <2> QED BY <1>1, <1>3, <1>4, <1>5, <1>6, <2>1, CanCopyAgain
<1>8. n >= RepMin /\ n # 0
  <2>1. PICK rm \in Nat : rm = RepMin /\ rm # 0
    BY Numbers
  <2> QED BY <1>2, <1>6, <2>1
<1>9. at + n <= to /\ at + n = piece.ip + 1 + n
  BY <1>3, <1>5, <1>6
<1> QED BY <1>2, <1>3, <1>6, <1>7, <1>8, <1>9

\* Taking the match at the repeat offset leaves the piece in order.
LEMMA RepTakenIs ==
  ASSUME Ready, Searching, RepLength >= RepMin
  PROVE  Good(RepTaken)
<1> DEFINE at == piece.ip + 1
           n == RepLength
           e == Emit(at, RepLength, piece.rep1)
<1>1. TypeOK /\ FrameOK /\ Found(piece, piece.anchor) /\ Fits(piece.rep1)
  BY ReadyIs
<1>2. n \in Nat \ {0} /\ at + n <= piece.to /\ CanCopy(World, at, n, piece.rep1)
  BY RepCopyIs
<1>3. PICK ip \in Nat, to \in Nat, an \in Nat :
        ip = piece.ip /\ to = piece.to /\ an = piece.anchor
  BY <1>1, PieceIs
<1>5. at \in Nat /\ at <= to /\ an <= at
  <2>1. an <= ip
    BY <1>3, ReadyIs
  <2> QED BY <1>2, <1>3, <2>1
<1> HIDE DEF n
<1>8. to <= End
  BY <1>3, ReadyIs
<1>9. /\ e \in PieceType /\ Alike1(e) /\ Found(e, at + n)
      /\ e.rep1 = piece.rep1
  <2>1. at <= End
    BY <1>1, <1>3, <1>5, <1>8, WorldIs
  <2>2. e = Emit(at, n, piece.rep1)
    BY DEF n
  <2> HIDE DEF at, e
  <2> QED BY <1>1, <1>2, <1>3, <1>5, <2>1, <2>2, EmitIs
<1> DEFINE end == at + n
           q == [e EXCEPT !.ip = end, !.anchor = end]
<1>10. RepTaken = q
  BY DEF RepTaken, n
<1>11. end \in Nat /\ end <= to
  BY <1>2, <1>3, <1>5
<1> HIDE DEF e, end
<1>12. /\ q \in PieceType /\ q.ip = end /\ q.anchor = end /\ q.seqs = e.seqs /\ q.lits = e.lits
       /\ q.finder = e.finder /\ q.to = e.to /\ q.lowest = e.lowest /\ q.rep1 = e.rep1
       /\ q.way = e.way /\ q.edges = e.edges
  BY <1>9, <1>11 DEF PieceType
<1> HIDE DEF q
<1>13. Alike1(q)
  BY <1>9, <1>12 DEF Alike1
<1>14. Found(q, end)
  BY <1>9, <1>12 DEF Found, end
<1>15. Fits(q.rep1)
  BY <1>1, <1>9, <1>12
<1>16. q.anchor <= q.to /\ q.anchor <= q.ip
  BY <1>3, <1>11, <1>12, <1>13 DEF Alike1
<1>17. Good(q)
  BY <1>12, <1>13, <1>14, <1>15, <1>16 DEF Good
<1> QED BY <1>10, <1>17

\* A match of the bytes at p that the decoder can follow.
Match(p, best) ==
  /\ best.at \in Int /\ best.len \in Nat \ {0} /\ FrameStart <= best.at /\ best.at < p
  /\ p - best.at <= Window /\ p + best.len <= piece.to /\ Equal(best.at, p, best.len)

\* The furthest back a match may begin is within the window, the piece and the frame.
LEMMA LowIs ==
  ASSUME TypeOK, NEW p \in Int
  PROVE  Low(p) \in Int /\ piece.lowest <= Low(p) /\ p - Window <= Low(p)
<1>1. PICK lo \in Int, w \in Nat : lo = piece.lowest /\ w = Window
  BY PieceIs, Numbers
<1> QED BY <1>1 DEF Low

\* What Longest gives is a match, whatever the positions looked at.
LEMMA LongestIs ==
  ASSUME Ready, NEW p \in Nat, p <= piece.to, NEW low \in Int, FrameStart <= low, p - Window <= low,
         NEW looked, NEW best \in Longest(looked, p, low)
  PROVE  Match(p, best) /\ MinMatch <= best.len /\ low <= best.at
<1>1. TypeOK /\ FrameOK
  BY ReadyIs
<1>2. PICK i \in DOMAIN looked :
        /\ looked[i] \in low..(p - 1) /\ MatchLength(looked[i], p, piece.to) >= MinMatch
        /\ best = [at |-> looked[i], len |-> MatchLength(looked[i], p, piece.to)]
  BY DEF Longest
<1>3. PICK m \in Int, to \in Nat, f \in Int :
        m = looked[i] /\ to = piece.to /\ f = FrameStart /\ low <= m /\ m < p
  <2>1. looked[i] \in Int /\ low <= looked[i] /\ looked[i] < p
    BY <1>2
  <2> QED BY <1>1, <2>1, PieceIs, WorldIs
<1>4. MatchLength(m, p, to) \in 0..(to - p) /\ Equal(m, p, MatchLength(m, p, to))
  BY <1>3, MatchLengthIs
<1>5. PICK n \in Nat : n = MatchLength(m, p, to) /\ n <= to - p
  BY <1>3, <1>4
<1>6. best.at = m /\ best.len = n /\ MinMatch <= n
  BY <1>2, <1>3, <1>5
<1>7. n # 0 /\ f <= m /\ p - m <= Window /\ p + n <= to
  BY <1>3, <1>5, <1>6, Numbers
<1> QED BY <1>3, <1>4, <1>5, <1>6, <1>7 DEF Match

\* So is a position that passes match_ok and the length it has.
LEMMA LengthAtIs ==
  ASSUME Ready, NEW m, NEW p \in Nat, p <= piece.to
  PROVE  /\ LengthAt(m, p) \in Nat
         /\ \A best : best.at = m /\ best.len = LengthAt(m, p) /\ best.len > 0 => Match(p, best)
<1>1. CASE MatchOk(m, p)
  <2>1. TypeOK /\ FrameOK
    BY ReadyIs
  <2>2. PICK to \in Nat, lo \in Int, f \in Int :
          to = piece.to /\ lo = piece.lowest /\ f = FrameStart /\ f <= lo
    BY <2>1, ReadyIs, PieceIs, WorldIs
  <2>3. m \in Int /\ lo <= m /\ m < p /\ p - m <= Window
    BY <1>1, <2>2 DEF MatchOk
  <2>4. LengthAt(m, p) = MatchLength(m, p, to)
    BY <1>1, <2>2 DEF LengthAt
  <2>5. MatchLength(m, p, to) \in 0..(to - p) /\ Equal(m, p, MatchLength(m, p, to))
    BY <2>2, MatchLengthIs
  <2>6. PICK n \in Nat : n = LengthAt(m, p) /\ n <= to - p /\ Equal(m, p, n)
    BY <2>2, <2>4, <2>5
  <2>7. ASSUME NEW best, best.at = m, best.len = n, best.len > 0 PROVE Match(p, best)
    <3>1. p + n <= to /\ n # 0 /\ f <= m
      BY <2>2, <2>3, <2>6, <2>7
    <3> QED BY <2>2, <2>3, <2>6, <2>7, <3>1 DEF Match
  <2> QED BY <2>6, <2>7
<1>2. CASE ~MatchOk(m, p)
  BY <1>2 DEF LengthAt
<1> QED BY <1>1, <1>2

\* What is drawn back over bytes that agree still agrees.
LEMMA BackEqual ==
  ASSUME NEW m \in Int, NEW p \in Int, NEW len \in Nat, Equal(m, p, len), NEW b \in Nat,
         AgreeBack(m, p, b)
  PROVE  Equal(m - b, p - b, len + b)
<1>1. SUFFICES ASSUME NEW k \in 0..((len + b) - 1) PROVE At((m - b) + k) = At((p - b) + k)
  BY DEF Equal
<1>2. CASE k < b
  <2>1. b - 1 - k \in 0..(b - 1)
    BY <1>2
  <2>2. m - 1 - (b - 1 - k) = (m - b) + k /\ p - 1 - (b - 1 - k) = (p - b) + k
    OBVIOUS
  <2> QED BY <2>1, <2>2 DEF AgreeBack
<1>3. CASE ~(k < b)
  <2>1. k - b \in 0..(len - 1) /\ m + (k - b) = (m - b) + k /\ p + (k - b) = (p - b) + k
    BY <1>3
  <2> QED BY <2>1 DEF Equal
<1> QED BY <1>2, <1>3

\* A match is drawn back, at most to where the decoder's bytes begin, and taken.
LEMMA TakenIs ==
  ASSUME Ready, NEW p \in Nat, piece.anchor <= p, NEW best, Match(p, best)
  PROVE  Good(Taken(p, best)) /\ Fits(p - best.at) /\ p - best.at \in Nat
<1> DEFINE back == Back(p, best.at, FrameStart)
           o == p - best.at
           start == p - back
           len == best.len + back
           e == Emit(start, len, o)
           end == p + best.len
           q == [e EXCEPT !.rep1 = o, !.ip = end, !.anchor = end]
<1>1. TypeOK /\ FrameOK /\ Found(piece, piece.anchor)
  BY ReadyIs
<1>2. PICK m \in Int, n \in Nat, f \in Int, to \in Nat, an \in Nat :
        /\ m = best.at /\ n = best.len /\ f = FrameStart /\ to = piece.to /\ an = piece.anchor
        /\ f <= m /\ m < p /\ p - m <= Window /\ p + n <= to /\ Equal(m, p, n) /\ an <= p
  <2>1. best.at \in Int /\ best.len \in Nat /\ FrameStart \in Int /\ piece.to \in Nat /\ piece.anchor \in Nat
    BY <1>1, PieceIs, WorldIs DEF Match
  <2> QED BY <2>1 DEF Match
<1>3. /\ back \in Nat /\ back <= p - an /\ back <= m - f /\ AgreeBack(m, p, back)
  <2>1. back = Back(p, m, f)
    BY <1>2
  <2>2. p \in Int /\ piece.anchor \in Int /\ piece.anchor <= p
    BY <1>2
  <2> HIDE DEF back
  <2> QED BY <1>2, <2>1, <2>2, BackIs
<1> HIDE DEF back
<1>4. Equal(m - back, p - back, n + back)
  BY <1>2, <1>3, BackEqual
<1>5. /\ start \in Nat /\ an <= start /\ start <= to /\ m - back \in Int /\ f <= m - back
      /\ m - back < start /\ start - (m - back) = o /\ o <= Window /\ len \in Nat /\ o \in Nat
      /\ len = n + back /\ o = p - m /\ start + len = end /\ end \in Nat /\ end <= to
  BY <1>2, <1>3
<1> HIDE DEF start, o, len, end
<1>6. CanCopy(World, start, len, o)
  <2>1. Equal(m - back, start, len)
    BY <1>4, <1>5 DEF start
  <2>2. CanCopy(World, start, len, start - (m - back))
    <3> DEFINE x == m - back
    <3>1. x \in Int /\ x < start /\ start - x <= Window /\ FrameStart <= x /\ Equal(x, start, len)
      BY <1>2, <1>5, <2>1
    <3> HIDE DEF x
    <3>2. CanCopy(World, start, len, start - x)
      BY <1>1, <1>5, <3>1, CanCopyNear
    <3> QED BY <3>2 DEF x
  <2> QED BY <1>5, <2>2
<1>7. /\ e \in PieceType /\ Alike1(e) /\ Found(e, start + len)
  <2>1. start <= End
    <3>1. PICK x \in Nat : x = End /\ to <= x
      BY <1>1, <1>2, ReadyIs, WorldIs
    <3> QED BY <1>5, <3>1
  <2> QED BY <1>1, <1>2, <1>5, <1>6, <2>1, EmitIs
<1>8. Taken(p, best) = q
  BY DEF Taken, back, o, start, len, end
<1> HIDE DEF e
<1>9. /\ q \in PieceType /\ q.ip = end /\ q.anchor = end /\ q.seqs = e.seqs /\ q.lits = e.lits
      /\ q.finder = e.finder /\ q.to = e.to /\ q.lowest = e.lowest /\ q.rep1 = o
      /\ q.way = e.way /\ q.edges = e.edges
  BY <1>5, <1>7 DEF PieceType
<1> HIDE DEF q
<1>10. Alike1(q)
  BY <1>7, <1>9 DEF Alike1
<1>11. Found(q, end)
  BY <1>5, <1>7, <1>9 DEF Found
<1>12. Fits(o)
  BY <1>5 DEF Fits
<1>13. q.anchor <= q.to /\ q.anchor <= q.ip
  BY <1>2, <1>5, <1>9, <1>10 DEF Alike1
<1>14. Good(q)
  BY <1>9, <1>10, <1>11, <1>12, <1>13 DEF Good
<1> QED BY <1>5, <1>8, <1>12, <1>14 DEF o

\* The fast finder may go on with another offset to repeat.
LEMMA GoodRep ==
  ASSUME NEW q, Good(q), NEW rep \in Nat, Fits(rep)
  PROVE  Good([q EXCEPT !.rep1 = rep])
<1> DEFINE r == [q EXCEPT !.rep1 = rep]
<1>1. q \in PieceType
  BY DEF Good
<1>2. /\ r \in PieceType /\ r.ip = q.ip /\ r.anchor = q.anchor /\ r.seqs = q.seqs
      /\ r.lits = q.lits /\ r.finder = q.finder /\ r.to = q.to /\ r.lowest = q.lowest
      /\ r.rep1 = rep /\ r.way = q.way /\ r.edges = q.edges
  BY <1>1 DEF PieceType
<1> HIDE DEF r
<1>3. Good(r)
  BY <1>2 DEF Good, Alike1, Found
<1> QED BY <1>3 DEF r

\* A step on over literals.
LEMMA OnwardIs ==
  ASSUME Ready, NEW step \in Nat
  PROVE  Good(Onward(step)) /\ Onward(step).ip >= piece.ip + step
<1> DEFINE n == (piece.ip - piece.anchor) \div StepLength
           ip == piece.ip + n + step
           r == [piece EXCEPT !.ip = ip]
<1>1. TypeOK /\ Found(piece, piece.anchor) /\ Fits(piece.rep1) /\ piece \in PieceType
  BY ReadyIs DEF TypeOK
<1>2. PICK x \in Nat, a \in Nat, to \in Nat : x = piece.ip /\ a = piece.anchor /\ to = piece.to /\ a <= x /\ a <= to
  BY <1>1, ReadyIs, PieceIs
<1>3. n \in Nat
  <2>1. x - a \in Nat /\ StepLength \in Nat \ {0}
    BY <1>2, Numbers
  <2> QED BY <1>2, <2>1
<1>4. Onward(step) = r
  BY DEF Onward
<1> HIDE DEF n
<1>5. ip \in Nat /\ a <= ip /\ ip >= x + step
  BY <1>2, <1>3
<1> HIDE DEF ip
<1>6. /\ r \in PieceType /\ r.ip = ip /\ r.anchor = piece.anchor /\ r.seqs = piece.seqs
      /\ r.lits = piece.lits /\ r.finder = piece.finder /\ r.to = piece.to
      /\ r.lowest = piece.lowest /\ r.rep1 = piece.rep1
      /\ r.way = piece.way /\ r.edges = piece.edges
  BY <1>1, <1>5 DEF PieceType
<1> HIDE DEF r
<1>7. Good(r)
  BY <1>1, <1>2, <1>5, <1>6 DEF Good, Alike1, Found
<1> QED BY <1>2, <1>4, <1>5, <1>6, <1>7

-----------------------------------------------------------------------------
(* A step within a piece leaves what is around it as it is. *)

Outside == <<call, data, dropped, off, reps, block, hits, pos>>

\* What a piece stands in stays right.
LEMMA OutsideKept ==
  ASSUME IInv, pc \in PiecePcs, pc' \in PiecePcs, UNCHANGED Outside, piece' \in PieceType
  PROVE  TypeOK' /\ FrameOK' /\ BlockOK' /\ CoverOK' /\ FoundOK'
<1>1. UNCHANGED <<call, data, dropped>>
  BY DEF Outside
<1>2. World' = World /\ PayloadAt' = PayloadAt
  BY <1>1, WorldStays
<1>3. TypeOK'
  BY DEF IInv, TypeOK, AllPcs, Outside
<1>4. FrameOK'
  BY DEF IInv, FrameOK, Outside
<1>5. BlockOK'
  BY <1>2 DEF IInv, BlockOK, Fits, PiecePcs, SearchPcs, Outside
<1>6. CoverOK'
  <2>1. pc # "far" /\ pc' # "far"
    BY DEF PiecePcs, SearchPcs
  <2>2. Covered = pos /\ Covered' = pos
    BY <2>1 DEF Covered, Outside
  <2>3. /\ block.from <= pos /\ pos <= block.to
        /\ Rebuilt(World, block.seqs, block.lits, block.from, pos, pos)
        /\ \A h \in hits : HitOK(h, pos)
    BY <2>1, <2>2 DEF IInv, CoverOK
  <2>4. \A h \in hits : HitOK(h, pos)'
    BY <1>2, <2>3 DEF HitOK, Outside
  <2> QED BY <1>2, <2>1, <2>2, <2>3, <2>4 DEF CoverOK, Outside
<1>7. FoundOK'
  BY DEF FoundOK, PiecePcs, SearchPcs
<1> QED BY <1>3, <1>4, <1>5, <1>6, <1>7

\* And the piece, if what it found is.
LEMMA PieceKept ==
  ASSUME IInv, pc \in PiecePcs, UNCHANGED Outside, piece'.to = piece.to,
         Found(piece', piece'.anchor), piece'.anchor <= piece'.to
  PROVE  PieceOK'
<1>1. World' = World
  BY WorldStays DEF Outside
<1> QED BY <1>1 DEF IInv, PieceOK, Found, Outside

\* A search is ready for its next step.
LEMMA SearchReady ==
  ASSUME IInv, pc \in SearchPcs
  PROVE  Ready
  BY DEF IInv, Ready

\* A step of the finders that take a match when they have found it.
LEMMA GoodStep ==
  ASSUME IInv, pc = "search", pc' = "search", UNCHANGED Outside, Good(piece'),
         piece.finder \notin {"rows", "optimal"}
  PROVE  IInv'
<1>1. pc \in PiecePcs /\ pc' \in PiecePcs /\ pc \in SearchPcs /\ pc' \in SearchPcs
  BY DEF PiecePcs, SearchPcs
<1>2. piece' \in PieceType /\ Alike1(piece') /\ Found(piece', piece'.anchor)
  BY DEF Good
<1>3. TypeOK' /\ FrameOK' /\ BlockOK' /\ CoverOK' /\ FoundOK'
  BY <1>1, <1>2, OutsideKept
<1>4. PieceOK'
  BY <1>1, <1>2, PieceKept DEF Good, Alike1
<1>5. FrameStart' = FrameStart /\ PayloadAt' = PayloadAt
  BY WorldStays DEF Outside
<1>6. SearchOK'
  <2>1. Fits(piece.rep1)'
    BY <1>5 DEF Good, Fits, Outside
  <2> QED BY <1>1, <1>2, <1>5, <2>1 DEF IInv, SearchOK, Good, Alike1, Outside
<1>7. RowsOK'
  BY <1>2 DEF RowsOK, Alike1
<1>8. OptimalOK'
  <2>1. piece'.edges = {}
    BY <1>1, <1>2 DEF IInv, OptimalOK, Alike1
  <2> QED BY <2>1 DEF OptimalOK
<1> QED BY <1>3, <1>4, <1>6, <1>7, <1>8 DEF IInv

\* RepMatch: greedy, lazy, dfast and tree finder at a repeat offset.
LEMMA RepMatchStep ==
  ASSUME IInv, RepMatch
  PROVE  IInv'
<1>1. /\ pc = "search" /\ pc' = "search" /\ UNCHANGED Outside /\ Searching
      /\ piece' = RepTaken /\ RepLength >= RepMin /\ piece.finder \notin {"rows", "optimal"}
  BY DEF RepMatch, Searching, Outside
<1>2. Good(RepTaken)
  BY <1>1, RepTakenIs, SearchReady DEF SearchPcs
<1> QED BY <1>1, <1>2, GoodStep

\* A chain walk gives a match or nothing.
LEMMA ChainSearchIs ==
  ASSUME Ready, NEW t, NEW p \in Nat, p <= piece.to, NEW best \in ChainSearch(t, p)
  PROVE  Match(p, best)
<1>1. Low(p) \in Int /\ piece.lowest <= Low(p) /\ p - Window <= Low(p)
  BY LowIs, ReadyIs
<1>2. FrameStart <= Low(p)
  <2>1. PICK f \in Int, lo \in Int : f = FrameStart /\ lo = piece.lowest /\ f <= lo
    BY ReadyIs, WorldIs, PieceIs
  <2> QED BY <1>1, <2>1
<1> DEFINE looked == Walk(Insert(t, p), p, t.head[Bucket(t, p)])
           low == Low(p)
<1>3. best \in Longest(looked, p, low)
  BY DEF ChainSearch
<1> HIDE DEF looked, low
<1>4. low \in Int /\ FrameStart <= low /\ p - Window <= low
  BY <1>1, <1>2 DEF low
<1> QED BY <1>3, <1>4, LongestIs

\* find_greedy.
LEMMA SearchGreedyStep ==
  ASSUME IInv, SearchGreedy
  PROVE  IInv'
<1>1. /\ pc = "search" /\ pc' = "search" /\ UNCHANGED Outside /\ Searching
      /\ piece.finder = "greedy"
      /\ \/ \E best \in ChainSearch(tables, piece.ip) : piece' = Taken(piece.ip, best)
         \/ piece' = Onward(1)
  BY DEF SearchGreedy, Searching, Outside
<1>2. Ready
  BY <1>1, SearchReady DEF SearchPcs
<1>3. piece.ip \in Nat /\ piece.anchor <= piece.ip /\ piece.ip <= piece.to
  <2>1. PICK x \in Nat, to \in Nat, li \in Nat :
          x = piece.ip /\ to = piece.to /\ li = Limit /\ x <= li /\ li = to - Margin
    BY <1>1, <1>2, ReadyIs, PieceIs
  <2> QED BY <1>2, <2>1, ReadyIs, Numbers
<1>4. ASSUME NEW best \in ChainSearch(tables, piece.ip) PROVE Good(Taken(piece.ip, best))
  BY <1>2, <1>3, ChainSearchIs, TakenIs
<1>5. Good(Onward(1))
  BY <1>2, OnwardIs
<1>6. Good(piece')
  BY <1>1, <1>4, <1>5
<1> QED BY <1>1, <1>6, GoodStep

\* The positions a finder looks ahead to are of the piece, and not before its anchor.
LEMMA AheadIs ==
  ASSUME Ready, Searching, NEW p \in (piece.ip)..Lower(piece.ip + Depth, Limit)
  PROVE  p \in Nat /\ piece.anchor <= p /\ p <= piece.to
<1>1. PICK x \in Nat, to \in Nat, li \in Nat, an \in Nat, de \in Nat :
        /\ x = piece.ip /\ to = piece.to /\ li = Limit /\ x <= li /\ li = to - Margin
        /\ an = piece.anchor /\ an <= x /\ de = Depth
  BY ReadyIs, PieceIs, Numbers
<1>2. x + de \in Int /\ li \in Int /\ Lower(x + de, li) \in Int /\ Lower(x + de, li) <= li
  BY <1>1 DEF Lower
<1>3. p \in x..Lower(x + de, li)
  BY <1>1
<1> QED BY <1>1, <1>2, <1>3, Numbers

\* find_lazy.
LEMMA SearchLazyStep ==
  ASSUME IInv, SearchLazy
  PROVE  IInv'
<1>1. /\ pc = "search" /\ pc' = "search" /\ UNCHANGED Outside /\ Searching
      /\ piece.finder = "lazy"
      /\ \/ \E p \in (piece.ip)..Lower(piece.ip + Depth, Limit) :
              \E best \in ChainSearch(InsertAll(tables, piece.ip, p - 1), p) : piece' = Taken(p, best)
         \/ piece' = Onward(1)
  BY DEF SearchLazy, Searching, Outside
<1>2. Ready
  BY <1>1, SearchReady DEF SearchPcs
<1>3. ASSUME NEW p \in (piece.ip)..Lower(piece.ip + Depth, Limit),
             NEW best \in ChainSearch(InsertAll(tables, piece.ip, p - 1), p)
      PROVE  Good(Taken(p, best))
  <2>1. p \in Nat /\ piece.anchor <= p /\ p <= piece.to
    BY <1>1, <1>2, AheadIs
  <2> QED BY <1>2, <2>1, ChainSearchIs, TakenIs
<1>4. Good(Onward(1))
  BY <1>2, OnwardIs
<1>5. Good(piece')
  BY <1>1, <1>3, <1>4
<1> QED BY <1>1, <1>5, GoodStep

\* Where a search is, and a byte on.
LEMMA HereIs ==
  ASSUME Ready, Searching
  PROVE  /\ piece.ip \in Nat /\ piece.anchor <= piece.ip /\ piece.ip <= piece.to
         /\ piece.ip + 1 \in Nat /\ piece.anchor <= piece.ip + 1 /\ piece.ip + 1 <= piece.to
         /\ piece.ip + 1 <= Limit + 1
<1>1. PICK x \in Nat, to \in Nat, li \in Nat, an \in Nat, ma \in Nat :
        /\ x = piece.ip /\ to = piece.to /\ li = Limit /\ x <= li /\ li = to - Margin
        /\ an = piece.anchor /\ an <= x /\ ma = Margin
  BY ReadyIs, PieceIs, Numbers
<1>2. 1 <= ma
  BY <1>1, Numbers
<1> QED BY <1>1, <1>2

\* find_dfast.
LEMMA SearchDoubleStep ==
  ASSUME IInv, SearchDouble
  PROVE  IInv'
<1> DEFINE ip == piece.ip
           known == PutBoth(tables, ip, Limit)
           candidate(m, p) == [at |-> m, len |-> LengthAt(m, p), ip |-> p]
           long == candidate(tables.long[LongHash(ip)], ip)
           short == candidate(tables.head[Hash(ip, MinMatch, Buckets)], ip)
           next == IF ip < Limit THEN {candidate(known.long[LongHash(ip + 1)], ip + 1)} ELSE {}
           worth == {c \in {long} : c.len > 0} \union {c \in {short} \union next : c.len > long.len}
<1>1. /\ pc = "search" /\ pc' = "search" /\ UNCHANGED Outside /\ Searching
      /\ piece.finder = "dfast"
      /\ \/ \E c \in worth : piece' = Taken(c.ip, c)
         \/ \E step \in {1, 2} : piece' = Onward(step)
  BY DEF SearchDouble, Searching, Outside
<1>2. Ready
  BY <1>1, SearchReady DEF SearchPcs
<1>3. /\ ip \in Nat /\ piece.anchor <= ip /\ ip <= piece.to
      /\ ip + 1 \in Nat /\ piece.anchor <= ip + 1 /\ ip + 1 <= piece.to
  BY <1>1, <1>2, HereIs
<1>4. ASSUME NEW m, NEW p \in {ip, ip + 1}, LengthAt(m, p) > 0
      PROVE  Good(Taken(p, candidate(m, p)))
  <2>1. p \in Nat /\ piece.anchor <= p /\ p <= piece.to
    BY <1>3
  <2> DEFINE c == candidate(m, p)
  <2>2. c.at = m /\ c.len = LengthAt(m, p)
    OBVIOUS
  <2> HIDE DEF c
  <2>3. Match(p, c)
    BY <1>2, <1>4, <2>1, <2>2, LengthAtIs
  <2>4. Good(Taken(p, c))
    BY <1>2, <2>1, <2>3, TakenIs
  <2> QED BY <2>4 DEF c
<1>5. ASSUME NEW c \in worth PROVE \E m, p : p \in {ip, ip + 1} /\ c = candidate(m, p) /\ c.len > 0 /\ p = c.ip
  <2>1. long.len \in Nat
    <3>1. long.len = LengthAt(tables.long[LongHash(ip)], ip)
      OBVIOUS
    <3> QED BY <1>2, <1>3, <3>1, LengthAtIs
  <2>2. \E m, p : p \in {ip, ip + 1} /\ c = candidate(m, p)
    BY Zenon
  <2>3. PICK m, p : p \in {ip, ip + 1} /\ c = candidate(m, p)
    BY <2>2
  <2>4. p = c.ip /\ c.len = LengthAt(m, p)
    BY <2>3
  <2>5. c.len \in Nat
    BY <1>2, <1>3, <2>3, <2>4, LengthAtIs
  <2>6. c.len > 0
    <3>1. c.len > 0 \/ c.len > long.len
      OBVIOUS
    <3> HIDE DEF long
    <3> QED BY <2>1, <2>5, <3>1
  <2> QED BY <2>3, <2>4, <2>6
<1>6. ASSUME NEW c \in worth PROVE Good(Taken(c.ip, c))
  <2>1. PICK m, p : p \in {ip, ip + 1} /\ c = candidate(m, p) /\ c.len > 0 /\ p = c.ip
    BY <1>5
  <2>2. c.len = LengthAt(m, p)
    BY <2>1
  <2> HIDE DEF candidate, worth
  <2> QED BY <1>4, <2>1, <2>2
<1>7. \A step \in {1, 2} : Good(Onward(step))
  BY <1>2, OnwardIs
<1> HIDE DEF worth
<1>8. Good(piece')
  BY <1>1, <1>6, <1>7
<1> QED BY <1>1, <1>8, GoodStep

\* find_fast.
LEMMA SearchFastStep ==
  ASSUME IInv, SearchFast
  PROVE  IInv'
<1> DEFINE ip == piece.ip
           slot(t, p) == t.head[Hash(p, MinMatch, Buckets)]
           known == PutShort(tables, ip, Limit)
           here == [at |-> slot(tables, ip), len |-> LengthAt(slot(tables, ip), ip)]
           next == [at |-> slot(known, ip + 1), len |-> LengthAt(slot(known, ip + 1), ip + 1)]
<1>1. /\ pc = "search" /\ pc' = "search" /\ UNCHANGED Outside /\ Searching
      /\ piece.finder = "fast"
      /\ \/ RepLength >= RepMin /\ piece' = RepTaken
         \/ /\ here.len > 0
            /\ \E rep \in {piece.rep1, ip - here.at} :
                 piece' = [Taken(ip, here) EXCEPT !.rep1 = rep]
         \/ next.len > 0 /\ piece' = [Taken(ip + 1, next) EXCEPT !.rep1 = piece.rep1]
         \/ \E step \in {1, 2} : piece' = Onward(step)
  BY DEF SearchFast, Searching, Outside
<1>2. Ready
  BY <1>1, SearchReady DEF SearchPcs
<1>3. /\ ip \in Nat /\ piece.anchor <= ip /\ ip <= piece.to
      /\ ip + 1 \in Nat /\ piece.anchor <= ip + 1 /\ ip + 1 <= piece.to
  BY <1>1, <1>2, HereIs
<1>4. here.at = slot(tables, ip) /\ here.len = LengthAt(slot(tables, ip), ip)
  OBVIOUS
<1>5. next.at = slot(known, ip + 1) /\ next.len = LengthAt(slot(known, ip + 1), ip + 1)
  OBVIOUS
<1>6. piece.rep1 \in Nat /\ Fits(piece.rep1)
  BY <1>2, ReadyIs, PieceIs
<1> HIDE DEF here, next, slot, known
<1>7. CASE RepLength >= RepMin /\ piece' = RepTaken
  BY <1>1, <1>2, <1>7, RepTakenIs, GoodStep
<1>8. CASE here.len > 0 /\ \E rep \in {piece.rep1, ip - here.at} : piece' = [Taken(ip, here) EXCEPT !.rep1 = rep]
  <2>1. Match(ip, here)
    BY <1>2, <1>3, <1>4, <1>8, LengthAtIs
  <2>2. Good(Taken(ip, here)) /\ ip - here.at \in Nat /\ Fits(ip - here.at)
    BY <1>2, <1>3, <2>1, TakenIs
  <2>3. PICK rep \in {piece.rep1, ip - here.at} : piece' = [Taken(ip, here) EXCEPT !.rep1 = rep]
    BY <1>8
  <2>4. rep \in Nat /\ Fits(rep)
    BY <1>6, <2>2, <2>3
  <2>5. Good([Taken(ip, here) EXCEPT !.rep1 = rep])
    BY <2>2, <2>4, GoodRep
  <2> QED BY <1>1, <2>3, <2>5, GoodStep
<1>9. CASE next.len > 0 /\ piece' = [Taken(ip + 1, next) EXCEPT !.rep1 = piece.rep1]
  <2>1. Match(ip + 1, next)
    BY <1>2, <1>3, <1>5, <1>9, LengthAtIs
  <2>2. Good(Taken(ip + 1, next))
    BY <1>2, <1>3, <2>1, TakenIs
  <2>3. Good([Taken(ip + 1, next) EXCEPT !.rep1 = piece.rep1])
    BY <1>6, <2>2, GoodRep
  <2> QED BY <1>1, <1>9, <2>3, GoodStep
<1>10. CASE \E step \in {1, 2} : piece' = Onward(step)
  <2>1. \A step \in {1, 2} : Good(Onward(step))
    BY <1>2, OnwardIs
  <2>2. Good(piece')
    BY <1>10, <2>1
  <2> QED BY <1>1, <2>2, GoodStep
<1> QED BY <1>1, <1>7, <1>8, <1>9, <1>10

\* A walk down the tree gives a match or nothing.
LEMMA TreeSearchIs ==
  ASSUME Ready, NEW t, NEW p \in Nat, p <= piece.to, NEW best \in TreeSearch(t, p).found
  PROVE  Match(p, best) /\ MinMatch <= best.len
<1>1. Low(p) \in Int /\ piece.lowest <= Low(p) /\ p - Window <= Low(p)
  BY LowIs, ReadyIs
<1>2. FrameStart <= Low(p)
  <2>1. PICK f \in Int, lo \in Int : f = FrameStart /\ lo = piece.lowest /\ f <= lo
    BY ReadyIs, WorldIs, PieceIs
  <2> QED BY <1>1, <2>1
<1>3. PICK looked : best \in Longest(looked, p, Low(p))
  BY DEF TreeSearch
<1> DEFINE low == Low(p)
<1>4. low \in Int /\ FrameStart <= low /\ p - Window <= low /\ best \in Longest(looked, p, low)
  BY <1>1, <1>2, <1>3
<1> HIDE DEF low
<1> QED BY <1>4, LongestIs

\* find_bt_lazy.
LEMMA SearchTreeStep ==
  ASSUME IInv, SearchTree
  PROVE  IInv'
<1>1. /\ pc = "search" /\ pc' = "search" /\ UNCHANGED Outside /\ Searching
      /\ piece.finder = "tree"
      /\ \/ \E p \in (piece.ip)..Lower(piece.ip + Depth, Limit) :
              \E best \in TreeSearch(TreeInsertAll(tables, piece.ip, p - 1), p).found :
                 piece' = Taken(p, best)
         \/ piece' = Onward(1)
  BY DEF SearchTree, Searching, Outside
<1>2. Ready
  BY <1>1, SearchReady DEF SearchPcs
<1>3. ASSUME NEW p \in (piece.ip)..Lower(piece.ip + Depth, Limit),
             NEW best \in TreeSearch(TreeInsertAll(tables, piece.ip, p - 1), p).found
      PROVE  Good(Taken(p, best))
  <2>1. p \in Nat /\ piece.anchor <= p /\ p <= piece.to
    BY <1>1, <1>2, AheadIs
  <2> QED BY <1>2, <2>1, TreeSearchIs, TakenIs
<1>4. Good(Onward(1))
  BY <1>2, OnwardIs
<1>5. Good(piece')
  BY <1>1, <1>3, <1>4
<1> QED BY <1>1, <1>5, GoodStep

-----------------------------------------------------------------------------
(* The row finder: a match in hand, and repeat offsets it asked about once. *)

\* What the decoder copies is what a finder compares.
LEMMA SameEqual ==
  ASSUME TypeOK, FrameOK, NEW m, NEW p, NEW n, Same(World, m, p, n)
  PROVE  Equal(m, p, n)
<1>1. \A x : At(x) = Byte(World, x)
  BY WorldIs DEF At, Byte
<1> QED BY <1>1 DEF Equal, Same

RowsLike(q) ==
  /\ q \in PieceType /\ Alike1(q) /\ q.seqs = piece.seqs /\ q.lits = piece.lits
  /\ q.anchor = piece.anchor /\ q.rep1 = piece.rep1 /\ q.rep2 = piece.rep2
  /\ q.lowest1 = piece.lowest1 /\ piece.anchor <= q.ip

\* A step of the row finder that emits nothing.
LEMMA RowStep ==
  ASSUME IInv, pc \in {"search", "look"}, piece.finder = "rows", UNCHANGED Outside,
         RowsLike(piece'), pc' \in {"search", "look", "take"},
         pc' \in {"look", "take"} => PickOK(piece'.pick)
  PROVE  IInv'
<1>1. pc \in PiecePcs /\ pc' \in PiecePcs /\ pc \in SearchPcs /\ pc' \in SearchPcs
  BY DEF PiecePcs, SearchPcs
<1>2. piece' \in PieceType /\ Alike1(piece')
  BY DEF RowsLike
<1>3. TypeOK' /\ FrameOK' /\ BlockOK' /\ CoverOK' /\ FoundOK'
  BY <1>1, <1>2, OutsideKept
<1>4. Ready
  BY <1>1, SearchReady
<1>5. PieceOK'
  <2>1. Found(piece', piece'.anchor)
    BY <1>4, ReadyIs DEF RowsLike, Found
  <2>2. piece'.anchor <= piece'.to /\ piece'.to = piece.to
    BY <1>4, ReadyIs DEF RowsLike, Alike1
  <2> QED BY <1>1, <2>1, <2>2, PieceKept
<1>6. FrameStart' = FrameStart /\ PayloadAt' = PayloadAt /\ World' = World
  BY WorldStays DEF Outside
<1>7. SearchOK'
  <2>1. Fits(piece.rep1)'
    BY <1>4, <1>6, ReadyIs DEF RowsLike, Fits, Outside
  <2> QED BY <1>1, <1>2, <1>6, <2>1 DEF IInv, SearchOK, RowsLike, Alike1, Outside
<1>8. RowsOK'
  <2>1. piece.lowest <= piece.lowest1 /\ RowRepOK(piece.rep1, 1) /\ RowRepOK(piece.rep2, 1)
    BY <1>1 DEF IInv, RowsOK
  <2>2. piece'.lowest <= piece'.lowest1 /\ RowRepOK(piece.rep1, 1)' /\ RowRepOK(piece.rep2, 1)'
    BY <2>1 DEF RowRepOK, RowsLike, Alike1
  <2>3. pc' \in {"look", "take"} => PickOK(piece.pick)'
    BY <1>6 DEF PickOK, RowsLike, Alike1
  <2>4. pc' # "again" /\ piece'.finder = "rows"
    BY <1>2 DEF Alike1
  <2> QED BY <2>2, <2>3, <2>4 DEF RowsOK
<1>9. OptimalOK'
  <2>1. piece'.edges = {}
    BY <1>1, <1>2 DEF IInv, OptimalOK, Alike1
  <2> QED BY <2>1 DEF OptimalOK
<1> QED BY <1>3, <1>5, <1>7, <1>8, <1>9 DEF IInv

\* What lies a whole row repeat offset back is within reach.
LEMMA RowRepIs ==
  ASSUME Ready, NEW rep \in Nat, NEW more \in {0, 1}, RowRepOK(rep, more),
         NEW p \in Nat, piece.anchor + more <= p, p <= piece.to, Repeated(p, rep) >= RepMin
  PROVE  /\ rep # 0 /\ Repeated(p, rep) \in Nat \ {0} /\ p + Repeated(p, rep) <= piece.to
         /\ CanCopy(World, p, Repeated(p, rep), rep)
<1>1. TypeOK /\ FrameOK
  BY ReadyIs
<1>2. PICK an \in Nat, lo \in Int, to \in Nat, f \in Int, w \in Nat, rm \in Nat :
        /\ an = piece.anchor /\ lo = piece.lowest /\ to = piece.to /\ f = FrameStart
        /\ w = Window /\ rm = RepMin /\ rm # 0 /\ f <= lo
  <2>1. FrameStart \in Int
    BY <1>1, WorldIs
  <2> QED BY <1>1, <2>1, PieceIs, ReadyIs, Numbers
<1>3. rep <= w /\ rep <= (an + more) - lo /\ an + more <= p /\ p <= to
  BY <1>2 DEF RowRepOK
<1>4. rep # 0
  <2>1. rep = 0 => Repeated(p, rep) = 0
    BY DEF Repeated
  <2> QED BY <1>2, <2>1
<1>5. Repeated(p, rep) = MatchLength(p - rep, p, to)
  BY <1>2, <1>4 DEF Repeated
<1>6. MatchLength(p - rep, p, to) \in 0..(to - p) /\ Equal(p - rep, p, MatchLength(p - rep, p, to))
  BY <1>2, <1>3, MatchLengthIs
<1>7. PICK n \in Nat : n = Repeated(p, rep) /\ n <= to - p /\ Equal(p - rep, p, n) /\ n >= rm
  BY <1>2, <1>5, <1>6
<1> DEFINE m == p - rep
<1>8. m \in Int /\ f <= m /\ m < p /\ p - m = rep /\ p - m <= w
  BY <1>2, <1>3, <1>4
<1>9. Equal(m, p, n)
  BY <1>7
<1> HIDE DEF m
<1>10. CanCopy(World, p, n, p - m)
  BY <1>1, <1>2, <1>8, <1>9, CanCopyNear
<1>11. n # 0 /\ p + n <= to
  BY <1>2, <1>3, <1>7
<1> QED BY <1>2, <1>4, <1>7, <1>8, <1>10, <1>11

\* A repeat offset that reached far enough at the last question still does a byte on.
LEMMA RepPickIs ==
  ASSUME Ready, RowRepOK(piece.rep1, 1), NEW p \in Nat, piece.anchor + 1 <= p, p <= piece.to,
         RepPick(p) # NoPick
  PROVE  RepPick(p) \in PickType /\ PickOK(RepPick(p))
<1> DEFINE n == Repeated(p, piece.rep1)
           pick == [start |-> p, len |-> n, off |-> 0]
<1>1. n >= RepMin /\ RepPick(p) = pick
  BY DEF RepPick
<1>2. piece.rep1 \in Nat
  BY PieceIs, ReadyIs
<1>3. /\ piece.rep1 # 0 /\ n \in Nat \ {0} /\ p + n <= piece.to
      /\ CanCopy(World, p, n, piece.rep1)
  BY <1>1, <1>2, RowRepIs
<1> HIDE DEF n
<1>4. pick \in PickType /\ pick.start = p /\ pick.len = n /\ pick.off = 0
  BY <1>3 DEF PickType
<1> HIDE DEF pick
<1>5. piece.anchor <= p
  <2>1. PICK an \in Nat : an = piece.anchor
    BY PieceIs, ReadyIs
  <2> QED BY <2>1
<1>6. PickOK(pick)
  BY <1>3, <1>4, <1>5 DEF PickOK
<1> QED BY <1>1, <1>4, <1>6

\* A row gives a match or nothing.
LEMMA RowSearchIs ==
  ASSUME Ready, piece.lowest <= piece.lowest1, NEW p \in Nat, piece.anchor <= p, p <= piece.to,
         NEW pick \in RowSearch(p).found
  PROVE  pick \in PickType /\ PickOK(pick) /\ pick.off # 0
<1> DEFINE low == Upper(piece.lowest1, Above(p, Window))
<1>1. TypeOK /\ FrameOK
  BY ReadyIs
<1>2. PICK looked, best :
        /\ best \in Longest(looked, p, low)
        /\ pick = [start |-> p, len |-> best.len, off |-> p - best.at]
  BY DEF RowSearch
<1>3. PICK l1 \in Int, lo \in Int, f \in Int, w \in Nat :
        /\ l1 = piece.lowest1 /\ lo = piece.lowest /\ f = FrameStart /\ w = Window
        /\ f <= lo /\ lo <= l1
  <2>1. FrameStart \in Int
    BY <1>1, WorldIs
  <2> QED BY <1>1, <2>1, PieceIs, ReadyIs, Numbers
<1>4. Above(p, w) \in Nat /\ Above(p, w) >= p - w
  BY <1>3 DEF Above
<1>5. low \in Int /\ l1 <= low /\ Above(p, w) <= low
  <2>1. Above(p, w) \in Int
    BY <1>4
  <2> QED BY <1>3, <2>1, Bounded
<1> HIDE DEF low
<1>6. f <= low /\ p - w <= low /\ lo <= low
  BY <1>3, <1>4, <1>5
<1>7. Match(p, best) /\ low <= best.at
  BY <1>2, <1>3, <1>5, <1>6, LongestIs
<1>8. PICK m \in Int, n \in Nat \ {0} : m = best.at /\ n = best.len
  BY <1>7 DEF Match
<1>9. f <= m /\ m < p /\ p - m <= w /\ p + n <= piece.to /\ Equal(m, p, n) /\ low <= m
  BY <1>3, <1>7, <1>8 DEF Match
<1>10. CanCopy(World, p, n, p - m)
  BY <1>1, <1>3, <1>8, <1>9, CanCopyNear
<1>11. p - m \in Nat /\ p - m # 0 /\ p - (p - m) = m /\ lo <= m
  BY <1>3, <1>5, <1>6, <1>8, <1>9
<1> DEFINE o == p - m
<1>12. pick = [start |-> p, len |-> n, off |-> o]
  BY <1>2, <1>8
<1>13. o \in Nat /\ o # 0 /\ p - o = m /\ CanCopy(World, p, n, o) /\ o <= w
  BY <1>9, <1>10, <1>11
<1> HIDE DEF o
<1>14. pick \in PickType /\ pick.start = p /\ pick.len = n /\ pick.off = o
  BY <1>8, <1>12, <1>13 DEF PickType
<1>15. PickOK(pick)
  BY <1>3, <1>8, <1>9, <1>11, <1>13, <1>14 DEF PickOK
<1> QED BY <1>13, <1>14, <1>15

\* A step on moves the position and nothing else.
LEMMA OnwardHow ==
  ASSUME TypeOK, piece.anchor <= piece.ip, NEW step \in Nat
  PROVE  \E x \in Nat : piece.ip + step <= x /\ Onward(step) = [piece EXCEPT !.ip = x]
<1> DEFINE n == (piece.ip - piece.anchor) \div StepLength
<1>1. PICK x \in Nat, a \in Nat : x = piece.ip /\ a = piece.anchor /\ a <= x
  BY PieceIs
<1>2. n \in Nat
  <2>1. x - a \in Nat /\ StepLength \in Nat \ {0}
    BY <1>1, Numbers
  <2> QED BY <1>1, <2>1
<1>3. Onward(step) = [piece EXCEPT !.ip = piece.ip + n + step]
  BY DEF Onward
<1> HIDE DEF n
<1>4. piece.ip + n + step \in Nat /\ piece.ip + step <= piece.ip + n + step
  BY <1>1, <1>2
<1> QED BY <1>3, <1>4

\* find_lazy_rows: a search.
LEMMA SearchRowsStep ==
  ASSUME IInv, SearchRows
  PROVE  IInv'
<1> DEFINE rep == RepPick(piece.ip + 1)
           wide == Onward(1)
           skip == wide.ip - piece.ip > SkipStep
<1>1. pc = "search" /\ UNCHANGED Outside /\ Searching /\ piece.finder = "rows"
  BY DEF SearchRows, Searching, Outside
<1>2. \/ rep # NoPick /\ piece' = [piece EXCEPT !.pick = rep] /\ pc' = "take"
      \/ /\ \E pick \in RowSearch(piece.ip).found \union ({rep} \ {NoPick}) :
              piece' = [piece EXCEPT !.pick = pick]
         /\ pc' = "look"
      \/ piece' = [wide EXCEPT !.skipping = skip] /\ pc' = pc
  BY DEF SearchRows
<1>3. Ready
  BY <1>1, SearchReady DEF SearchPcs
<1>4. /\ piece.ip \in Nat /\ piece.anchor <= piece.ip /\ piece.ip <= piece.to
      /\ piece.ip + 1 \in Nat /\ piece.ip + 1 <= piece.to /\ piece.anchor + 1 <= piece.ip + 1
  <2>1. PICK an \in Nat, x \in Nat : an = piece.anchor /\ x = piece.ip /\ an <= x
    BY <1>3, ReadyIs, PieceIs
  <2>2. an + 1 <= x + 1
    BY <2>1
  <2> QED BY <1>1, <1>3, <2>1, <2>2, HereIs
<1>5. piece.lowest <= piece.lowest1 /\ RowRepOK(piece.rep1, 1)
  BY <1>1 DEF IInv, RowsOK, SearchPcs
<1>6. piece \in PieceType
  BY DEF IInv, TypeOK
<1>7. ASSUME NEW pick \in PickType, PickOK(pick), piece' = [piece EXCEPT !.pick = pick],
             pc' \in {"take", "look"}
      PROVE  IInv'
  <2> DEFINE q == [piece EXCEPT !.pick = pick]
  <2>1. /\ q \in PieceType /\ q.ip = piece.ip /\ q.anchor = piece.anchor /\ q.seqs = piece.seqs
        /\ q.lits = piece.lits /\ q.finder = piece.finder /\ q.to = piece.to
        /\ q.lowest = piece.lowest /\ q.lowest1 = piece.lowest1 /\ q.rep1 = piece.rep1
        /\ q.rep2 = piece.rep2 /\ q.way = piece.way /\ q.edges = piece.edges /\ q.pick = pick
    BY <1>6 DEF PieceType
  <2>2. piece' = q
    BY <1>7
  <2> HIDE DEF q
  <2>3. RowsLike(piece')
    BY <1>4, <2>1, <2>2 DEF RowsLike, Alike1
  <2> QED BY <1>1, <1>7, <2>1, <2>2, <2>3, RowStep
<1>8. rep # NoPick => rep \in PickType /\ PickOK(rep)
  BY <1>3, <1>4, <1>5, RepPickIs
<1>9. \A pick \in RowSearch(piece.ip).found : pick \in PickType /\ PickOK(pick)
  BY <1>3, <1>4, <1>5, RowSearchIs
<1>10. ASSUME piece' = [wide EXCEPT !.skipping = skip], pc' = pc PROVE IInv'
  <2>1. PICK x \in Nat : piece.ip + 1 <= x /\ wide = [piece EXCEPT !.ip = x]
    BY <1>3, <1>4, OnwardHow, ReadyIs
  <2>2. skip \in BOOLEAN
    OBVIOUS
  <2> HIDE DEF wide, skip
  <2> DEFINE q == [wide EXCEPT !.skipping = skip]
  <2>3. /\ wide \in PieceType /\ wide.ip = x /\ wide.anchor = piece.anchor
        /\ wide.seqs = piece.seqs /\ wide.lits = piece.lits /\ wide.finder = piece.finder
        /\ wide.to = piece.to /\ wide.lowest = piece.lowest /\ wide.lowest1 = piece.lowest1
        /\ wide.rep1 = piece.rep1 /\ wide.rep2 = piece.rep2 /\ wide.way = piece.way
        /\ wide.edges = piece.edges
    BY <1>6, <2>1 DEF PieceType
  <2>4. /\ q \in PieceType /\ q.ip = wide.ip /\ q.anchor = wide.anchor /\ q.seqs = wide.seqs
        /\ q.lits = wide.lits /\ q.finder = wide.finder /\ q.to = wide.to
        /\ q.lowest = wide.lowest /\ q.lowest1 = wide.lowest1 /\ q.rep1 = wide.rep1
        /\ q.rep2 = wide.rep2 /\ q.way = wide.way /\ q.edges = wide.edges
    BY <2>2, <2>3 DEF PieceType
  <2>5. piece' = q
    BY <1>10
  <2> HIDE DEF q
  <2>6. piece.anchor <= x
    <3>1. PICK an \in Nat, i \in Nat : an = piece.anchor /\ i = piece.ip /\ an <= i /\ i + 1 <= x
      BY <1>3, <1>4, <2>1, ReadyIs, PieceIs
    <3> QED BY <3>1
  <2>7. RowsLike(piece')
    BY <2>3, <2>4, <2>5, <2>6 DEF RowsLike, Alike1
  <2> QED BY <1>1, <1>10, <2>7, RowStep
<1> HIDE DEF rep, wide, skip
<1> QED BY <1>2, <1>7, <1>8, <1>9, <1>10

\* find_lazy_rows: a byte on.
LEMMA LookAheadStep ==
  ASSUME IInv, LookAhead
  PROVE  IInv'
<1> DEFINE ip == piece.ip + 1
<1>1. pc = "look" /\ pc' = pc /\ UNCHANGED Outside /\ piece.ip < Limit /\ piece.finder = "rows"
  BY DEF LookAhead, Outside, IInv, RowsOK
<1>2. PICK pick \in ({piece.pick, RepPick(ip)} \ {NoPick}) \union RowSearch(ip).found :
        piece' = [piece EXCEPT !.ip = ip, !.pick = pick]
  BY DEF LookAhead
<1>3. Ready
  BY <1>1, SearchReady DEF SearchPcs
<1>4. ip \in Nat /\ piece.anchor <= ip /\ piece.anchor + 1 <= ip /\ ip <= piece.to
  <2>1. PICK x \in Nat, an \in Nat, to \in Nat, li \in Nat, ma \in Nat :
          /\ x = piece.ip /\ an = piece.anchor /\ to = piece.to /\ li = Limit /\ ma = Margin
          /\ an <= x /\ x < li /\ li = to - ma
    BY <1>1, <1>3, ReadyIs, PieceIs, Numbers
  <2> QED BY <2>1
<1>5. piece.lowest <= piece.lowest1 /\ RowRepOK(piece.rep1, 1)
  BY <1>1 DEF IInv, RowsOK, SearchPcs
<1>6. piece \in PieceType /\ piece.pick \in PickType /\ PickOK(piece.pick)
  BY <1>1, PieceIs DEF IInv, TypeOK, RowsOK
<1>7. RepPick(ip) # NoPick => RepPick(ip) \in PickType /\ PickOK(RepPick(ip))
  BY <1>3, <1>4, <1>5, RepPickIs
<1>8. \A x \in RowSearch(ip).found : x \in PickType /\ PickOK(x)
  BY <1>3, <1>4, <1>5, RowSearchIs
<1> HIDE DEF ip
<1>9. pick \in PickType /\ PickOK(pick)
  BY <1>2, <1>6, <1>7, <1>8
<1> DEFINE q == [piece EXCEPT !.ip = ip, !.pick = pick]
<1>10. /\ q \in PieceType /\ q.ip = ip /\ q.anchor = piece.anchor /\ q.seqs = piece.seqs
       /\ q.lits = piece.lits /\ q.finder = piece.finder /\ q.to = piece.to
       /\ q.lowest = piece.lowest /\ q.lowest1 = piece.lowest1 /\ q.rep1 = piece.rep1
       /\ q.rep2 = piece.rep2 /\ q.way = piece.way /\ q.edges = piece.edges /\ q.pick = pick
  BY <1>4, <1>6, <1>9 DEF PieceType
<1>11. piece' = q
  BY <1>2
<1> HIDE DEF q
<1>12. RowsLike(piece')
  BY <1>4, <1>10, <1>11 DEF RowsLike, Alike1
<1> QED BY <1>1, <1>9, <1>10, <1>11, <1>12, RowStep

\* A match of the row finder is emitted: straight after it the repeat offsets reach no
\* further than the bytes there are.
LEMMA RowTaken ==
  ASSUME IInv, pc \in SearchPcs, piece.finder = "rows", UNCHANGED Outside, pc' = "again",
         piece' \in PieceType, Alike1(piece'), piece'.lowest1 = piece.lowest1,
         NEW end \in Nat, piece'.anchor = end, piece'.ip = end, end <= piece.to,
         Found(piece', end),
         piece'.rep1 <= Window, piece'.rep1 <= end - piece.lowest,
         piece'.rep2 <= Window, piece'.rep2 <= end - piece.lowest
  PROVE  IInv'
<1>1. pc \in PiecePcs /\ pc' \in PiecePcs /\ pc' \in SearchPcs
  BY DEF PiecePcs, SearchPcs
<1>2. TypeOK' /\ FrameOK' /\ BlockOK' /\ CoverOK' /\ FoundOK'
  BY <1>1, OutsideKept
<1>3. PieceOK'
  BY <1>1, PieceKept DEF Alike1
<1>4. FrameStart' = FrameStart /\ PayloadAt' = PayloadAt /\ World' = World
  BY WorldStays DEF Outside
<1>5. SearchOK'
  <2>1. Fits(piece.rep1)'
    BY DEF Fits
  <2>2. end <= end
    OBVIOUS
  <2>3. piece.way = <<>>
    BY DEF IInv, SearchOK
  <2>4. /\ Margin <= piece.to /\ FrameStart <= piece.lowest /\ 0 <= piece.lowest /\ piece.lowest <= pos
    BY DEF IInv, SearchOK
  <2> QED BY <1>1, <1>4, <2>1, <2>2, <2>3, <2>4 DEF SearchOK, Alike1, Outside
<1>6. RowsOK'
  <2>1. piece.lowest <= piece.lowest1
    BY DEF IInv, RowsOK
  <2>2. RowRepOK(piece.rep1, 0)' /\ RowRepOK(piece.rep2, 0)'
    <3>1. PICK lo \in Int : lo = piece.lowest
      BY PieceIs DEF IInv
    <3>2. end + 0 - lo = end - lo
      BY <3>1
    <3>3. piece'.lowest = lo
      BY <3>1 DEF Alike1
    <3> QED BY <3>1, <3>2, <3>3 DEF RowRepOK
  <2> QED BY <1>1, <2>1, <2>2 DEF RowsOK, Alike1
<1>7. OptimalOK'
  <2>1. piece'.edges = {}
    BY DEF IInv, OptimalOK, Alike1
  <2> QED BY <2>1 DEF OptimalOK
<1> QED BY <1>2, <1>3, <1>5, <1>6, <1>7 DEF IInv

\* find_lazy_rows: the match in hand is taken.
LEMMA TakePickStep ==
  ASSUME IInv, TakePick
  PROVE  IInv'
<1> DEFINE pick == piece.pick
           back == IF pick.off # 0 THEN Back(pick.start, pick.start - pick.off, piece.lowest) ELSE 0
           start == pick.start - back
           end == pick.start + pick.len
           moves == pick.off # 0 /\ (start = piece.anchor \/ pick.off # piece.rep1)
           o == IF pick.off # 0 THEN pick.off ELSE piece.rep1
           e == Emit(start, end - start, o)
           q == [e EXCEPT !.ip = end, !.anchor = end, !.pick = NoPick, !.skipping = FALSE,
                          !.rep1 = IF moves THEN pick.off ELSE @,
                          !.rep2 = IF moves THEN piece.rep1 ELSE @]
<1>1. pc \in {"take", "look"} /\ pc \in SearchPcs /\ pc' = "again" /\ UNCHANGED Outside
  BY DEF TakePick, Outside, SearchPcs
<1>2. piece' = q
  BY DEF TakePick
<1>3. Ready
  BY <1>1, SearchReady
<1>4. piece.finder = "rows" /\ PickOK(piece.pick)
      /\ RowRepOK(piece.rep1, 1) /\ RowRepOK(piece.rep2, 1)
  BY <1>1 DEF IInv, RowsOK
<1>5. TypeOK /\ FrameOK /\ Found(piece, piece.anchor)
  BY <1>3, ReadyIs
<1>6. PICK s \in Nat, n \in Nat, po \in Nat, an \in Nat, lo \in Int, to \in Nat, r1 \in Nat, r2 \in Nat :
        /\ s = pick.start /\ n = pick.len /\ po = pick.off /\ an = piece.anchor
        /\ lo = piece.lowest /\ to = piece.to /\ r1 = piece.rep1 /\ r2 = piece.rep2
  <2>1. pick.start \in Nat /\ pick.len \in Nat /\ pick.off \in Nat
    BY <1>5, PieceIs DEF PickType
  <2> QED BY <1>5, <2>1, PieceIs
<1>7. PICK f \in Int, w \in Nat, ed \in Nat :
        f = FrameStart /\ w = Window /\ ed = End /\ f <= lo /\ to <= ed
  <2>1. FrameStart \in Int /\ End \in Nat
    BY <1>5, WorldIs
  <2> QED BY <1>3, <1>6, <2>1, ReadyIs, Numbers
<1>8. /\ an <= s /\ s + n <= to /\ n # 0
      /\ po = 0 => r1 # 0 /\ CanCopy(World, s, n, r1)
      /\ po # 0 => lo <= s - po /\ po <= w /\ CanCopy(World, s, n, po)
      /\ r1 <= w /\ r1 <= an + 1 - lo /\ r2 <= w /\ r2 <= an + 1 - lo
  BY <1>4, <1>6, <1>7 DEF PickOK, RowRepOK
<1>9. /\ start \in Nat /\ an <= start /\ start <= s /\ o \in Nat
      /\ CanCopy(World, start, end - start, o)
  <2>1. CASE po = 0
    <3>1. back = 0 /\ o = r1
      BY <1>6, <2>1
    <3>2. start = s /\ end - start = n
      BY <1>6, <3>1
    <3> QED BY <1>6, <1>8, <2>1, <3>1, <3>2
  <2>2. CASE po # 0
    <3> DEFINE m == s - po
               b == Back(s, m, lo)
    <3>1. back = b /\ o = po
      BY <1>6, <2>2
    <3>2. m \in Int /\ lo <= m /\ m < s /\ s - m = po
      BY <1>6, <1>8, <2>2
    <3>3. Equal(m, s, n)
      <4>1. Same(World, m, s, n)
        BY <1>8, <2>2 DEF CanCopy
      <4> QED BY <1>5, <4>1, SameEqual
    <3> HIDE DEF m
    <3>4. b \in Nat /\ b <= s - an /\ b <= m - lo /\ AgreeBack(m, s, b)
      <4>1. s \in Int /\ piece.anchor \in Int /\ piece.anchor <= s
        BY <1>6, <1>8
      <4> QED BY <1>6, <3>2, <4>1, BackIs
    <3> HIDE DEF b
    <3>5. Equal(m - b, s - b, n + b)
      BY <1>6, <3>2, <3>3, <3>4, BackEqual
    <3> DEFINE p == s - b
               x == m - b
               len == n + b
    <3>6. /\ p \in Nat /\ an <= p /\ p <= s /\ x \in Int /\ f <= x /\ x < p /\ p - x = po
          /\ len \in Nat /\ p - x <= w
      BY <1>6, <1>7, <1>8, <3>2, <3>4
    <3>7. Equal(x, p, len)
      BY <3>5
    <3>8. start = p /\ end - start = len
      BY <1>6, <3>1, <3>4
    <3> HIDE DEF p, x, len
    <3>9. CanCopy(World, p, len, p - x)
      BY <1>5, <1>7, <3>6, <3>7, CanCopyNear
    <3> QED BY <1>6, <3>1, <3>6, <3>8, <3>9
  <2> QED BY <2>1, <2>2
<1> HIDE DEF back
<1>10. end \in Nat /\ end = s + n /\ end <= to /\ start <= end
  BY <1>6, <1>8, <1>9
<1> DEFINE len == end - start
<1>11. start + len = end
  BY <1>9, <1>10
<1> HIDE DEF start, end
<1>12. /\ e \in PieceType /\ Alike1(e) /\ Found(e, end) /\ e.rep1 = r1 /\ e.rep2 = r2
       /\ e.lowest1 = piece.lowest1
  <2>1. start <= End
    BY <1>6, <1>7, <1>8, <1>9
  <2>2. CanCopy(World, start, len, o) /\ e = Emit(start, len, o)
    BY <1>9
  <2> HIDE DEF len, o, e
  <2> QED BY <1>5, <1>6, <1>9, <1>11, <2>1, <2>2, EmitIs
<1> DEFINE rep1 == IF moves THEN pick.off ELSE r1
           rep2 == IF moves THEN piece.rep1 ELSE r2
<1>13. rep1 \in Nat /\ rep2 \in Nat
  BY <1>6
<1>14. q = [e EXCEPT !.ip = end, !.anchor = end, !.pick = NoPick, !.skipping = FALSE,
                     !.rep1 = rep1, !.rep2 = rep2]
  <2> HIDE DEF e
  <2> QED BY <1>6, <1>12 DEF PieceType
<1>15. rep1 <= w /\ rep1 <= end - lo /\ rep2 <= w /\ rep2 <= end - lo
  <2>1. an + 1 - lo <= end - lo
    BY <1>6, <1>8, <1>10
  <2>2. r1 <= end - lo /\ r2 <= end - lo
    BY <1>6, <1>8, <1>10
  <2>3. po # 0 => po <= w /\ po <= end - lo
    BY <1>6, <1>8, <1>10
  <2>4. rep1 = r1 \/ (rep1 = po /\ po # 0)
    BY <1>6
  <2>5. rep2 = r1 \/ rep2 = r2
    BY <1>6
  <2> QED BY <1>8, <2>2, <2>3, <2>4, <2>5
<1> HIDE DEF rep1, rep2, e, q, moves
<1> DEFINE qq == [e EXCEPT !.ip = end, !.anchor = end, !.pick = NoPick, !.skipping = FALSE,
                     !.rep1 = rep1, !.rep2 = rep2]
<1>16. /\ qq \in PieceType /\ qq.ip = end /\ qq.anchor = end /\ qq.rep1 = rep1 /\ qq.rep2 = rep2
       /\ qq.seqs = e.seqs /\ qq.lits = e.lits /\ qq.finder = e.finder /\ qq.to = e.to
       /\ qq.lowest = e.lowest /\ qq.lowest1 = e.lowest1 /\ qq.way = e.way /\ qq.edges = e.edges
  <2>1. NoPick \in PickType
    BY DEF NoPick, PickType
  <2> QED BY <1>10, <1>12, <1>13, <2>1 DEF PieceType
<1>17. piece' = qq
  BY <1>2, <1>14
<1> HIDE DEF qq
<1>18. Alike1(piece') /\ Found(piece', end)
  BY <1>12, <1>16, <1>17 DEF Alike1, Found
<1> QED BY <1>1, <1>4, <1>6, <1>7, <1>10, <1>12, <1>15, <1>16, <1>17, <1>18, RowTaken

\* find_lazy_rows: the second repeat offset, straight after a match.
LEMMA RepAgainStep ==
  ASSUME IInv, RepAgain
  PROVE  IInv'
<1> DEFINE n == Repeated(piece.ip, piece.rep2)
           end == piece.ip + n
           e == Emit(piece.ip, n, piece.rep2)
           q == [e EXCEPT !.ip = end, !.anchor = end, !.rep1 = piece.rep2, !.rep2 = piece.rep1]
<1>1. pc = "again" /\ pc \in SearchPcs /\ UNCHANGED Outside
  BY DEF RepAgain, Outside, SearchPcs
<1>2. Ready
  BY <1>1, SearchReady
<1>3. /\ piece.finder = "rows" /\ RowRepOK(piece.rep1, 0) /\ RowRepOK(piece.rep2, 0)
      /\ piece.ip <= piece.to /\ piece.lowest <= piece.lowest1
  BY <1>1 DEF IInv, RowsOK
<1>4. TypeOK /\ FrameOK /\ Found(piece, piece.anchor)
  BY <1>2, ReadyIs
<1>5. PICK x \in Nat, an \in Nat, lo \in Int, to \in Nat, r1 \in Nat, r2 \in Nat :
        /\ x = piece.ip /\ an = piece.anchor /\ lo = piece.lowest /\ to = piece.to
        /\ r1 = piece.rep1 /\ r2 = piece.rep2 /\ an <= x /\ x <= to
  BY <1>2, <1>3, <1>4, PieceIs, ReadyIs
<1>6. r1 <= Window /\ r1 <= an - lo /\ r2 <= Window /\ r2 <= an - lo
  <2>1. an + 0 - lo = an - lo
    BY <1>5
  <2> QED BY <1>3, <1>5, <2>1 DEF RowRepOK
<1>7. CASE n >= RepMin /\ piece' = q /\ pc' = pc
  <2>1. RowRepOK(r2, 0) /\ an + 0 <= x
    BY <1>3, <1>5
  <2>2. /\ r2 # 0 /\ n \in Nat \ {0} /\ x + n <= to
        /\ CanCopy(World, x, n, r2)
    <3>1. Repeated(x, r2) >= RepMin /\ piece.anchor + 0 <= x /\ x <= piece.to /\ 0 \in {0, 1}
      BY <1>5, <1>7, <2>1
    <3> QED BY <1>2, <1>5, <2>1, <3>1, RowRepIs
  <2> HIDE DEF n
  <2>3. end \in Nat /\ end <= to /\ an <= end /\ end = x + n
    BY <1>5, <2>2
  <2>4. /\ e \in PieceType /\ Alike1(e) /\ Found(e, end) /\ e.lowest1 = piece.lowest1
    <3>1. PICK ed \in Nat : ed = End /\ to <= ed
      BY <1>2, <1>4, <1>5, ReadyIs, WorldIs
    <3>2. x <= End
      BY <1>5, <3>1
    <3>3. e = Emit(x, n, r2)
      BY <1>5
    <3> HIDE DEF e
    <3> QED BY <1>4, <1>5, <2>2, <2>3, <3>2, <3>3, EmitIs
  <2> HIDE DEF end, e
  <2>5. /\ q \in PieceType /\ q.ip = end /\ q.anchor = end /\ q.rep1 = r2 /\ q.rep2 = r1
        /\ q.seqs = e.seqs /\ q.lits = e.lits /\ q.finder = e.finder /\ q.to = e.to
        /\ q.lowest = e.lowest /\ q.lowest1 = e.lowest1 /\ q.way = e.way /\ q.edges = e.edges
    BY <1>5, <2>3, <2>4 DEF PieceType
  <2> HIDE DEF q
  <2>6. Alike1(piece') /\ Found(piece', end)
    BY <1>7, <2>4, <2>5 DEF Alike1, Found
  <2>7. r1 <= end - lo /\ r2 <= end - lo
    BY <1>5, <1>6, <2>3
  <2>8. pc' = "again"
    BY <1>1, <1>7
  <2> QED BY <1>1, <1>3, <1>5, <1>6, <1>7, <2>3, <2>4, <2>5, <2>6, <2>7, <2>8, RowTaken
<1>8. CASE pc' = "search" /\ UNCHANGED piece
  <2>1. pc \in PiecePcs /\ pc' \in PiecePcs /\ pc' \in SearchPcs /\ piece' \in PieceType
    BY <1>1, <1>4, <1>8 DEF PiecePcs, SearchPcs, TypeOK
  <2>2. TypeOK' /\ FrameOK' /\ BlockOK' /\ CoverOK' /\ FoundOK'
    BY <1>1, <2>1, OutsideKept
  <2>3. FrameStart' = FrameStart /\ PayloadAt' = PayloadAt /\ World' = World
    BY <1>1, WorldStays DEF Outside
  <2>4. PieceOK'
    BY <1>1, <1>4, <1>8, <2>1, PieceKept, ReadyIs, <1>2
  <2>5. SearchOK'
    BY <1>1, <1>8, <2>1, <2>3 DEF IInv, SearchOK, Fits, Outside
  <2>6. RowsOK'
    <3>1. an - lo <= an + 1 - lo
      BY <1>5
    <3>2. RowRepOK(r1, 1) /\ RowRepOK(r2, 1)
      BY <1>5, <1>6, <3>1 DEF RowRepOK
    <3>3. RowRepOK(piece.rep1, 1)' /\ RowRepOK(piece.rep2, 1)'
      BY <1>5, <1>8, <3>2 DEF RowRepOK
    <3> QED BY <1>3, <1>8, <3>3 DEF RowsOK
  <2>7. OptimalOK'
    BY <1>1, <1>3, <1>8 DEF IInv, OptimalOK
  <2> QED BY <2>2, <2>4, <2>5, <2>6, <2>7 DEF IInv
<1>9. \/ n >= RepMin /\ piece' = q /\ pc' = pc
      \/ pc' = "search" /\ UNCHANGED piece
  BY DEF RepAgain
<1> QED BY <1>7, <1>8, <1>9

-----------------------------------------------------------------------------
(* The optimal finder: steps through the piece, those taken from its end   *)
(* backwards, and the matches of them emitted in order.                    *)

EdgeIs(e) == e \in EdgeType /\ EdgeOK(e)

\* A literal is a step of the optimal finder.
LEMMA PlainEdge ==
  ASSUME NEW p \in Nat, piece.anchor <= p, p + 1 <= piece.to
  PROVE  EdgeIs(Edge(p, p + 1, 0))
<1> DEFINE x == Edge(p, p + 1, 0)
<1>1. x \in EdgeType /\ x.from = p /\ x.to = p + 1 /\ x.off = 0
  BY DEF Edge, EdgeType
<1> HIDE DEF x
<1>2. EdgeIs(x)
  BY <1>1 DEF EdgeIs, EdgeOK
<1> QED BY <1>2 DEF x

\* A match of any length is.
LEMMA MatchEdge ==
  ASSUME NEW p \in Nat, piece.anchor <= p, NEW n \in Nat \ {0}, NEW to, to = p + n,
         to <= piece.to, NEW o \in Nat, CanCopy(World, p, n, o)
  PROVE  EdgeIs(Edge(p, to, o))
<1> DEFINE x == Edge(p, to, o)
<1>1. x \in EdgeType /\ x.from = p /\ x.to = to /\ x.off = o /\ p < to /\ to - p = n
  BY DEF Edge, EdgeType
<1> HIDE DEF x
<1>2. EdgeIs(x)
  BY <1>1 DEF EdgeIs, EdgeOK
<1> QED BY <1>2 DEF x

\* A shorter match than the longest is one as well.
LEMMA Shorter ==
  ASSUME NEW w, NEW p, NEW len \in Nat, NEW o, CanCopy(w, p, len, o), NEW n \in Nat, n <= len
  PROVE  CanCopy(w, p, n, o)
<1>1. Same(w, p - o, p, n)
  BY DEF CanCopy, Same
<1> QED BY <1>1 DEF CanCopy

\* Only the position, the steps and the way change.
OptimalLike(q) ==
  /\ q \in PieceType /\ q.finder = piece.finder /\ q.to = piece.to /\ q.lowest = piece.lowest
  /\ q.seqs = piece.seqs /\ q.lits = piece.lits /\ q.anchor = piece.anchor
  /\ q.rep1 = piece.rep1

\* A step of the optimal finder: nothing is emitted yet.
LEMMA OptimalStep ==
  ASSUME IInv, pc \in {"search", "back"}, UNCHANGED Outside,
         OptimalLike(piece'), pc' \in {"search", "back", "way"},
         pc' = "search" => /\ piece.finder = "optimal" /\ piece'.way = piece.way
                           /\ piece.anchor <= piece'.ip,
         pc = "back" => pc' # "search",
         OptimalOK'
  PROVE  IInv'
<1>1. pc \in PiecePcs /\ pc' \in PiecePcs
  BY DEF PiecePcs, SearchPcs
<1>2. TypeOK' /\ FrameOK' /\ BlockOK' /\ CoverOK' /\ FoundOK'
  BY <1>1, OutsideKept DEF OptimalLike
<1>3. PieceOK'
  <2>1. Found(piece, piece.anchor) /\ piece.anchor <= piece.to
    BY <1>1 DEF IInv, PieceOK, Found
  <2>2. Found(piece', piece'.anchor)
    BY <2>1 DEF OptimalLike, Found
  <2> QED BY <1>1, <2>1, <2>2, PieceKept DEF OptimalLike
<1>4. FrameStart' = FrameStart /\ PayloadAt' = PayloadAt /\ World' = World
  BY WorldStays DEF Outside
<1>5. SearchOK'
  <2>1. pc \in SearchPcs \union {"back", "way"}
    BY DEF SearchPcs
  <2>2. /\ Margin <= piece.to /\ Fits(piece.rep1)
        /\ FrameStart <= piece.lowest /\ 0 <= piece.lowest /\ piece.lowest <= pos
    BY <2>1 DEF IInv, SearchOK
  <2>3. Fits(piece.rep1)'
    BY <1>4, <2>2 DEF OptimalLike, Fits, Outside
  <2>4. pc' \in SearchPcs => pc' = "search" /\ pc = "search"
    BY DEF SearchPcs
  <2>5. pc = "search" => piece.way = <<>>
    BY DEF IInv, SearchOK, SearchPcs
  <2>6. pc' \in SearchPcs => piece'.anchor <= piece'.ip /\ piece'.way = <<>>
    BY <2>4, <2>5 DEF OptimalLike
  <2> QED BY <1>4, <2>2, <2>3, <2>6 DEF SearchOK, OptimalLike, Outside
<1>6. RowsOK'
  <2>1. pc' \in SearchPcs => piece'.finder # "rows"
    BY DEF SearchPcs, OptimalLike
  <2>2. pc' \notin {"look", "take", "again"}
    OBVIOUS
  <2> QED BY <2>1, <2>2 DEF RowsOK
<1> QED BY <1>2, <1>3, <1>5, <1>6 DEF IInv

\* A step stays one.
LEMMA EdgeKept ==
  ASSUME UNCHANGED Outside, piece'.anchor = piece.anchor, piece'.to = piece.to,
         NEW e, EdgeOK(e)
  PROVE  EdgeOK(e)'
<1>1. World' = World
  BY WorldStays DEF Outside
<1> QED BY <1>1 DEF EdgeOK

\* find_opt: a position's steps are collected.
LEMMA SearchOptimalStep ==
  ASSUME IInv, SearchOptimal
  PROVE  IInv'
<1> DEFINE ip == piece.ip
           found == TreeSearch(tables, ip).found
           repeat == IF RepLength < RepMin THEN {}
                     ELSE {Edge(ip + 1, ip + 1 + RepLength, piece.rep1)}
           matches == UNION {{Edge(ip, ip + n, ip - best.at) : n \in MinMatch..best.len} :
                               best \in found}
           edges == piece.edges \union {Edge(ip, ip + 1, 0)} \union repeat \union matches
<1>1. /\ pc = "search" /\ pc' = pc /\ UNCHANGED Outside /\ Searching /\ piece.finder = "optimal"
  BY DEF SearchOptimal, Searching, Outside
<1>2. PICK to \in {ip + 1} \union {ip + best.len : best \in found} :
        piece' = [piece EXCEPT !.ip = to, !.edges = edges]
  BY DEF SearchOptimal
<1>3. Ready
  BY <1>1, SearchReady DEF SearchPcs
<1>4. PICK x \in Nat, an \in Nat, end \in Nat : x = ip /\ an = piece.anchor /\ end = piece.to /\ an <= x /\ x + 1 <= end
  <2>1. piece.ip \in Nat /\ piece.anchor \in Nat /\ piece.to \in Nat
    BY <1>3, ReadyIs, PieceIs
  <2> QED BY <1>1, <1>3, <2>1, HereIs
<1>5. \A best \in found : Match(x, best) /\ MinMatch <= best.len
  <2>1. x <= piece.to
    BY <1>4
  <2> QED BY <1>3, <1>4, <2>1, TreeSearchIs
<1> HIDE DEF found
<1>6. EdgeIs(Edge(ip, ip + 1, 0))
  BY <1>3, <1>4, PlainEdge
<1>7. ASSUME NEW e \in repeat PROVE EdgeIs(e)
  <2>1. RepLength >= RepMin /\ e = Edge(x + 1, x + 1 + RepLength, piece.rep1)
    <3>1. ~(RepLength < RepMin) /\ e = Edge(x + 1, x + 1 + RepLength, piece.rep1)
      BY <1>4
    <3>2. RepLength \in Nat
      <4> DEFINE at == piece.ip + 1
      <4>1. at \in Int /\ piece.to \in Int /\ at <= piece.to
        BY <1>4
      <4>2. RepLength = 0 \/ RepLength = MatchLength(at - piece.rep1, at, piece.to)
        BY DEF RepLength
      <4> HIDE DEF at
      <4>3. MatchLength(at - piece.rep1, at, piece.to) \in 0..(piece.to - at)
        BY <4>1, MatchLengthIs
      <4> QED BY <4>1, <4>2, <4>3
    <3> QED BY <3>1, <3>2, Numbers
  <2>2. /\ RepLength \in Nat \ {0} /\ x + 1 + RepLength <= piece.to /\ piece.rep1 \in Nat
        /\ CanCopy(World, x + 1, RepLength, piece.rep1)
    BY <1>1, <1>3, <1>4, <2>1, RepCopyIs
  <2>3. x + 1 \in Nat /\ piece.anchor <= x + 1
    BY <1>4
  <2> DEFINE p == x + 1
             t == x + 1 + RepLength
  <2>4. t = p + RepLength
    BY <1>4, <2>2
  <2>5. p \in Nat /\ piece.anchor <= p /\ t <= piece.to /\ CanCopy(World, p, RepLength, piece.rep1)
    BY <2>2, <2>3
  <2>6. e = Edge(p, t, piece.rep1)
    BY <2>1
  <2> HIDE DEF p, t
  <2> QED BY <2>2, <2>4, <2>5, <2>6, MatchEdge
<1>8. ASSUME NEW e \in matches PROVE EdgeIs(e)
  <2>1. PICK best \in found : e \in {Edge(ip, ip + n, ip - best.at) : n \in MinMatch..best.len}
    OBVIOUS
  <2>2. PICK n \in MinMatch..best.len : e = Edge(x, x + n, x - best.at)
    BY <1>4, <2>1
  <2>3. PICK m \in Int, l \in Nat, f \in Int, mm \in Nat :
          /\ m = best.at /\ l = best.len /\ f = FrameStart /\ mm = MinMatch /\ mm # 0
          /\ f <= m /\ m < x /\ x - m <= Window /\ x + l <= end /\ Equal(m, x, l)
    <3>1. Match(x, best)
      BY <1>5
    <3>2. best.at \in Int /\ best.len \in Nat /\ FrameStart \in Int
      BY <1>3, <3>1, ReadyIs, WorldIs DEF Match
    <3> QED BY <1>4, <3>1, <3>2, Numbers DEF Match
  <2>4. n \in Nat \ {0} /\ n <= l
    BY <2>2, <2>3
  <2>5. CanCopy(World, x, l, x - m)
    BY <1>3, <1>4, <2>3, CanCopyNear, ReadyIs
  <2>6. CanCopy(World, x, n, x - m)
    BY <2>3, <2>4, <2>5, Shorter
  <2> DEFINE t == x + n
             o == x - m
  <2>7. o \in Nat /\ t = x + n /\ t <= piece.to /\ CanCopy(World, x, n, o) /\ e = Edge(x, t, o)
    BY <1>4, <2>2, <2>3, <2>4, <2>6
  <2> HIDE DEF t, o
  <2> QED BY <1>4, <2>4, <2>7, MatchEdge
<1> HIDE DEF repeat, matches
<1>9. \A e \in edges : EdgeIs(e)
  <2>1. \A e \in piece.edges : EdgeIs(e)
    BY <1>1, <1>3, PieceIs, ReadyIs DEF IInv, OptimalOK, EdgeIs
  <2> QED BY <1>6, <1>7, <1>8, <2>1
<1>10. to \in Nat /\ an <= to
  <2>1. CASE to = x + 1
    BY <1>4, <2>1
  <2>2. CASE to # x + 1
    <3>1. PICK best \in found : to = x + best.len
      BY <1>2, <1>4, <2>2
    <3>2. best.len \in Nat
      BY <1>5 DEF Match
    <3> QED BY <1>4, <3>1, <3>2
  <2> QED BY <2>1, <2>2
<1> HIDE DEF edges, ip
<1> DEFINE q == [piece EXCEPT !.ip = to, !.edges = edges]
<1>11. edges \in SUBSET EdgeType
  BY <1>9 DEF EdgeIs
<1>12. piece \in PieceType
  BY DEF IInv, TypeOK
<1>13. /\ q \in PieceType /\ q.ip = to /\ q.edges = edges /\ q.anchor = piece.anchor
       /\ q.seqs = piece.seqs /\ q.lits = piece.lits /\ q.finder = piece.finder
       /\ q.to = piece.to /\ q.lowest = piece.lowest /\ q.rep1 = piece.rep1 /\ q.way = piece.way
  BY <1>10, <1>11, <1>12 DEF PieceType
<1>14. piece' = q
  BY <1>2
<1> HIDE DEF q
<1>15. OptimalOK'
  <2>1. \A e \in edges : EdgeOK(e)'
    BY <1>1, <1>9, <1>13, <1>14, EdgeKept DEF EdgeIs
  <2> QED BY <1>1, <1>13, <1>14, <2>1 DEF OptimalOK
<1>16. OptimalLike(piece')
  BY <1>13, <1>14 DEF OptimalLike
<1> QED BY <1>1, <1>4, <1>10, <1>13, <1>14, <1>15, <1>16, OptimalStep

\* Where a piece stands.
LEMMA InPiece ==
  ASSUME IInv, pc \in PiecePcs
  PROVE  /\ TypeOK /\ FrameOK /\ Found(piece, piece.anchor)
         /\ piece.anchor <= piece.to /\ piece.to <= block.to /\ block.to <= End /\ piece.to <= End
         /\ pos <= piece.anchor /\ piece \in PieceType
<1>1. TypeOK /\ FrameOK /\ Found(piece, piece.anchor) /\ piece \in PieceType
  BY DEF IInv, TypeOK, PieceOK, Found
<1>2. piece.anchor <= piece.to /\ piece.to <= block.to /\ block.to = off
  BY DEF IInv, PieceOK, BlockOK, PiecePcs, SearchPcs
<1>3. PICK t \in Nat, b \in Nat, e \in Nat : t = piece.to /\ b = block.to /\ e = End /\ off <= End
  BY <1>1, PieceIs, WorldIs
<1>4. block.to <= End /\ piece.to <= End
  BY <1>2, <1>3
<1>5. pos <= piece.anchor
  BY <1>1 DEF Found, Rebuilt
<1> QED BY <1>1, <1>2, <1>4, <1>5

\* find_opt: from the end of the piece,
LEMMA TurnBackStep ==
  ASSUME IInv, TurnBack
  PROVE  IInv'
<1> DEFINE plain == {Edge(p, p + 1, 0) : p \in (piece.ip)..(piece.to - 1)}
           edges == piece.edges \union plain
           q == [piece EXCEPT !.ip = piece.to, !.edges = edges]
<1>1. /\ pc = "search" /\ pc' = "back" /\ UNCHANGED Outside /\ piece' = q
  BY DEF TurnBack, Outside
<1>2. /\ TypeOK /\ piece.anchor <= piece.to /\ piece \in PieceType
  BY <1>1, InPiece DEF PiecePcs, SearchPcs
<1>3. piece.anchor <= piece.ip /\ piece.way = <<>>
  BY <1>1 DEF IInv, SearchOK, SearchPcs
<1>4. PICK x \in Nat, an \in Nat, to \in Nat : x = piece.ip /\ an = piece.anchor /\ to = piece.to /\ an <= x
  BY <1>2, <1>3, PieceIs
<1>5. ASSUME NEW e \in plain PROVE EdgeIs(e)
  <2>1. PICK p \in x..(to - 1) : e = Edge(p, p + 1, 0)
    BY <1>4
  <2>2. p \in Nat /\ an <= p /\ p + 1 <= to
    BY <1>4, <2>1
  <2> QED BY <1>4, <2>1, <2>2, PlainEdge
<1> HIDE DEF plain
<1>6. \A e \in edges : EdgeIs(e)
  <2>1. \A e \in piece.edges : EdgeIs(e)
    BY <1>1, <1>2, PieceIs DEF IInv, OptimalOK, EdgeIs
  <2> QED BY <1>5, <2>1
<1>7. edges \in SUBSET EdgeType
  BY <1>6 DEF EdgeIs
<1> HIDE DEF edges
<1>8. /\ q \in PieceType /\ q.ip = piece.to /\ q.edges = edges /\ q.anchor = piece.anchor
      /\ q.seqs = piece.seqs /\ q.lits = piece.lits /\ q.finder = piece.finder
      /\ q.to = piece.to /\ q.lowest = piece.lowest /\ q.rep1 = piece.rep1 /\ q.way = piece.way
  BY <1>2, <1>4, <1>7 DEF PieceType
<1> HIDE DEF q
<1>9. OptimalOK'
  <2>1. \A e \in edges : EdgeOK(e)'
    BY <1>1, <1>6, <1>8, EdgeKept DEF EdgeIs
  <2>2. piece'.way = <<>>
    BY <1>1, <1>3, <1>8
  <2>3. WayOK(piece.ip)'
    <3>1. 1..Len(<<>>) = {}
      OBVIOUS
    <3> QED BY <2>2, <3>1 DEF WayOK
  <2>4. piece'.anchor <= piece'.ip /\ piece'.ip <= piece'.to
    BY <1>1, <1>2, <1>4, <1>8
  <2> QED BY <1>1, <1>8, <2>1, <2>3, <2>4 DEF OptimalOK, SearchPcs
<1>10. OptimalLike(piece')
  BY <1>1, <1>8 DEF OptimalLike
<1> QED BY <1>1, <1>9, <1>10, OptimalStep

\* a step back,
LEMMA StepBackStep ==
  ASSUME IInv, StepBack
  PROVE  IInv'
<1>1. pc = "back" /\ UNCHANGED Outside
  BY DEF StepBack, Outside
<1>2. /\ TypeOK /\ piece.anchor <= piece.to /\ piece \in PieceType
  BY <1>1, InPiece DEF PiecePcs
<1>3. /\ piece.anchor <= piece.ip /\ piece.ip <= piece.to /\ WayOK(piece.ip)
      /\ \A e \in piece.edges : EdgeOK(e)
  BY <1>1 DEF IInv, OptimalOK
<1>4. PICK x \in Nat, an \in Nat, to \in Nat : x = piece.ip /\ an = piece.anchor /\ to = piece.to /\ an <= x /\ x <= to
  BY <1>2, <1>3, PieceIs
<1>5. CASE piece.ip = piece.anchor /\ piece' = [piece EXCEPT !.edges = {}] /\ pc' = "way"
  <2> DEFINE q == [piece EXCEPT !.edges = {}]
  <2>1. /\ q \in PieceType /\ q.edges = {} /\ q.anchor = piece.anchor
        /\ q.seqs = piece.seqs /\ q.lits = piece.lits /\ q.finder = piece.finder
        /\ q.to = piece.to /\ q.lowest = piece.lowest /\ q.rep1 = piece.rep1 /\ q.way = piece.way
    BY <1>2 DEF PieceType
  <2>2. piece' = q
    BY <1>5
  <2> HIDE DEF q
  <2>3. \A e : EdgeOK(e) => EdgeOK(e)'
    BY <1>1, <2>1, <2>2, EdgeKept
  <2>4. WayOK(piece.anchor)'
    BY <1>3, <1>5, <2>1, <2>2, <2>3 DEF WayOK
  <2>5. OptimalOK'
    BY <1>5, <2>4 DEF OptimalOK, SearchPcs
  <2>6. OptimalLike(piece')
    BY <2>1, <2>2 DEF OptimalLike
  <2> QED BY <1>1, <1>5, <2>5, <2>6, OptimalStep
<1>6. ASSUME NEW e \in {y \in piece.edges : y.to = piece.ip}, pc' = pc,
             piece' = [piece EXCEPT !.ip = e.from, !.way = IF e.off = 0 THEN @ ELSE <<e>> \o @]
      PROVE  IInv'
  <2> DEFINE way == IF e.off = 0 THEN piece.way ELSE <<e>> \o piece.way
             q == [piece EXCEPT !.ip = e.from, !.way = way]
  <2>1. EdgeOK(e) /\ e \in EdgeType /\ e.to = x
    BY <1>2, <1>3, <1>4, <1>6, PieceIs
  <2>2. PICK f \in Nat : f = e.from /\ an <= f /\ f < x
    <3>1. e.from \in Nat
      BY <2>1 DEF EdgeType
    <3> QED BY <1>4, <2>1, <3>1 DEF EdgeOK
  <2>3. piece.way \in Seq(EdgeType)
    BY <1>2, PieceIs
  <2>4. PICK n \in Nat : n = Len(piece.way)
    BY <2>3
  <2>5. \A k \in 1..n : x <= piece.way[k].from /\ EdgeOK(piece.way[k]) /\ piece.way[k].off # 0 /\ piece.way[k] \in EdgeType
    BY <1>3, <1>4, <2>3, <2>4 DEF WayOK
  <2>6. \A j, k \in 1..n : j < k => piece.way[j].to <= piece.way[k].from
    BY <1>3, <2>4 DEF WayOK
  <2>7. /\ way \in Seq(EdgeType)
        /\ \A k \in 1..Len(way) : f <= way[k].from /\ EdgeOK(way[k]) /\ way[k].off # 0
        /\ \A j, k \in 1..Len(way) : j < k => way[j].to <= way[k].from
    <3>1. CASE e.off = 0
      <4>1. \A k \in 1..n : f <= piece.way[k].from
        <5> SUFFICES ASSUME NEW k \in 1..n PROVE f <= piece.way[k].from
          OBVIOUS
        <5>1. piece.way[k].from \in Nat
          BY <2>5 DEF EdgeType
        <5> QED BY <2>2, <2>5, <5>1
      <4>2. way = piece.way
        BY <3>1
      <4> QED BY <2>3, <2>4, <2>5, <2>6, <4>1, <4>2
    <3>2. CASE e.off # 0
      <4> DEFINE longer == <<e>> \o piece.way
      <4>1. /\ longer \in Seq(EdgeType) /\ Len(longer) = n + 1 /\ longer[1] = e
            /\ \A k \in 1..n : longer[k + 1] = piece.way[k]
        BY <2>1, <2>3, <2>4
      <4>2. way = longer
        BY <3>2
      <4> HIDE DEF longer, way
      <4>3. ASSUME NEW k \in 1..(n + 1), k # 1
            PROVE  k - 1 \in 1..n /\ longer[k] = piece.way[k - 1]
        <5>1. k - 1 \in 1..n /\ (k - 1) + 1 = k
          BY <4>3
        <5> QED BY <4>1, <5>1
      <4>4. ASSUME NEW k \in 1..(n + 1) PROVE f <= longer[k].from /\ EdgeOK(longer[k]) /\ longer[k].off # 0
        <5>1. CASE k = 1
          BY <2>1, <2>2, <3>2, <4>1, <5>1
        <5>2. CASE k # 1
          <6>1. k - 1 \in 1..n /\ longer[k] = piece.way[k - 1]
            BY <4>3, <5>2
          <6>2. piece.way[k - 1].from \in Nat
            BY <2>5, <6>1 DEF EdgeType
          <6> QED BY <2>2, <2>5, <6>1, <6>2
        <5> QED BY <5>1, <5>2
      <4>5. ASSUME NEW j \in 1..(n + 1), NEW k \in 1..(n + 1), j < k
            PROVE  longer[j].to <= longer[k].from
        <5>1. k # 1 /\ k - 1 \in 1..n /\ longer[k] = piece.way[k - 1]
          BY <4>3, <4>5
        <5>2. CASE j = 1
          BY <2>1, <2>5, <4>1, <5>1, <5>2
        <5>3. CASE j # 1
          <6>1. j - 1 \in 1..n /\ longer[j] = piece.way[j - 1] /\ j - 1 < k - 1
            BY <4>3, <4>5, <5>3
          <6> QED BY <2>6, <5>1, <6>1
        <5> QED BY <5>2, <5>3
      <4> QED BY <4>1, <4>2, <4>4, <4>5
    <3> QED BY <3>1, <3>2
  <2> HIDE DEF way
  <2>8. /\ q \in PieceType /\ q.ip = f /\ q.edges = piece.edges /\ q.anchor = piece.anchor
        /\ q.seqs = piece.seqs /\ q.lits = piece.lits /\ q.finder = piece.finder
        /\ q.to = piece.to /\ q.lowest = piece.lowest /\ q.rep1 = piece.rep1 /\ q.way = way
    BY <1>2, <2>2, <2>7 DEF PieceType
  <2>9. piece' = q
    BY <1>2, <1>6 DEF way
  <2> HIDE DEF q
  <2>10. \A y : EdgeOK(y) => EdgeOK(y)'
    BY <1>1, <2>8, <2>9, EdgeKept
  <2>11. WayOK(piece.ip)'
    BY <2>7, <2>8, <2>9, <2>10 DEF WayOK
  <2>12. f <= to
    BY <1>4, <2>2
  <2>13. OptimalOK'
    BY <1>1, <1>3, <1>4, <1>6, <2>2, <2>8, <2>9, <2>10, <2>11, <2>12 DEF OptimalOK, SearchPcs
  <2>14. OptimalLike(piece')
    BY <2>8, <2>9 DEF OptimalLike
  <2> QED BY <1>1, <1>6, <2>13, <2>14, OptimalStep
<1>7. \/ piece.ip = piece.anchor /\ piece' = [piece EXCEPT !.edges = {}] /\ pc' = "way"
      \/ /\ \E e \in {y \in piece.edges : y.to = piece.ip} :
              piece' = [piece EXCEPT !.ip = e.from, !.way = IF e.off = 0 THEN @ ELSE <<e>> \o @]
         /\ pc' = pc
  BY DEF StepBack
<1> QED BY <1>5, <1>6, <1>7

\* A search that ends leaves the piece as it is.
LEMMA ToTail ==
  ASSUME IInv, pc \in PiecePcs, pc' = "tail", UNCHANGED Outside, UNCHANGED piece
  PROVE  IInv'
<1>1. pc' \in PiecePcs /\ piece' \in PieceType
  BY InPiece DEF PiecePcs
<1>2. TypeOK' /\ FrameOK' /\ BlockOK' /\ CoverOK' /\ FoundOK'
  BY <1>1, OutsideKept
<1>3. PieceOK'
  BY InPiece, PieceKept
<1>4. SearchOK' /\ RowsOK' /\ OptimalOK'
  BY DEF SearchOK, RowsOK, OptimalOK, SearchPcs
<1> QED BY <1>2, <1>3, <1>4 DEF IInv

\* Less than the margin is left of the piece.
LEMMA SearchOverStep ==
  ASSUME IInv, SearchOver
  PROVE  IInv'
<1>1. pc \in PiecePcs /\ pc' = "tail" /\ UNCHANGED Outside /\ UNCHANGED piece
  BY DEF SearchOver, Outside, PiecePcs, SearchPcs
<1> QED BY <1>1, ToTail

\* find_opt: a match of the way taken is emitted.
LEMMA TakeWayStep ==
  ASSUME IInv, TakeWay
  PROVE  IInv'
<1> DEFINE way == piece.way
           e == Head(way)
           em == Emit(e.from, e.to - e.from, e.off)
           rest == Tail(way)
           q == [em EXCEPT !.way = rest, !.anchor = e.to]
<1>1. pc = "way" /\ pc \in PiecePcs /\ UNCHANGED Outside
  BY DEF TakeWay, Outside, PiecePcs
<1>2. /\ TypeOK /\ FrameOK /\ Found(piece, piece.anchor)
      /\ piece.anchor <= piece.to /\ piece.to <= End /\ piece \in PieceType
  BY <1>1, InPiece
<1>3. WayOK(piece.anchor)
  BY <1>1 DEF IInv, OptimalOK
<1>4. CASE way = <<>> /\ pc' = "tail" /\ UNCHANGED piece
  BY <1>1, <1>4, ToTail
<1>5. CASE way # <<>> /\ pc' = pc /\ piece' = [em EXCEPT !.way = Tail(@), !.anchor = e.to]
  <2>1. way \in Seq(EdgeType)
    BY <1>2, PieceIs
  <2>2. PICK n \in Nat : n = Len(way) /\ n # 0
    BY <1>5, <2>1
  <2>3. /\ e = way[1] /\ e \in EdgeType /\ rest \in Seq(EdgeType) /\ Len(rest) = n - 1
        /\ \A k \in 1..(n - 1) : rest[k] = way[k + 1]
    BY <1>5, <2>1, <2>2
  <2>4. \A k \in 1..n : piece.anchor <= way[k].from /\ EdgeOK(way[k]) /\ way[k].off # 0
    BY <1>3, <2>2 DEF WayOK
  <2>5. \A j, k \in 1..n : j < k => way[j].to <= way[k].from
    BY <1>3, <2>2 DEF WayOK
  <2>6. EdgeOK(e) /\ e.off # 0
    BY <2>2, <2>3, <2>4
  <2>7. \A k \in 1..(n - 1) : /\ k + 1 \in 1..n /\ e.to <= rest[k].from /\ EdgeOK(rest[k])
                              /\ rest[k].off # 0
    <3> SUFFICES ASSUME NEW k \in 1..(n - 1)
                 PROVE  /\ k + 1 \in 1..n /\ e.to <= rest[k].from /\ EdgeOK(rest[k])
                        /\ rest[k].off # 0
      OBVIOUS
    <3>1. k + 1 \in 1..n /\ 1 \in 1..n /\ 1 < k + 1
      BY <2>2
    <3> HIDE DEF e, way, rest
    <3> QED BY <2>3, <2>4, <2>5, <3>1
  <2>8. \A j, k \in 1..(n - 1) : j < k => rest[j].to <= rest[k].from
    <3> SUFFICES ASSUME NEW j \in 1..(n - 1), NEW k \in 1..(n - 1), j < k
                 PROVE  rest[j].to <= rest[k].from
      OBVIOUS
    <3>1. j + 1 \in 1..n /\ k + 1 \in 1..n /\ j + 1 < k + 1
      BY <2>2
    <3> HIDE DEF e, way, rest
    <3> QED BY <2>3, <2>5, <3>1
  <2>9. PICK f \in Nat, t \in Nat, o \in Nat, an \in Nat, to \in Nat, ed \in Nat :
          /\ f = e.from /\ t = e.to /\ o = e.off /\ an = piece.anchor /\ to = piece.to /\ ed = End
          /\ an <= f /\ f < t /\ t <= to /\ to <= ed
    <3>1. e.from \in Nat /\ e.to \in Nat /\ e.off \in Nat
      BY <2>3 DEF EdgeType
    <3>2. piece.anchor \in Nat /\ piece.to \in Nat /\ End \in Nat
      BY <1>2, PieceIs, WorldIs
    <3> QED BY <1>2, <2>6, <3>1, <3>2 DEF EdgeOK
  <2>10. t - f \in Nat /\ f + (t - f) = t /\ f <= ed /\ an <= f
    BY <2>9
  <2>11. CanCopy(World, f, t - f, o)
    BY <2>6, <2>9 DEF EdgeOK
  <2> DEFINE len == t - f
  <2>12. em = Emit(f, len, o)
    BY <2>9
  <2>13. len \in Nat /\ f + len = t /\ CanCopy(World, f, len, o)
    BY <2>10, <2>11
  <2> HIDE DEF len, em, e, rest, way
  <2>14. /\ em \in PieceType /\ Alike1(em) /\ Found(em, t) /\ em.rep1 = piece.rep1
    BY <1>2, <2>9, <2>10, <2>12, <2>13, EmitIs
  <2>15. em.way = way
    BY <2>14 DEF Alike1, way
  <2>16. piece' = q
    BY <1>5, <2>14, <2>15 DEF PieceType, rest
  <2>17. /\ q \in PieceType /\ q.anchor = t /\ q.way = rest /\ q.seqs = em.seqs
         /\ q.lits = em.lits /\ q.finder = em.finder /\ q.to = em.to /\ q.lowest = em.lowest
         /\ q.rep1 = em.rep1
    BY <2>3, <2>9, <2>14 DEF PieceType
  <2> HIDE DEF q
  <2>18. pc' \in PiecePcs /\ pc' = "way"
    BY <1>1, <1>5
  <2>19. TypeOK' /\ FrameOK' /\ BlockOK' /\ CoverOK' /\ FoundOK'
    BY <1>1, <2>16, <2>17, <2>18, OutsideKept
  <2>20. PieceOK'
    <3>1. Found(piece', t)
      BY <2>14, <2>16, <2>17 DEF Found
    <3>2. piece'.anchor = t /\ piece'.to = piece.to /\ t <= piece.to
      BY <2>9, <2>14, <2>16, <2>17 DEF Alike1
    <3> QED BY <1>1, <3>1, <3>2, PieceKept
  <2>21. FrameStart' = FrameStart /\ PayloadAt' = PayloadAt /\ World' = World
    BY <1>1, WorldStays DEF Outside
  <2>22. SearchOK'
    <3>1. pc' \notin SearchPcs
      BY <2>18 DEF SearchPcs
    <3>2. /\ Margin <= piece.to /\ Fits(piece.rep1)
          /\ FrameStart <= piece.lowest /\ 0 <= piece.lowest /\ piece.lowest <= pos
      BY <1>1 DEF IInv, SearchOK
    <3>3. piece'.to = piece.to /\ piece'.lowest = piece.lowest /\ piece'.rep1 = piece.rep1
      BY <2>14, <2>16, <2>17 DEF Alike1
    <3>4. Fits(piece.rep1)'
      BY <1>1, <2>21, <3>2, <3>3 DEF Fits, Outside
    <3> QED BY <1>1, <2>21, <3>1, <3>2, <3>3, <3>4 DEF SearchOK, Outside
  <2>23. RowsOK'
    BY <2>18 DEF RowsOK, SearchPcs
  <2>24. OptimalOK'
    <3>1. \A y : EdgeOK(y) /\ t <= y.from => EdgeOK(y)'
      <4>1. piece'.anchor = t /\ piece'.to = piece.to
        BY <2>14, <2>16, <2>17 DEF Alike1
      <4> QED BY <2>21, <4>1 DEF EdgeOK
    <3>2. WayOK(piece.anchor)'
      <4>1. piece'.way = rest /\ piece'.anchor = t
        BY <2>16, <2>17
      <4>2. \A k \in 1..Len(rest) : t <= rest[k].from /\ EdgeOK(rest[k]) /\ rest[k].off # 0
        BY <2>3, <2>7, <2>9
      <4>3. \A j, k \in 1..Len(rest) : j < k => rest[j].to <= rest[k].from
        BY <2>3, <2>8
      <4> QED BY <3>1, <4>1, <4>2, <4>3 DEF WayOK
    <3> QED BY <2>18, <3>2 DEF OptimalOK, SearchPcs
  <2> QED BY <2>19, <2>20, <2>22, <2>23, <2>24 DEF IInv
<1>6. \/ way = <<>> /\ pc' = "tail" /\ UNCHANGED piece
      \/ way # <<>> /\ pc' = pc /\ piece' = [em EXCEPT !.way = Tail(@), !.anchor = e.to]
  BY DEF TakeWay
<1> QED BY <1>4, <1>5, <1>6

-----------------------------------------------------------------------------
(* The blocks: one begins, its long-distance matches are collected, its    *)
(* pieces are joined, it ends.                                             *)

\* A block begins with nothing.
LEMMA NoBlockType == NoBlock \in BlockType
<1>1. <<0, 0, 0>> \in [1..3 -> Nat]
  OBVIOUS
<1> QED BY <1>1 DEF NoBlock, BlockType

\* far_reps_ok: the offsets a block may repeat fit it.
LEMMA HintIs ==
  ASSUME TypeOK, FrameOK, NEW end \in Nat
  PROVE  /\ Hint(end) \in [1..3 -> Nat]
         /\ \A k \in 1..3 : Hint(end)[k] <= Window \/ end - PayloadAt <= Window
<1>1. \A k \in 1..3 : reps[k] \in Nat
  BY DEF TypeOK, RepsType
<1>2. Window \in Nat
  BY Numbers
<1> QED BY <1>1, <1>2 DEF Hint

\* A block begins where the last one ended, and ends in the workspace.
LEMMA BlockBegins ==
  ASSUME IInv, NEW end \in BlockEnds, NEW next \in {"skipped", "far", "piece"},
         NextBlock(end, next), pos' \in Nat, hits' \in SUBSET HitType
  PROVE  /\ TypeOK' /\ FrameOK' /\ BlockOK' /\ PieceOK' /\ SearchOK' /\ RowsOK' /\ OptimalOK'
         /\ FoundOK' /\ block'.from = off /\ block'.to = end /\ off <= end /\ World' = World
         /\ block'.seqs = <<>> /\ block'.lits = <<>> /\ pc' = next /\ end \in Nat
<1>1. TypeOK /\ FrameOK
  BY DEF IInv
<1>2. /\ pc = "block" /\ off < End /\ off' = end /\ pc' = next
      /\ UNCHANGED <<call, data, dropped, reps, piece>>
      /\ block' = [NoBlock EXCEPT !.from = off, !.to = end, !.hint = Hint(end)]
  BY DEF NextBlock
<1>3. PICK n \in BlockLens : end = Lower(off + n, End)
  BY DEF BlockEnds
<1>4. PICK o \in Nat, e \in Nat, dr \in Nat, mx \in Nat, len \in Nat :
        /\ o = off /\ e = End /\ dr = dropped /\ mx = Len(data) /\ len = n /\ o < e /\ e = mx - dr
        /\ dr + o <= mx
  <2>1. n \in Nat /\ off \in Nat /\ dropped \in Nat /\ End \in Nat /\ Len(data) \in Nat
    BY <1>1, WorldIs, Numbers DEF TypeOK
  <2> QED BY <1>1, <1>2, <2>1 DEF End, FrameOK
<1>5. end \in Nat /\ o <= end /\ end <= e /\ dr + end <= mx
  BY <1>3, <1>4 DEF Lower
<1>6. Hint(end) \in [1..3 -> Nat] /\ \A k \in 1..3 : Hint(end)[k] <= Window \/ end - PayloadAt <= Window
  BY <1>1, <1>5, HintIs
<1>7. /\ block' \in BlockType /\ block'.from = off /\ block'.to = end /\ block'.hint = Hint(end)
      /\ block'.seqs = NoBlock.seqs /\ block'.lits = NoBlock.lits
  BY <1>2, <1>4, <1>5, <1>6, NoBlockType DEF BlockType
<1>8. NoBlock.seqs = <<>> /\ NoBlock.lits = <<>>
  BY DEF NoBlock
<1>9. World' = World /\ PayloadAt' = PayloadAt
  BY <1>2, WorldStays
<1>10. TypeOK'
  BY <1>1, <1>2, <1>5, <1>7 DEF TypeOK, AllPcs, PiecePcs
<1>11. FrameOK'
  <2>1. PICK h \in Nat : h = Len(call.history)
    BY <1>1, HistoryIs DEF TypeOK
  <2>2. h <= dr + end
    <3>1. h <= dr + o
      BY <1>1, <1>4, <2>1 DEF FrameOK
    <3> QED BY <1>4, <1>5, <3>1
  <2> QED BY <1>1, <1>2, <1>4, <1>5, <2>1, <2>2 DEF FrameOK
<1>12. BlockOK'
  <2>1. PayloadAt <= off
    BY <1>1, WorldIs
  <2>2. \A k \in 1..3 : Fits(block.hint[k])'
    BY <1>6, <1>7, <1>9 DEF Fits
  <2> QED BY <1>2, <1>4, <1>5, <1>7, <1>9, <2>1, <2>2 DEF BlockOK
<1>13. PieceOK' /\ SearchOK' /\ RowsOK' /\ OptimalOK' /\ FoundOK'
  BY <1>2 DEF PieceOK, SearchOK, RowsOK, OptimalOK, FoundOK, PiecePcs, SearchPcs
<1> QED BY <1>2, <1>4, <1>5, <1>7, <1>8, <1>9, <1>10, <1>11, <1>12, <1>13

\* A block that is not searched.
LEMMA SkipSearchStep ==
  ASSUME IInv, SkipSearch
  PROVE  IInv'
<1>1. PICK end \in BlockEnds : NextBlock(end, "skipped")
  BY DEF SkipSearch
<1>2. pos' \in Nat /\ hits' \in SUBSET HitType
  BY DEF SkipSearch, IInv, TypeOK
<1>3. /\ TypeOK' /\ FrameOK' /\ BlockOK' /\ PieceOK' /\ SearchOK' /\ RowsOK' /\ OptimalOK'
      /\ FoundOK' /\ pc' = "skipped"
  BY <1>1, <1>2, BlockBegins
<1>4. CoverOK'
  BY <1>3 DEF CoverOK, PiecePcs, SearchPcs
<1> QED BY <1>3, <1>4 DEF IInv

\* Sampling never goes back.
LEMMA AlignedIs ==
  ASSUME NEW p \in Nat
  PROVE  Aligned(p) \in Nat /\ p <= Aligned(p)
<1>1. PICK s \in Nat \ {0} : s = LdmStep
  BY Numbers
<1>2. p % s \in Int
  BY <1>1
<1>3. (s - (p % s)) % s \in 0..(s - 1)
  BY <1>1, <1>2
<1> DEFINE x == (s - (p % s)) % s
<1>4. Aligned(p) = p + x /\ x \in Nat
  BY <1>1, <1>3 DEF Aligned
<1> HIDE DEF x
<1> QED BY <1>4

\* A block that is.
LEMMA SearchStep ==
  ASSUME IInv, Search
  PROVE  IInv'
<1>1. PICK end \in BlockEnds, next \in {"far", "piece"} :
        /\ NextBlock(end, next) /\ pos' = IF next = "far" THEN Aligned(off) ELSE off
        /\ hits' = {}
  <2>1. PICK end \in BlockEnds, far \in BOOLEAN :
          /\ NextBlock(end, IF far THEN "far" ELSE "piece")
          /\ pos' = IF far THEN Aligned(off) ELSE off
          /\ hits' = {}
    BY DEF Search
  <2>2. CASE far
    BY <2>1, <2>2
  <2>3. CASE ~far
    BY <2>1, <2>3
  <2> QED BY <2>2, <2>3
<1>2. off \in Nat
  BY DEF IInv, TypeOK
<1>3. /\ pos' \in Nat /\ off <= pos' /\ (next # "far" => pos' = off) /\ hits' \in SUBSET HitType
  BY <1>1, <1>2, AlignedIs
<1>4. /\ TypeOK' /\ FrameOK' /\ BlockOK' /\ PieceOK' /\ SearchOK' /\ RowsOK' /\ OptimalOK'
      /\ FoundOK' /\ block'.from = off /\ block'.to = end /\ off <= end /\ World' = World
      /\ block'.seqs = <<>> /\ block'.lits = <<>> /\ pc' = next
  BY <1>1, <1>3, BlockBegins
<1>5. CoverOK'
  <2>1. Covered' = off
    BY <1>3, <1>4 DEF Covered
  <2>2. Rebuilt(World, <<>>, <<>>, off, off, off)
    BY <1>2, RebuiltEmpty
  <2> QED BY <1>1, <1>3, <1>4, <2>1, <2>2 DEF CoverOK
<1> QED BY <1>4, <1>5 DEF IInv

\* collect_ldm, one position.
LEMMA CollectStep ==
  ASSUME IInv, Collect
  PROVE  IInv'
<1> DEFINE m == ldm[Hash(pos, LdmMin, LdmBuckets)]
           n == MatchLength(m, pos, block.to)
           hit == [ip |-> pos, len |-> n, off |-> pos - m]
<1>1. pc = "far" /\ UNCHANGED <<call, data, dropped, off, reps, block, piece>>
  BY DEF Collect
<1>2. \/ pc' = "piece" /\ pos' = block.from /\ UNCHANGED hits
      \/ /\ ~(pos + LdmMin > block.to) /\ pc' = pc
         /\ m \in FrameStart..(pos - 1) /\ pos - m <= Window /\ n >= LdmMin
         /\ hits' = hits \union {hit} /\ pos' = Aligned(pos + n)
      \/ pc' = pc /\ pos' = pos + LdmStep /\ UNCHANGED hits
  BY DEF Collect
<1>3. TypeOK /\ FrameOK
  BY DEF IInv
<1>4. PICK p \in Nat, b \in Nat, f \in Nat, lm \in Nat, ls \in Nat, fs \in Int, w \in Nat :
        /\ p = pos /\ b = block.to /\ f = block.from /\ lm = LdmMin /\ lm # 0 /\ ls = LdmStep
        /\ fs = FrameStart /\ w = Window
  <2>1. FrameStart \in Int
    BY <1>3, WorldIs
  <2> QED BY <1>3, <2>1, PieceIs, Numbers
<1>5. /\ f <= p /\ Rebuilt(World, block.seqs, block.lits, f, f, f) /\ \A h \in hits : HitOK(h, f)
  BY <1>1, <1>4 DEF IInv, CoverOK, Covered
<1>6. World' = World /\ PayloadAt' = PayloadAt
  BY <1>1, WorldStays
<1>7. ASSUME m \in FrameStart..(pos - 1), pos - m <= Window, n >= LdmMin, ~(pos + LdmMin > block.to)
      PROVE  hit \in HitType /\ HitOK(hit, f) /\ n \in Nat
  <2>1. m \in Int /\ fs <= m /\ m < p /\ p - m <= w /\ p <= b
    BY <1>4, <1>7
  <2>2. n \in 0..(b - p) /\ Equal(m, p, n)
    <3>1. p \in Int /\ b \in Int /\ p <= b
      BY <2>1
    <3> HIDE DEF m
    <3> QED BY <1>4, <3>1, MatchLengthIs
  <2> HIDE DEF m
  <2>3. n \in Nat /\ n # 0 /\ p + n <= b /\ p - m \in Nat \ {0}
    BY <1>4, <1>7, <2>1, <2>2
  <2> HIDE DEF n
  <2>4. CanCopy(World, p, n, p - m)
    BY <1>3, <1>4, <2>1, <2>2, <2>3, CanCopyNear
  <2>5. hit \in HitType /\ hit.ip = p /\ hit.len = n /\ hit.off = p - m
    BY <1>4, <2>3 DEF HitType
  <2> HIDE DEF hit
  <2>6. HitOK(hit, f)
    BY <1>4, <1>5, <2>3, <2>4, <2>5 DEF HitOK
  <2> QED BY <2>3, <2>5, <2>6
<1>8. ASSUME hits' \in SUBSET HitType, \A h \in hits' : HitOK(h, f), pos' \in Nat, f <= pos',
             \/ pc' = "far"
             \/ pc' = "piece" /\ pos' = f
      PROVE  IInv'
  <2>1. TypeOK'
    BY <1>1, <1>3, <1>8 DEF TypeOK, AllPcs
  <2>2. FrameOK'
    BY <1>1, <1>3 DEF FrameOK
  <2>3. BlockOK'
    BY <1>1, <1>6 DEF IInv, BlockOK, Fits
  <2>4. CoverOK'
    <3>1. Covered' = f
      BY <1>1, <1>4, <1>8 DEF Covered
    <3>2. \A h \in hits' : HitOK(h, f)'
      BY <1>1, <1>6, <1>8 DEF HitOK
    <3>3. pc' # "far" => pos' <= block'.to
      <4>1. block.from <= off /\ block.to = off
        BY <1>1 DEF IInv, BlockOK
      <4> QED BY <1>1, <1>4, <1>8, <4>1
    <3> QED BY <1>1, <1>4, <1>5, <1>6, <1>8, <3>1, <3>2, <3>3 DEF CoverOK
  <2>5. PieceOK' /\ SearchOK' /\ RowsOK' /\ OptimalOK' /\ FoundOK'
    BY <1>8 DEF PieceOK, SearchOK, RowsOK, OptimalOK, FoundOK, PiecePcs, SearchPcs
  <2> QED BY <2>1, <2>2, <2>3, <2>4, <2>5 DEF IInv
<1>9. hits \in SUBSET HitType
  BY <1>3 DEF TypeOK
<1>10. CASE pc' = "piece" /\ pos' = block.from /\ UNCHANGED hits
  <2>1. f <= f
    BY <1>4
  <2> QED BY <1>4, <1>5, <1>8, <1>9, <1>10, <2>1
<1>11. CASE pc' = pc /\ pos' = pos + LdmStep /\ UNCHANGED hits
  <2>1. p + ls \in Nat /\ f <= p + ls
    BY <1>4, <1>5
  <2> QED BY <1>1, <1>4, <1>5, <1>8, <1>9, <1>11, <2>1
<1>12. CASE /\ ~(pos + LdmMin > block.to) /\ pc' = pc
            /\ m \in FrameStart..(pos - 1) /\ pos - m <= Window /\ n >= LdmMin
            /\ hits' = hits \union {hit} /\ pos' = Aligned(pos + n)
  <2>1. hit \in HitType /\ HitOK(hit, f) /\ n \in Nat
    BY <1>7, <1>12
  <2> HIDE DEF hit, n, m
  <2>2. p + n \in Nat /\ f <= p + n
    BY <1>4, <1>5, <2>1
  <2>3. pos' = Aligned(p + n)
    BY <1>4, <1>12
  <2> DEFINE x == p + n
  <2>4. Aligned(x) \in Nat /\ x <= Aligned(x)
    BY <2>2, AlignedIs
  <2>5. pos' \in Nat /\ f <= pos'
    <3>1. x \in Nat /\ f <= x /\ pos' = Aligned(x)
      BY <2>2, <2>3
    <3> HIDE DEF x
    <3> QED BY <1>4, <2>4, <3>1
  <2> QED BY <1>1, <1>5, <1>8, <1>9, <1>12, <2>1, <2>5
<1> HIDE DEF m, n, hit
<1> QED BY <1>2, <1>10, <1>11, <1>12

\* A piece begins with nothing.
LEMMA NoPieceType == NoPiece \in PieceType
<1>1. NoPick \in PickType
  BY DEF NoPick, PickType
<1>2. {} \in SUBSET EdgeType /\ <<>> \in Seq(EdgeType) /\ <<>> \in Seq(Sequence) /\ <<>> \in Seq(Nat)
  OBVIOUS
<1> QED BY <1>1, <1>2 DEF NoPiece, PieceType

\* A piece ends at the next long-distance match, or with the block.
LEMMA PieceEndIs ==
  ASSUME IInv, pc \in {"piece"}
  PROVE  /\ PieceEnd \in Nat /\ pos <= PieceEnd /\ PieceEnd <= block.to
         /\ (hits = {} => PieceEnd = block.to)
<1>1. pos <= block.to /\ \A h \in hits : HitOK(h, pos)
  BY DEF IInv, CoverOK, Covered
<1>2. block.to \in Nat /\ pos \in Nat /\ hits \in SUBSET HitType
  BY PieceIs DEF IInv, TypeOK
<1>3. CASE hits = {}
  BY <1>1, <1>2, <1>3 DEF PieceEnd
<1>4. CASE hits # {}
  <2> DEFINE T == {h.ip : h \in hits}
             Q(ip) == \A h \in hits : ip <= h.ip
  <2>1. T \in SUBSET Nat /\ T # {}
    BY <1>2, <1>4 DEF HitType
  <2>2. \E x \in T : Q(x)
    <3>1. PICK x \in T : \A y \in T : x <= y
      <4> HIDE DEF T
      <4> QED BY <2>1, LeastOf
    <3>2. Q(x)
      BY <3>1
    <3> HIDE DEF T, Q
    <3> QED BY <3>1, <3>2
  <2>3. PieceEnd = CHOOSE ip \in T : Q(ip)
    BY <1>4 DEF PieceEnd
  <2>4. PieceEnd \in T
    <3> HIDE DEF T, Q
    <3> QED BY <2>2, <2>3
  <2>5. PICK h \in hits : PieceEnd = h.ip
    BY <2>4
  <2>6. PICK i \in Nat, l \in Nat, b \in Nat, p \in Nat :
          i = h.ip /\ l = h.len /\ b = block.to /\ p = pos
    BY <1>2 DEF HitType
  <2>7. p <= i /\ i + l <= b
    BY <1>1, <2>6 DEF HitOK
  <2> QED BY <1>4, <2>5, <2>6, <2>7
<1> QED BY <1>3, <1>4

\* A row finder's offsets reach, a byte on, no further than its first position to match.
LEMMA ParkedIs ==
  ASSUME TypeOK, NEW rep \in Nat, NEW lowest \in Int, lowest <= pos, pos - Window <= lowest,
         Fits(rep)
  PROVE  /\ Parked(rep, lowest) \in Nat /\ Parked(rep, lowest) <= Window
         /\ Parked(rep, lowest) <= pos + 1 - lowest /\ Fits(Parked(rep, lowest))
<1>1. PICK p \in Nat, w \in Nat : p = pos /\ w = Window /\ w # 0
  BY PieceIs, Numbers
<1>2. Fits(0)
  BY <1>1 DEF Fits
<1>3. CASE Parked(rep, lowest) = 0
  BY <1>1, <1>2, <1>3
<1>4. CASE Parked(rep, lowest) = rep /\ rep <= ParkMax(lowest)
  <2>1. ParkMax(lowest) = IF p = lowest THEN 1 ELSE p - lowest
    BY <1>1 DEF ParkMax
  <2>2. rep <= w /\ rep <= p + 1 - lowest
    BY <1>1, <1>4, <2>1
  <2> QED BY <1>1, <1>4, <2>2
<1>5. ParkMax(lowest) \in Int
  BY <1>1 DEF ParkMax
<1> QED BY <1>3, <1>4, <1>5 DEF Parked

\* find_sequences_strategy_sel.
LEMMA StartPieceStep ==
  ASSUME IInv, StartPiece
  PROVE  IInv'
<1> DEFINE lowest == Upper(Above(pos, Window), FrameStart)
           fresh == [NoPiece EXCEPT !.to = PieceEnd, !.ip = pos, !.anchor = pos, !.lowest = lowest,
                                    !.rep1 = block.hint[1]]
           short == IF call.finder = "optimal" THEN PieceEnd - pos < Margin
                    ELSE pos >= Above(PieceEnd, Margin)
           rows == [fresh EXCEPT !.finder = "rows", !.ip = IF pos = lowest THEN pos + 1 ELSE pos,
                                 !.rep1 = Parked(block.hint[1], lowest),
                                 !.rep2 = Parked(block.hint[2], lowest)]
           searchers == {call.finder} \union (IF call.finder = "fast" THEN {"lazy"} ELSE {})
<1>1. /\ pc = "piece" /\ pc' = (IF short THEN "tail" ELSE "search")
      /\ UNCHANGED <<call, data, dropped, off, reps, block, hits, pos>>
  BY DEF StartPiece
<1>2. \/ short /\ piece' = fresh
      \/ /\ ~short /\ call.finder = "rows"
         /\ \E least \in {0, 1} : piece' = [rows EXCEPT !.lowest1 = Upper(lowest, least)]
      \/ /\ ~short /\ call.finder # "rows"
         /\ \E finder \in searchers, use_rep \in BOOLEAN, walk_on \in BOOLEAN :
              piece' = [fresh EXCEPT !.finder = finder, !.use_rep = use_rep, !.walk_on = walk_on]
  BY DEF StartPiece
<1>3. TypeOK /\ FrameOK
  BY DEF IInv
<1>4. PICK p \in Nat, w \in Nat, f \in Int, to \in Nat, b \in Nat, ma \in Nat :
        /\ p = pos /\ w = Window /\ w # 0 /\ f = FrameStart /\ 0 <= f /\ to = PieceEnd /\ b = block.to /\ ma = Margin
        /\ p <= to /\ to <= b
  <2>1. FrameStart \in Int /\ 0 <= FrameStart
    BY <1>3, WorldIs
  <2>2. PieceEnd \in Nat /\ pos <= PieceEnd /\ PieceEnd <= block.to
    BY <1>1, PieceEndIs
  <2> QED BY <1>3, <2>1, <2>2, PieceIs, Numbers
<1>5. f <= p
  <2>1. PICK c \in Int, bf \in Nat : c = PayloadAt /\ bf = block.from /\ c <= bf /\ bf <= p
    <3>1. PayloadAt \in Int /\ block.from \in Nat
      BY <1>3, WorldIs, PieceIs
    <3>2. PayloadAt <= block.from /\ block.from <= pos
      BY <1>1 DEF IInv, BlockOK, CoverOK
    <3> QED BY <1>4, <3>1, <3>2
  <2>2. f <= Upper(c, 0)
    BY <1>3, <1>4, <2>1, WorldIs
  <2>3. Upper(c, 0) <= p
    BY <1>4, <2>1 DEF Upper
  <2>4. Upper(c, 0) \in Int
    BY <2>1 DEF Upper
  <2> QED BY <1>4, <2>2, <2>3, <2>4
<1>6. lowest \in Int /\ 0 <= lowest /\ f <= lowest /\ lowest <= p /\ p - w <= lowest
  BY <1>4, <1>5 DEF Upper, Above
<1> HIDE DEF lowest
<1>7. /\ block.hint[1] \in Nat /\ block.hint[2] \in Nat
      /\ Fits(block.hint[1]) /\ Fits(block.hint[2])
  BY <1>1, <1>3, PieceIs DEF IInv, BlockOK
<1>8. /\ fresh \in PieceType /\ fresh.to = to /\ fresh.ip = p /\ fresh.anchor = p
      /\ fresh.lowest = lowest /\ fresh.rep1 = block.hint[1]
      /\ fresh.seqs = NoPiece.seqs /\ fresh.lits = NoPiece.lits
      /\ fresh.way = NoPiece.way /\ fresh.edges = NoPiece.edges /\ fresh.finder = NoPiece.finder
  BY <1>4, <1>6, <1>7, NoPieceType DEF PieceType
<1>9. NoPiece.seqs = <<>> /\ NoPiece.lits = <<>> /\ NoPiece.way = <<>> /\ NoPiece.edges = {}
  BY DEF NoPiece
<1>10. World' = World /\ FrameStart' = FrameStart /\ PayloadAt' = PayloadAt
  BY <1>1, WorldStays
<1>11. Found(NoPiece, p)
  BY <1>4, <1>9, RebuiltEmpty DEF Found
<1>12. ~short => ma <= to
  <2>1. PieceEnd - pos < Margin \/ pos >= Above(PieceEnd, Margin) \/ ma <= to
    BY <1>4 DEF Above
  <2>2. ASSUME ~(PieceEnd - pos < Margin) PROVE ma <= to
    BY <1>4, <2>2
  <2>3. ASSUME ~(pos >= Above(PieceEnd, Margin)) PROVE ma <= to
    BY <1>4, <2>3 DEF Above
  <2> QED BY <2>2, <2>3
<1> HIDE DEF short
\* What every new piece has.
<1>13. ASSUME piece' \in PieceType, piece'.to = to, piece'.anchor = p, p <= piece'.ip,
              piece'.lowest = lowest, Fits(piece'.rep1), piece'.seqs = <<>>, piece'.lits = <<>>,
              piece'.way = <<>>, piece'.edges = {}, RowsOK'
       PROVE  IInv'
  <2>1. pc' \in {"tail", "search"} /\ pc' \in AllPcs /\ (pc' = "search" => ~short)
    BY <1>1 DEF AllPcs, PiecePcs, SearchPcs
  <2>2. TypeOK'
    BY <1>1, <1>3, <1>13, <2>1 DEF TypeOK
  <2>3. FrameOK'
    BY <1>1, <1>3 DEF FrameOK
  <2>4. BlockOK'
    BY <1>1, <1>10 DEF IInv, BlockOK, Fits
  <2>5. CoverOK'
    <3>1. Covered = pos /\ Covered' = pos
      BY <1>1, <2>1 DEF Covered
    <3>2. /\ block.from <= pos /\ pos <= block.to
          /\ Rebuilt(World, block.seqs, block.lits, block.from, pos, pos)
          /\ \A h \in hits : HitOK(h, pos)
      BY <1>1, <3>1 DEF IInv, CoverOK
    <3>3. \A h \in hits : HitOK(h, pos)'
      BY <1>1, <1>10, <3>2 DEF HitOK
    <3> QED BY <1>1, <1>10, <3>1, <3>2, <3>3 DEF CoverOK
  <2>6. PieceOK'
    <3>1. hits = {} => to = b
      BY <1>1, <1>4, PieceEndIs
    <3>2. Rebuilt(World, <<>>, <<>>, p, p, p)
      BY <1>4, RebuiltEmpty
    <3> QED BY <1>1, <1>4, <1>10, <1>13, <3>1, <3>2 DEF PieceOK
  <2>7. SearchOK'
    <3>1. Fits(piece.rep1)'
      BY <1>1, <1>10, <1>13 DEF Fits
    <3> QED BY <1>1, <1>4, <1>6, <1>10, <1>12, <1>13, <2>1, <3>1 DEF SearchOK, SearchPcs
  <2>8. OptimalOK'
    BY <1>13, <2>1 DEF OptimalOK
  <2>9. FoundOK'
    BY <2>1 DEF FoundOK
  <2> QED BY <1>13, <2>2, <2>3, <2>4, <2>5, <2>6, <2>7, <2>8, <2>9 DEF IInv
<1>14. p <= p
  BY <1>4
<1>15. CASE short /\ piece' = fresh
  <2>1. pc' = "tail"
    BY <1>1, <1>15
  <2>2. RowsOK'
    BY <2>1 DEF RowsOK, SearchPcs
  <2> HIDE DEF fresh
  <2> QED BY <1>7, <1>8, <1>9, <1>13, <1>14, <1>15, <2>2
<1>16. CASE /\ ~short /\ call.finder = "rows"
            /\ \E least \in {0, 1} : piece' = [rows EXCEPT !.lowest1 = Upper(lowest, least)]
  <2> DEFINE ip == IF pos = lowest THEN pos + 1 ELSE pos
             r1 == Parked(block.hint[1], lowest)
             r2 == Parked(block.hint[2], lowest)
  <2>1. PICK least \in {0, 1} : piece' = [rows EXCEPT !.lowest1 = Upper(lowest, least)]
    BY <1>16
  <2>2. PICK l1 \in Int : l1 = Upper(lowest, least) /\ lowest <= l1
    BY <1>6 DEF Upper
  <2>3. ip \in Nat /\ p <= ip
    BY <1>4
  <2>4. /\ r1 \in Nat /\ r1 <= w /\ r1 <= p + 1 - lowest /\ Fits(r1)
        /\ r2 \in Nat /\ r2 <= w /\ r2 <= p + 1 - lowest
    BY <1>3, <1>4, <1>6, <1>7, ParkedIs
  <2> HIDE DEF fresh, ip, r1, r2
  <2>5. rows = [fresh EXCEPT !.finder = "rows", !.ip = ip, !.rep1 = r1, !.rep2 = r2]
    BY DEF ip, r1, r2
  <2>6. /\ rows \in PieceType /\ rows.to = fresh.to /\ rows.ip = ip /\ rows.anchor = fresh.anchor
        /\ rows.lowest = fresh.lowest /\ rows.rep1 = r1 /\ rows.rep2 = r2
        /\ rows.seqs = fresh.seqs /\ rows.lits = fresh.lits
        /\ rows.way = fresh.way /\ rows.edges = fresh.edges
    BY <1>8, <2>3, <2>4, <2>5 DEF PieceType
  <2> HIDE DEF rows
  <2> DEFINE q == [rows EXCEPT !.lowest1 = l1]
  <2>7. /\ q \in PieceType /\ q.to = rows.to /\ q.ip = rows.ip /\ q.anchor = rows.anchor
        /\ q.lowest = rows.lowest /\ q.rep1 = rows.rep1 /\ q.rep2 = rows.rep2
        /\ q.seqs = rows.seqs /\ q.lits = rows.lits
        /\ q.way = rows.way /\ q.edges = rows.edges /\ q.lowest1 = l1
    BY <2>2, <2>6 DEF PieceType
  <2>8. piece' = q
    BY <2>1, <2>2
  <2> HIDE DEF q
  <2>9. pc' = "search"
    BY <1>1, <1>16
  <2>10. RowsOK'
    <3>1. piece'.lowest <= piece'.lowest1
      BY <1>8, <2>2, <2>6, <2>7, <2>8
    <3>2. RowRepOK(piece.rep1, 1)' /\ RowRepOK(piece.rep2, 1)'
      BY <1>4, <1>8, <2>4, <2>6, <2>7, <2>8 DEF RowRepOK
    <3> QED BY <2>9, <3>1, <3>2 DEF RowsOK
  <2> QED BY <1>8, <1>9, <1>13, <2>3, <2>4, <2>6, <2>7, <2>8, <2>10
<1>17. ASSUME ~short, call.finder # "rows", NEW finder \in searchers,
              NEW use_rep \in BOOLEAN, NEW walk_on \in BOOLEAN,
              piece' = [fresh EXCEPT !.finder = finder, !.use_rep = use_rep, !.walk_on = walk_on]
       PROVE  IInv'
  <2>1. finder \in {"fast", "dfast", "greedy", "lazy", "tree", "optimal"}
    BY <1>3, <1>17, InputAssumption DEF TypeOK
  <2> HIDE DEF fresh, searchers
  <2> DEFINE q == [fresh EXCEPT !.finder = finder, !.use_rep = use_rep, !.walk_on = walk_on]
  <2>2. /\ q \in PieceType /\ q.to = fresh.to /\ q.ip = fresh.ip /\ q.anchor = fresh.anchor
        /\ q.lowest = fresh.lowest /\ q.rep1 = fresh.rep1 /\ q.finder = finder
        /\ q.seqs = fresh.seqs /\ q.lits = fresh.lits
        /\ q.way = fresh.way /\ q.edges = fresh.edges
    BY <1>8, <2>1 DEF PieceType
  <2>3. piece' = q
    BY <1>17
  <2> HIDE DEF q
  <2>4. pc' = "search"
    BY <1>1, <1>17
  <2>5. RowsOK'
    BY <2>1, <2>2, <2>3, <2>4 DEF RowsOK
  <2> QED BY <1>7, <1>8, <1>9, <1>13, <1>14, <2>2, <2>3, <2>5
<1> HIDE DEF fresh, rows, searchers
<1> QED BY <1>2, <1>15, <1>16, <1>17

\* find_sequences_inner: a piece, its last literals and the match behind it are put to the
\* block.
LEMMA JoinPieceStep ==
  ASSUME IInv, JoinPiece
  PROVE  IInv'
<1> DEFINE more == Slice(piece.anchor, piece.to)
           lits == piece.lits \o more
           leftover == Above(Len(lits), SumLit(piece.seqs))
<1>1. /\ pc = "tail" /\ piece' = NoPiece
      /\ UNCHANGED <<call, data, dropped, off, reps>>
  BY DEF JoinPiece
<1>2. \/ /\ hits = {} /\ pc' = "found" /\ UNCHANGED <<hits, pos>>
         /\ block' = [block EXCEPT !.seqs = @ \o piece.seqs \o <<>>, !.lits = @ \o lits]
      \/ \E hit \in {h \in hits : h.ip = piece.to} :
           /\ block' = [block EXCEPT !.seqs = @ \o piece.seqs \o
                                       <<[lit |-> leftover, len |-> hit.len, off |-> hit.off]>>,
                                     !.lits = @ \o lits]
           /\ pos' = Lower(hit.ip + hit.len, block.to)
           /\ hits' = {h \in hits : h.ip >= pos' /\ h.ip < block.to}
           /\ pc' = "piece"
  BY DEF JoinPiece
<1>3. TypeOK /\ FrameOK
  BY DEF IInv
<1>4. PICK p \in Nat, a \in Nat, t \in Nat, b \in Nat, f \in Nat, e \in Nat :
        /\ p = pos /\ a = piece.anchor /\ t = piece.to /\ b = block.to /\ f = block.from /\ e = End
        /\ b <= e
  <2>1. End \in Nat /\ block.to <= End
    BY <1>1, <1>3, WorldIs DEF IInv, BlockOK
  <2> QED BY <1>3, <2>1, PieceIs
<1>5. /\ f <= p /\ p <= b /\ Rebuilt(World, block.seqs, block.lits, f, p, p)
      /\ \A h \in hits : HitOK(h, p)
  BY <1>1, <1>4 DEF IInv, CoverOK, Covered, PiecePcs
<1>6. /\ p <= t /\ t <= b /\ (hits = {} => t = b) /\ a <= t
      /\ Rebuilt(World, piece.seqs, piece.lits, p, a, a)
  BY <1>1, <1>4 DEF IInv, PieceOK, PiecePcs
<1>7. World' = World /\ PayloadAt' = PayloadAt
  BY <1>1, WorldStays
<1>8. /\ more \in Seq(Nat) /\ Len(more) = t - a
      /\ \A i \in 1..(t - a) : more[i] = Byte(World, a + (i - 1))
  <2>1. a \in Nat /\ t \in Nat /\ a <= t /\ t <= End /\ more = Slice(a, t)
    BY <1>4, <1>6
  <2> HIDE DEF more
  <2> QED BY <1>3, <2>1, SliceIs
<1> HIDE DEF more
<1>9. Rebuilt(World, piece.seqs, lits, p, a, t)
  BY <1>4, <1>6, <1>8, RebuiltLits
<1> HIDE DEF lits
<1>10. leftover = t - a
  BY <1>9, SumLitIs
<1> HIDE DEF leftover
<1>11. block \in BlockType /\ NoPiece \in PieceType
  BY <1>3, NoPieceType DEF TypeOK
\* What every end of a piece leaves in order.
<1>12. ASSUME block' \in BlockType, block'.from = f, block'.to = b, block'.hint = block.hint,
              hits' \in SUBSET HitType, pos' \in Nat, pc' \in {"found", "piece"},
              CoverOK', FoundOK'
       PROVE  IInv'
  <2>1. TypeOK'
    BY <1>1, <1>3, <1>11, <1>12 DEF TypeOK, AllPcs
  <2>2. FrameOK'
    BY <1>1, <1>3 DEF FrameOK
  <2>3. BlockOK'
    <3>1. /\ block.to = off /\ block.from <= off /\ PayloadAt <= block.from
          /\ \A k \in 1..3 : Fits(block.hint[k])
      BY <1>1 DEF IInv, BlockOK
    <3> QED BY <1>1, <1>4, <1>7, <1>12, <3>1 DEF BlockOK, Fits
  <2>4. PieceOK' /\ SearchOK' /\ RowsOK' /\ OptimalOK'
    BY <1>12 DEF PieceOK, SearchOK, RowsOK, OptimalOK, PiecePcs, SearchPcs
  <2> QED BY <1>12, <2>1, <2>2, <2>3, <2>4 DEF IInv
<1>13. CASE /\ hits = {} /\ pc' = "found" /\ UNCHANGED <<hits, pos>>
            /\ block' = [block EXCEPT !.seqs = @ \o piece.seqs \o <<>>, !.lits = @ \o lits]
  <2> DEFINE s == (block.seqs \o piece.seqs) \o <<>>
             l == block.lits \o lits
  <2>1. Rebuilt(World, block.seqs \o piece.seqs, l, f, a, b)
    <3>1. t = b
      BY <1>6, <1>13
    <3> QED BY <1>5, <1>9, <3>1, RebuiltJoin
  <2>2. s = block.seqs \o piece.seqs
    <3>1. block.seqs \o piece.seqs \in Seq(Sequence)
      BY <2>1 DEF Rebuilt
    <3> QED BY <3>1, ConcatEmptySeq
  <2>3. Rebuilt(World, s, l, f, a, b)
    BY <2>1, <2>2
  <2>4. s \in Seq(Sequence) /\ l \in Seq(Nat)
    BY <2>3 DEF Rebuilt
  <2>5. block' = [block EXCEPT !.seqs = s, !.lits = l]
    BY <1>13
  <2> HIDE DEF s, l
  <2>6. /\ block' \in BlockType /\ block'.from = f /\ block'.to = b /\ block'.hint = block.hint
        /\ block'.seqs = s /\ block'.lits = l
    BY <1>4, <1>11, <2>4, <2>5 DEF BlockType
  <2>7. FoundOK'
    BY <1>4, <1>7, <2>3, <2>6 DEF FoundOK
  <2>8. CoverOK'
    BY <1>13 DEF CoverOK, PiecePcs, SearchPcs
  <2>9. hits' \in SUBSET HitType /\ pos' \in Nat
    BY <1>3, <1>13 DEF TypeOK
  <2> QED BY <1>12, <1>13, <2>6, <2>7, <2>8, <2>9
<1>14. ASSUME NEW hit \in hits, hit.ip = piece.to,
              block' = [block EXCEPT !.seqs = @ \o piece.seqs \o
                                       <<[lit |-> leftover, len |-> hit.len, off |-> hit.off]>>,
                                     !.lits = @ \o lits],
              pos' = Lower(hit.ip + hit.len, block.to),
              hits' = {h \in hits : h.ip >= pos' /\ h.ip < block.to}, pc' = "piece"
       PROVE  IInv'
  <2>1. PICK n \in Nat, o \in Nat \ {0} : n = hit.len /\ o = hit.off
    BY <1>3 DEF TypeOK, HitType
  <2>2. t + n <= b /\ CanCopy(World, t, n, o)
    BY <1>4, <1>5, <1>14, <2>1 DEF HitOK
  <2>3. pos' = t + n
    BY <1>4, <1>14, <2>1, <2>2 DEF Lower
  <2> DEFINE x == [lit |-> leftover, len |-> n, off |-> o]
             s2 == Append(piece.seqs, x)
             s == (block.seqs \o piece.seqs) \o <<x>>
             l == block.lits \o lits
  <2>4. Rebuilt(World, s2, lits, p, t + n, t + n)
    BY <1>9, <1>10, <2>2, RebuiltSeq
  <2>5. s2 \in Seq(Sequence) /\ piece.seqs \in Seq(Sequence) /\ block.seqs \in Seq(Sequence)
    BY <1>3, <2>4, PieceIs DEF Rebuilt
  <2>6. x \in Sequence
    <3>1. leftover \in Nat
      BY <1>4, <1>6, <1>10
    <3> QED BY <2>1, <3>1 DEF Sequence
  <2>7. s = block.seqs \o s2
    <3> HIDE DEF x
    <3>1. s2 = piece.seqs \o <<x>>
      BY <2>5, <2>6
    <3>2. <<x>> \in Seq(Sequence)
      BY <2>6
    <3>3. \A u, v, y \in Seq(Sequence) : (u \o v) \o y = u \o (v \o y)
      BY ConcatAssociative
    <3> HIDE DEF s2
    <3> QED BY <2>5, <3>1, <3>2, <3>3
  <2> HIDE DEF s2
  <2>8. Rebuilt(World, block.seqs \o s2, l, f, t + n, t + n)
    BY <1>5, <2>4, RebuiltJoin
  <2>9. Rebuilt(World, s, l, f, t + n, t + n)
    BY <2>7, <2>8
  <2>10. s \in Seq(Sequence) /\ l \in Seq(Nat)
    BY <2>9 DEF Rebuilt
  <2>11. block' = [block EXCEPT !.seqs = s, !.lits = l]
    BY <1>14, <2>1
  <2> HIDE DEF s, l, x
  <2>12. /\ block' \in BlockType /\ block'.from = f /\ block'.to = b /\ block'.hint = block.hint
         /\ block'.seqs = s /\ block'.lits = l
    BY <1>4, <1>11, <2>10, <2>11 DEF BlockType
  <2>13. PICK q \in Nat : q = pos' /\ f <= q /\ q <= b
    BY <1>4, <1>5, <1>6, <2>1, <2>2, <2>3
  <2>14. hits' \in SUBSET HitType /\ \A h \in hits' : HitOK(h, q)'
    <3>1. hits' \subseteq hits
      BY <1>14
    <3>2. ASSUME NEW h \in hits' PROVE HitOK(h, q)'
      <4>1. h.ip >= pos' /\ HitOK(h, p)
        BY <1>5, <1>14, <3>1
      <4>2. h.ip \in Nat
        BY <1>3, <3>1 DEF TypeOK, HitType
      <4>3. q <= h.ip
        BY <2>13, <4>1, <4>2
      <4> QED BY <1>4, <1>7, <2>12, <4>1, <4>3 DEF HitOK
    <3> QED BY <1>3, <3>1, <3>2 DEF TypeOK
  <2>15. CoverOK'
    <3>1. Covered' = q
      BY <1>14, <2>13 DEF Covered
    <3>2. Rebuilt(World, block.seqs, block.lits, block.from, Covered, Covered)'
      BY <1>7, <2>3, <2>9, <2>12, <2>13, <3>1
    <3>3. \A h \in hits' : HitOK(h, Covered)'
      BY <2>14, <3>1
    <3> QED BY <2>12, <2>13, <3>2, <3>3 DEF CoverOK
  <2>16. FoundOK'
    BY <1>14 DEF FoundOK
  <2> QED BY <1>12, <1>14, <2>12, <2>13, <2>14, <2>15, <2>16
<1> QED BY <1>2, <1>13, <1>14

\* A stream that slides keeps the sum of what it dropped and where it stands.
LEMMA EndBlockStep ==
  ASSUME IInv, EndBlock
  PROVE  IInv'
<1>1. /\ pc \in {"found", "skipped"} /\ reps' \in {reps, RepsAfter(block.seqs)} /\ pc' = "block"
      /\ block' = NoBlock /\ UNCHANGED <<call, data, hits, pos, piece>>
      /\ \/ call.stream /\ off >= SlideAt /\ dropped' = dropped + off - Window /\ off' = Window
         \/ UNCHANGED <<dropped, off>>
  BY DEF EndBlock
<1>2. TypeOK /\ FrameOK
  BY DEF IInv
<1>3. PICK dr \in Nat, o \in Nat, w \in Nat, h \in Nat, mx \in Nat, sl \in Nat :
        /\ dr = dropped /\ o = off /\ w = Window /\ h = Len(call.history) /\ mx = Len(data)
        /\ sl = SlideAt /\ 2 * w <= sl
  <2>1. Len(call.history) \in Nat /\ Len(data) \in Nat
    BY <1>2, HistoryIs, WorldIs DEF TypeOK
  <2> QED BY <1>2, <2>1, Numbers DEF TypeOK
<1>4. dr + o <= mx /\ h <= dr + o /\ (call.prime_only => dr <= h)
  BY <1>2, <1>3 DEF FrameOK
<1>5. /\ dropped' \in Nat /\ off' \in Nat /\ dropped' + off' = dr + o
      /\ (call.prime_only => dropped' = dr)
  <2>1. CASE call.stream /\ off >= SlideAt /\ dropped' = dropped + off - Window /\ off' = Window
    <3>1. o >= 2 * w
      BY <1>3, <2>1
    <3>2. dropped' = dr + (o - w) /\ off' = w /\ o - w \in Nat
      BY <1>3, <2>1, <3>1
    <3>3. ~call.prime_only
      BY <1>2, <2>1, HistoryIs DEF TypeOK
    <3> QED BY <1>3, <3>2, <3>3
  <2>2. CASE UNCHANGED <<dropped, off>>
    BY <1>3, <2>2
  <2> QED BY <1>1, <2>1, <2>2
<1>6. reps' \in RepsType
  <2>1. block.seqs \in Seq(Sequence) /\ reps \in RepsType
    BY <1>2, PieceIs DEF TypeOK
  <2> QED BY <1>1, <2>1, RepsAfterType
<1>7. TypeOK'
  BY <1>1, <1>2, <1>5, <1>6, NoBlockType DEF TypeOK, AllPcs
<1>8. FrameOK'
  BY <1>1, <1>3, <1>4, <1>5 DEF FrameOK
<1>9. /\ BlockOK' /\ CoverOK' /\ PieceOK' /\ SearchOK' /\ RowsOK' /\ OptimalOK' /\ FoundOK'
  BY <1>1 DEF BlockOK, CoverOK, PieceOK, SearchOK, RowsOK, OptimalOK, FoundOK, PiecePcs, SearchPcs
<1> QED BY <1>7, <1>8, <1>9 DEF IInv

\* Nothing happens.
LEMMA StandStill ==
  ASSUME IInv, UNCHANGED searchVars
  PROVE  IInv'
<1>1. /\ UNCHANGED <<call, data, dropped, off, reps, pc, block, hits, pos, piece>>
  BY DEF searchVars
<1>2. World' = World /\ FrameStart' = FrameStart /\ PayloadAt' = PayloadAt
  BY <1>1, WorldStays
<1>3. TypeOK' /\ FrameOK'
  BY <1>1 DEF IInv, TypeOK, FrameOK
<1>4. \A r : Fits(r)' = Fits(r)
  BY <1>1, <1>2 DEF Fits
<1>5. BlockOK'
  BY <1>1, <1>2, <1>4 DEF IInv, BlockOK
<1>6. \A h, x : HitOK(h, x)' = HitOK(h, x)
  BY <1>1, <1>2 DEF HitOK
<1>7. Covered' = Covered
  BY <1>1 DEF Covered
<1>8. CoverOK'
  BY <1>1, <1>2, <1>6, <1>7 DEF IInv, CoverOK
<1>9. PieceOK'
  BY <1>1, <1>2 DEF IInv, PieceOK
<1>10. SearchOK'
  BY <1>1, <1>2, <1>4 DEF IInv, SearchOK
<1>11. RowsOK'
  <2>1. \A r, x : RowRepOK(r, x)' = RowRepOK(r, x)
    BY <1>1 DEF RowRepOK
  <2>2. PickOK(piece.pick)' = PickOK(piece.pick)
    BY <1>1, <1>2 DEF PickOK
  <2> QED BY <1>1, <2>1, <2>2 DEF IInv, RowsOK
<1>12. OptimalOK'
  <2>1. \A e : EdgeOK(e)' = EdgeOK(e)
    BY <1>1, <1>2 DEF EdgeOK
  <2>2. \A x : WayOK(x)' = WayOK(x)
    BY <1>1, <2>1 DEF WayOK
  <2> QED BY <1>1, <2>1, <2>2 DEF IInv, OptimalOK
<1>13. FoundOK'
  BY <1>1, <1>2 DEF IInv, FoundOK
<1> QED BY <1>3, <1>5, <1>8, <1>9, <1>10, <1>11, <1>12, <1>13 DEF IInv

-----------------------------------------------------------------------------
(* The invariant, and what it says of a block that is found. *)

\* The beginning of a call.
LEMMA InitIInv == Init => IInv
<1> SUFFICES ASSUME Init PROVE IInv
  OBVIOUS
<1>1. call \in Settings /\ off = PayloadAt /\ reps = call.reps
  BY DEF Init
<1>2. pc = "block" /\ block = NoBlock /\ hits = {} /\ pos = 0 /\ piece = NoPiece
  BY DEF Init
<1>3. PICK p \in Payloads : data = call.history \o p
  BY DEF Init
<1>4. /\ call.history \in Seq(Nat) /\ Len(call.history) \in Nat /\ call.reps \in RepsType
      /\ p \in Seq(Nat) /\ Len(p) \in Nat
  BY <1>1, HistoryIs, InputAssumption
<1>5. data \in Seq(Nat) /\ Len(data) = Len(call.history) + Len(p)
  BY <1>3, <1>4
<1>6. PICK h \in Nat, n \in Nat : h = Len(call.history) /\ n = Len(p)
  BY <1>4
<1>7. dropped \in Nat /\ dropped <= h
  <2>1. dropped = IF call.stream THEN 0 ELSE Above(Len(call.history), Window + BlockMax)
    BY DEF Init
  <2>2. PICK r \in Nat : r = Window + BlockMax
    BY Numbers
  <2> QED BY <1>6, <2>1, <2>2 DEF Above
<1>8. off \in Nat /\ dropped + off = h
  BY <1>1, <1>6, <1>7 DEF PayloadAt
<1>9. TypeOK
  BY <1>1, <1>2, <1>4, <1>5, <1>7, <1>8, NoBlockType, NoPieceType DEF TypeOK, AllPcs
<1>10. FrameOK
  BY <1>5, <1>6, <1>7, <1>8 DEF FrameOK
<1>11. /\ BlockOK /\ CoverOK /\ PieceOK /\ SearchOK /\ RowsOK /\ OptimalOK /\ FoundOK
  BY <1>2 DEF BlockOK, CoverOK, PieceOK, SearchOK, RowsOK, OptimalOK, FoundOK, PiecePcs, SearchPcs
<1> QED BY <1>9, <1>10, <1>11 DEF IInv

\* Every action.
LEMMA NextIInv == IInv /\ [Next]_searchVars => IInv'
<1> SUFFICES ASSUME IInv, [Next]_searchVars PROVE IInv'
  OBVIOUS
<1>1. CASE SkipSearch    BY <1>1, SkipSearchStep
<1>2. CASE Search        BY <1>2, SearchStep
<1>3. CASE Collect       BY <1>3, CollectStep
<1>4. CASE StartPiece    BY <1>4, StartPieceStep
<1>5. CASE RepMatch      BY <1>5, RepMatchStep
<1>6. CASE SearchGreedy  BY <1>6, SearchGreedyStep
<1>7. CASE SearchLazy    BY <1>7, SearchLazyStep
<1>8. CASE SearchDouble  BY <1>8, SearchDoubleStep
<1>9. CASE SearchFast    BY <1>9, SearchFastStep
<1>10. CASE SearchRows   BY <1>10, SearchRowsStep
<1>11. CASE LookAhead    BY <1>11, LookAheadStep
<1>12. CASE TakePick     BY <1>12, TakePickStep
<1>13. CASE RepAgain     BY <1>13, RepAgainStep
<1>14. CASE SearchTree   BY <1>14, SearchTreeStep
<1>15. CASE SearchOptimal BY <1>15, SearchOptimalStep
<1>16. CASE TurnBack     BY <1>16, TurnBackStep
<1>17. CASE StepBack     BY <1>17, StepBackStep
<1>18. CASE TakeWay      BY <1>18, TakeWayStep
<1>19. CASE SearchOver   BY <1>19, SearchOverStep
<1>20. CASE JoinPiece    BY <1>20, JoinPieceStep
<1>21. CASE EndBlock     BY <1>21, EndBlockStep
<1>22. CASE Done         BY <1>22, StandStill DEF Done
<1>23. CASE UNCHANGED searchVars BY <1>23, StandStill
<1> QED BY <1>1, <1>2, <1>3, <1>4, <1>5, <1>6, <1>7, <1>8, <1>9, <1>10, <1>11, <1>12, <1>13,
           <1>14, <1>15, <1>16, <1>17, <1>18, <1>19, <1>20, <1>21, <1>22, <1>23 DEF Next

\* Between two steps of any search, by any finder, what is found so far gives back the
\* bytes it stands for, and what is in hand may be sent to the decoder from where it would
\* be used.
THEOREM SearchInvariant == Spec => []IInv
BY InitIInv, NextIInv, PTL DEF Spec

\* A block whose search is over is all rebuilt.
LEMMA FoundRebuilds == IInv => SequencesRebuild
<1> SUFFICES ASSUME IInv, pc = "found"
             PROVE  LET hidden == IF call.prime_only THEN Len(call.history) ELSE 0
                        before == Len(call.history) - hidden
                        start == [out |-> SubSeq(data, hidden + 1, dropped + block.from),
                                  lits |-> block.lits, ok |-> TRUE]
                        d == ExecuteAll(block.seqs, start, before)
                    IN d.ok /\ d.out \o d.lits = SubSeq(data, hidden + 1, dropped + block.to)
  BY DEF SequencesRebuild
<1>1. TypeOK /\ FrameOK
  BY DEF IInv
<1>2. PICK mid \in Nat : Rebuilt(World, block.seqs, block.lits, block.from, mid, block.to)
  BY DEF IInv, FoundOK
<1>3. /\ WorldOK(World) /\ World.data = data /\ World.dropped = dropped
      /\ World.start = FrameStart /\ World.content = PayloadAt
  BY <1>1, WorldIs
<1>4. PICK h \in Nat, dr \in Nat, f \in Nat, t \in Nat, mx \in Nat :
        /\ h = Len(call.history) /\ dr = dropped /\ f = block.from /\ t = block.to /\ mx = Len(data)
  <2>1. Len(call.history) \in Nat /\ Len(data) \in Nat
    BY <1>1, HistoryIs, WorldIs DEF TypeOK
  <2> QED BY <1>1, <2>1, PieceIs DEF TypeOK
<1> DEFINE hidden == IF call.prime_only THEN Len(call.history) ELSE 0
           before == Len(call.history) - hidden
<1>5. hidden \in Nat /\ before \in Int
  BY <1>4
<1>6. PICK c \in Int, s \in Int : /\ c = PayloadAt /\ c = h - dr /\ s = FrameStart
                                  /\ s = IF call.prime_only THEN h - dr ELSE 0
  <2>1. PayloadAt = h - dr /\ h - dr \in Int
    BY <1>4 DEF PayloadAt
  <2>2. FrameStart = IF call.prime_only THEN h - dr ELSE 0
    BY <2>1 DEF FrameStart
  <2>3. FrameStart \in Int
    BY <2>1, <2>2
  <2> QED BY <2>1, <2>2, <2>3
<1>7. c <= f /\ dr + t <= mx
  <2>1. PayloadAt <= block.from /\ block.to = off /\ dropped + off <= Len(data)
    BY <1>1 DEF IInv, BlockOK, FrameOK
  <2> QED BY <1>4, <1>6, <2>1
<1>8. Sees(World, hidden, before, f, t)
  <2>1. hidden <= dr + s /\ hidden + before = dr + c
    BY <1>4, <1>6
  <2>2. hidden <= dr + f
    BY <1>4, <1>6, <1>7
  <2> QED BY <1>3, <1>4, <1>6, <1>7, <2>1, <2>2 DEF Sees
<1>9. block.seqs \in Seq(Sequence) /\ block.lits \in Seq(Nat)
  BY <1>1, PieceIs
<1> HIDE DEF hidden, before
<1>10. Yields(World, block.seqs, block.lits, hidden, before, f, t)
  <2>1. Rebuilt(World, block.seqs, block.lits, f, mid, t)
    BY <1>2, <1>4
  <2>2. /\ f \in Nat /\ mid \in Nat /\ t \in Nat /\ hidden \in Nat /\ before \in Int
        /\ WorldOK(World)
    BY <1>3, <1>4, <1>5
  <2> QED BY ONLY <1>8, <1>9, <2>1, <2>2, ExecuteAllIs
<1> QED BY <1>3, <1>4, <1>10 DEF Yields, hidden, before

\* Whatever the content, the history, the tables and the finder: the sequences and literals
\* of a block, executed by a decoder that checks as copy_match does, give the block back.
THEOREM SequencesRebuildHolds == Spec => []SequencesRebuild
BY SearchInvariant, FoundRebuilds, PTL

-----------------------------------------------------------------------------
(***************************************************************************)
(* rsync_sections under an edit: for any source, edit, places the rolling  *)
(* hash hits and job size, two cuttings that have met beyond the edit stay *)
(* together, in both directions.                                           *)
(*                                                                         *)
(* The inductive invariant says of each cutting that it is a chain: each   *)
(* end but the last is followed by the end of the section it begins, with  *)
(* none between.  Beyond the edit a section of the one source is a section *)
(* of the other, moved, so two chains with a common link stay together.    *)
(***************************************************************************)

Sides == {"old", "new"}

\* Where the section of source s ends that begins at x.
Then(s, x) == SectionEnd(sync_hits[s], Length[s], x, max_len)

Typed ==
  /\ max_len \in Nat \ {0} /\ edit \in Edits
  /\ \A s \in Sides : sync_hits[s] \subseteq Nat
  /\ \A q \in Nat : q >= edit.at + edit.put + RsyncLength =>
       (q \in sync_hits["new"] <=> q - Shift \in sync_hits["old"])
  /\ DOMAIN ends = Sides
  /\ \A s \in Sides : ends[s] \in Seq(Nat)

Chain(s) ==
  /\ SectionStart(s) \in Nat /\ SectionStart(s) <= Length[s]
  /\ Ends(s) # {} => SectionStart(s) \in Ends(s)
  /\ \A e \in Ends(s) : e \in Nat /\ e <= SectionStart(s)
  /\ \A e \in Ends(s) : e < SectionStart(s) => Then(s, e) \in Ends(s)
  /\ \A e, f \in Ends(s) : e < f => Then(s, e) <= f

\* The same with the parts of the sources exchanged.
StayTogetherBack ==
  \A p \in Ends("old") : Beyond(p) /\ p + Shift \in Ends("new") =>
    \A x \in Ends("new") : p + Shift <= x /\ x - Shift < SectionStart("old") => x - Shift \in Ends("old")

EditInv == Typed /\ Chain("old") /\ Chain("new") /\ StayTogether /\ StayTogetherBack

-----------------------------------------------------------------------------
(* Sections. *)

LEMMA LeastIn ==
  ASSUME NEW T \in SUBSET Nat, T # {}
  PROVE  \E x \in T : \A y \in T : x <= y
<1>1. \E R : IsWellFoundedOn(R, Nat) /\ \A x, y \in Nat : <<y, x>> \in R <=> y < x
  <2> DEFINE R == OpToRel(<, Nat)
  <2>1. IsWellFoundedOn(R, Nat)
    BY NatLessThanWellFounded
  <2>2. \A x, y \in Nat : <<y, x>> \in R <=> y < x
    BY DEF OpToRel
  <2> HIDE DEF R
  <2> QED BY <2>1, <2>2, Zenon
<1>2. PICK R : IsWellFoundedOn(R, Nat) /\ \A x, y \in Nat : <<y, x>> \in R <=> y < x
  BY <1>1, Zenon
<1>3. \E x \in T : \A y \in T : ~(<<y, x>> \in R)
  BY <1>2, WFMin, Zenon
<1>4. ASSUME NEW x \in T, NEW y \in T, ~(<<y, x>> \in R)
      PROVE  x <= y
  <2>1. ~(y < x)
    BY <1>4, <1>2
  <2> QED BY <2>1
<1> QED BY <1>3, <1>4, Zenon

\* Where the section that begins at start is full, and its sync points.
Cap(len, start, max) == Least(start + Greatest(max, RsyncMin), len)
Sync(syncs, len, start, max) == SyncPoints(syncs, start + RsyncMin - 1, Cap(len, start, max))

\* A section ends at its first sync point, if it has one, and else when it is full.
LEMMA SectionEndIs ==
  ASSUME NEW syncs \in SUBSET Nat, NEW len \in Nat, NEW start \in Nat, NEW max \in Nat
  PROVE  /\ Sync(syncs, len, start, max) = {} =>
              SectionEnd(syncs, len, start, max) = Cap(len, start, max)
         /\ Sync(syncs, len, start, max) # {} =>
              /\ SectionEnd(syncs, len, start, max) \in Sync(syncs, len, start, max)
              /\ \A q \in Sync(syncs, len, start, max) : SectionEnd(syncs, len, start, max) <= q
<1>1. SectionEnd(syncs, len, start, max)
        = IF Sync(syncs, len, start, max) = {} THEN Cap(len, start, max)
          ELSE CHOOSE q \in Sync(syncs, len, start, max) :
                 \A r \in Sync(syncs, len, start, max) : q <= r
  BY Zenon DEF SectionEnd, Sync, Cap
<1>2. PICK sync \in SUBSET Nat : sync = Sync(syncs, len, start, max)
  BY DEF Sync, SyncPoints
<1>3. CASE sync = {}
  BY <1>1, <1>2, <1>3
<1>4. CASE sync # {}
  <2>1. \E q \in sync : \A r \in sync : q <= r
    BY <1>4, LeastIn
  <2> QED BY <1>1, <1>2, <1>4, <2>1
<1> QED BY <1>3, <1>4

LEMMA SyncIs ==
  ASSUME NEW syncs \in SUBSET Nat, NEW len \in Nat, NEW start \in Nat, NEW max \in Nat
  PROVE  /\ Cap(len, start, max) \in Nat /\ Cap(len, start, max) <= len
         /\ start < len => start < Cap(len, start, max)
         /\ Sync(syncs, len, start, max) \in SUBSET Nat
         /\ \A q \in Nat : q \in Sync(syncs, len, start, max) <=>
              q \in syncs /\ start + RsyncMin <= q /\ q <= Cap(len, start, max)
<1>1. Cap(len, start, max) \in Nat /\ Cap(len, start, max) <= len
        /\ (start < len => start < Cap(len, start, max))
  BY SectionsAssumption DEF Cap, Least, Greatest
<1>2. PICK cap \in Nat : cap = Cap(len, start, max)
  BY <1>1
<1>3. Sync(syncs, len, start, max) = {q \in syncs : start + RsyncMin - 1 < q /\ q <= cap}
  BY <1>2 DEF Sync, SyncPoints
<1>4. \A q \in Nat : start + RsyncMin - 1 < q <=> start + RsyncMin <= q
  BY SectionsAssumption
<1> QED BY <1>1, <1>2, <1>3, <1>4

LEMMA SectionGrows ==
  ASSUME NEW syncs \in SUBSET Nat, NEW len \in Nat, NEW start \in Nat, NEW max \in Nat,
         start < len
  PROVE  /\ SectionEnd(syncs, len, start, max) \in Nat
         /\ start < SectionEnd(syncs, len, start, max)
         /\ SectionEnd(syncs, len, start, max) <= len
<1>1. PICK cap \in Nat : cap = Cap(len, start, max) /\ start < cap /\ cap <= len
  <2>1. /\ Cap(len, start, max) \in Nat /\ Cap(len, start, max) <= len
        /\ start < Cap(len, start, max)
    BY SyncIs
  <2> QED BY <2>1
<1>2. PICK sync \in SUBSET Nat :
        /\ sync = Sync(syncs, len, start, max)
        /\ \A q \in Nat : q \in sync <=> q \in syncs /\ start + RsyncMin <= q /\ q <= cap
  BY <1>1, SyncIs
<1>3. PICK end : end = SectionEnd(syncs, len, start, max)
  OBVIOUS
<1>4. /\ sync = {} => end = cap
      /\ sync # {} => end \in sync
  BY <1>1, <1>2, <1>3, SectionEndIs
<1>5. end \in Nat /\ start < end /\ end <= len
  BY <1>1, <1>2, <1>4, SectionsAssumption
<1> QED BY <1>3, <1>5

\* Beyond the edit a section of the old source is one of the new source, moved.
LEMMA SectionMoves ==
  ASSUME NEW old \in SUBSET Nat, NEW new \in SUBSET Nat,
         NEW len \in Nat, NEW shift \in Int, len + shift \in Nat,
         NEW max \in Nat, NEW x \in Nat, x + shift \in Nat,
         \A q \in Nat : q >= x + shift => (q \in new <=> q - shift \in old)
  PROVE  SectionEnd(new, len + shift, x + shift, max) = SectionEnd(old, len, x, max) + shift
<1>1. PICK cap \in Nat : cap = Cap(len, x, max)
  BY SyncIs
<1>2. PICK capN \in Nat : capN = Cap(len + shift, x + shift, max)
  BY SyncIs
<1>3. capN = cap + shift
  BY <1>1, <1>2, SectionsAssumption DEF Cap, Least, Greatest
<1>4. PICK sync \in SUBSET Nat :
        /\ sync = Sync(old, len, x, max)
        /\ \A q \in Nat : q \in sync <=> q \in old /\ x + RsyncMin <= q /\ q <= cap
  BY <1>1, SyncIs
<1>5. PICK syncN \in SUBSET Nat :
        /\ syncN = Sync(new, len + shift, x + shift, max)
        /\ \A q \in Nat : q \in syncN <=> q \in new /\ (x + shift) + RsyncMin <= q /\ q <= capN
  BY <1>2, SyncIs
<1>6. PICK end : end = SectionEnd(old, len, x, max)
  OBVIOUS
<1>7. PICK endN : endN = SectionEnd(new, len + shift, x + shift, max)
  OBVIOUS
<1>8. /\ sync = {} => end = cap
      /\ sync # {} => end \in sync /\ \A q \in sync : end <= q
  BY <1>1, <1>4, <1>6, SectionEndIs
<1>9. /\ syncN = {} => endN = capN
      /\ syncN # {} => endN \in syncN /\ \A q \in syncN : endN <= q
  BY <1>2, <1>5, <1>7, SectionEndIs
<1>10. ASSUME NEW q \in syncN PROVE q - shift \in sync
  <2>1. q \in Nat /\ q \in new /\ (x + shift) + RsyncMin <= q /\ q <= capN
    BY <1>5
  <2>2. q - shift \in Nat /\ q >= x + shift /\ x + RsyncMin <= q - shift /\ q - shift <= cap
    BY <1>3, <2>1, SectionsAssumption
  <2>3. q - shift \in old
    BY <2>1, <2>2
  <2> QED BY <1>4, <2>2, <2>3
<1>11. ASSUME NEW q \in sync PROVE q + shift \in syncN
  <2>1. q \in Nat /\ q \in old /\ x + RsyncMin <= q /\ q <= cap
    BY <1>4
  <2>2. /\ q + shift \in Nat /\ q + shift >= x + shift /\ (q + shift) - shift = q
        /\ (x + shift) + RsyncMin <= q + shift /\ q + shift <= capN
    BY <1>3, <2>1, SectionsAssumption
  <2>3. q + shift \in new
    BY <2>1, <2>2
  <2> QED BY <1>5, <2>2, <2>3
<1>12. CASE sync = {}
  BY <1>3, <1>6, <1>7, <1>8, <1>9, <1>10, <1>12
<1>13. CASE sync # {}
  <2>1. syncN # {}
    BY <1>11, <1>13
  <2>2. end \in Nat /\ endN \in Nat
    BY <1>8, <1>9, <1>13, <2>1
  <2>3. endN <= end + shift
    BY <1>8, <1>9, <1>11, <1>13, <2>1
  <2>4. end <= endN - shift
    BY <1>8, <1>9, <1>10, <1>13, <2>1
  <2> QED BY <2>2, <2>3, <2>4, <1>6, <1>7
<1> QED BY <1>12, <1>13

-----------------------------------------------------------------------------
(* Chains. *)

LEMMA EditIs ==
  ASSUME Typed
  PROVE  /\ edit.at \in Nat /\ edit.cut \in Nat /\ edit.put \in Nat /\ max_len \in Nat
         /\ Shift \in Int /\ Shift = edit.put - edit.cut
         /\ Length["old"] \in Nat /\ Length["new"] \in Nat
         /\ Length["new"] = Length["old"] + Shift
<1>1. edit \in [at : Nat, cut : Nat, put : Nat] /\ edit.at + edit.cut <= Len0 /\ Len0 \in Nat
  BY EditAssumption DEF Typed
<1>2. Length["old"] = Len0 /\ Length["new"] = Len1
  BY DEF Length
<1> QED BY <1>1, <1>2 DEF Typed, Shift, Len1

\* A section of the old source that begins beyond the edit is one of the new.
LEMMA ThenMoves ==
  ASSUME Typed, NEW x \in Nat, Beyond(x)
  PROVE  x + Shift \in Nat /\ Then("new", x + Shift) = Then("old", x) + Shift
<1>1. /\ edit.at \in Nat /\ edit.cut \in Nat /\ edit.put \in Nat /\ max_len \in Nat
      /\ Shift \in Int /\ Shift = edit.put - edit.cut
      /\ Length["old"] \in Nat /\ Length["new"] \in Nat
      /\ Length["new"] = Length["old"] + Shift
  BY EditIs
<1>2. x >= edit.at + edit.cut + RsyncLength /\ RsyncLength \in Nat
  BY EditAssumption DEF Beyond
<1>3. x + Shift \in Nat /\ x + Shift >= edit.at + edit.put + RsyncLength
  BY <1>1, <1>2
<1>4. \A q \in Nat : q >= x + Shift => (q \in sync_hits["new"] <=> q - Shift \in sync_hits["old"])
  <2>1. ASSUME NEW q \in Nat, q >= x + Shift
        PROVE  q >= edit.at + edit.put + RsyncLength
    BY <1>1, <1>2, <1>3, <2>1
  <2> QED BY <2>1 DEF Typed
<1>5. sync_hits["old"] \in SUBSET Nat /\ sync_hits["new"] \in SUBSET Nat
  BY DEF Typed, Sides
<1>6. PICK shift \in Int : shift = Shift
  BY <1>1
<1>7. PICK len \in Nat : len = Length["old"]
  BY <1>1
<1>8. SectionEnd(sync_hits["new"], len + shift, x + shift, max_len)
        = SectionEnd(sync_hits["old"], len, x, max_len) + shift
  BY <1>1, <1>3, <1>4, <1>5, <1>6, <1>7, SectionMoves
<1> QED BY <1>1, <1>3, <1>6, <1>7, <1>8 DEF Then

LEMMA LastEnd ==
  ASSUME NEW q \in Seq(Nat), q # <<>>
  PROVE  q[Len(q)] \in {q[i] : i \in 1..Len(q)}
<1>1. Len(q) \in 1..Len(q)
  BY EmptySeq, LenProperties
<1> QED BY <1>1

\* What one turn of a loop does to the ends of its source, as a set.
LEMMA CutAdds ==
  ASSUME Typed, NEW s \in Sides, Chain(s), Cut(s)
  PROVE  /\ UNCHANGED <<max_len, edit, sync_hits>>
         /\ \A t \in Sides : t # s => ends'[t] = ends[t]
         /\ DOMAIN ends' = Sides
         /\ ends'[s] \in Seq(Nat)
         /\ Then(s, SectionStart(s)) \in Nat
         /\ SectionStart(s) < Then(s, SectionStart(s))
         /\ Then(s, SectionStart(s)) <= Length[s]
         /\ Ends(s)' = Ends(s) \cup {Then(s, SectionStart(s))}
         /\ SectionStart(s)' = Then(s, SectionStart(s))
<1>1. /\ SectionStart(s) < Length[s]
      /\ ends' = [ends EXCEPT ![s] = Append(ends[s], Then(s, SectionStart(s)))]
      /\ UNCHANGED <<max_len, edit, sync_hits>>
  BY DEF Cut, Then
<1>2. PICK n : n = Then(s, SectionStart(s))
  OBVIOUS
<1>3. PICK q \in Seq(Nat) : q = ends[s]
  BY DEF Typed
<1>4. n \in Nat /\ SectionStart(s) < n /\ n <= Length[s]
  <2>1. SectionStart(s) \in Nat /\ sync_hits[s] \in SUBSET Nat
    BY DEF Typed, Chain
  <2>2. Length[s] \in Nat /\ max_len \in Nat
    BY EditIs DEF Sides
  <2> QED BY <1>1, <1>2, <2>1, <2>2, SectionGrows DEF Then
<1>5. DOMAIN ends' = Sides /\ ends'[s] = Append(q, n)
        /\ \A t \in Sides : t # s => ends'[t] = ends[t]
  BY <1>1, <1>2, <1>3 DEF Typed
<1>6. PICK r : r = Append(q, n)
  OBVIOUS
<1>7. /\ r \in Seq(Nat) /\ r # <<>> /\ Len(r) = Len(q) + 1
      /\ \A i \in 1..Len(q) : r[i] = q[i]
      /\ r[Len(q) + 1] = n
  BY <1>4, <1>6, AppendProperties
<1>8. Len(q) \in Nat
  BY LenProperties
<1>9. {r[i] : i \in 1..Len(r)} = {q[i] : i \in 1..Len(q)} \cup {n}
  <2>1. \A i \in 1..Len(r) : i \in 1..Len(q) \/ i = Len(q) + 1
    BY <1>7, <1>8
  <2>2. \A i \in 1..Len(q) : i \in 1..Len(r)
    BY <1>7, <1>8
  <2>3. Len(q) + 1 \in 1..Len(r)
    BY <1>7, <1>8
  <2> QED BY <1>7, <2>1, <2>2, <2>3
<1>10. Ends(s)' = Ends(s) \cup {n}
  BY <1>3, <1>5, <1>6, <1>9 DEF Ends
<1>11. SectionStart(s)' = n
  BY <1>5, <1>6, <1>7 DEF SectionStart
<1> QED BY <1>1, <1>2, <1>4, <1>5, <1>6, <1>7, <1>10, <1>11

LEMMA CutChain ==
  ASSUME Typed, NEW s \in Sides, Chain(s), Cut(s)
  PROVE  Chain(s)'
<1>1. PICK n \in Nat :
        /\ n = Then(s, SectionStart(s)) /\ SectionStart(s) < n /\ n <= Length[s]
        /\ Ends(s)' = Ends(s) \cup {n} /\ SectionStart(s)' = n
  BY CutAdds
<1>2. \A x : Then(s, x)' = Then(s, x)
  BY CutAdds DEF Then, Length, Len1
<1>3. Length[s]' = Length[s]
  BY CutAdds DEF Length, Len1
<1>4. /\ SectionStart(s) \in Nat
      /\ Ends(s) # {} => SectionStart(s) \in Ends(s)
      /\ \A e \in Ends(s) : e \in Nat /\ e <= SectionStart(s)
      /\ \A e \in Ends(s) : e < SectionStart(s) => Then(s, e) \in Ends(s)
      /\ \A e, f \in Ends(s) : e < f => Then(s, e) <= f
  BY DEF Chain
<1>5. \A e \in Ends(s)' : e \in Nat /\ e <= n
  BY <1>1, <1>4
<1>6. ASSUME NEW e \in Ends(s)', e < n PROVE Then(s, e) \in Ends(s)'
  <2>1. e \in Ends(s) /\ e \in Nat /\ e <= SectionStart(s)
    BY <1>1, <1>4, <1>6
  <2>2. e < SectionStart(s) \/ e = SectionStart(s)
    BY <1>4, <2>1
  <2> QED BY <1>1, <1>4, <2>1, <2>2
<1>7. ASSUME NEW e \in Ends(s)', NEW f \in Ends(s)', e < f PROVE Then(s, e) <= f
  <2>1. e \in Ends(s) /\ e \in Nat /\ e <= SectionStart(s)
    BY <1>1, <1>4, <1>5, <1>7
  <2>2. CASE f \in Ends(s)
    BY <1>4, <1>7, <2>1, <2>2
  <2>3. CASE f = n
    <3>1. CASE e = SectionStart(s)
      BY <1>1, <2>3, <3>1
    <3>2. CASE e < SectionStart(s)
      <4>1. SectionStart(s) \in Ends(s)
        BY <1>4, <2>1
      <4>2. Then(s, e) <= SectionStart(s) /\ Then(s, e) \in Nat
        BY <1>4, <2>1, <3>2, <4>1
      <4> QED BY <1>1, <1>4, <2>3, <4>2
    <3> QED BY <1>4, <2>1, <3>1, <3>2
  <2> QED BY <1>1, <1>7, <2>2, <2>3
<1> QED BY <1>1, <1>2, <1>3, <1>5, <1>6, <1>7 DEF Chain

\* The other source's chain is left alone.
LEMMA OtherChain ==
  ASSUME Typed, NEW s \in Sides, Chain(s), Cut(s), NEW t \in Sides, t # s, Chain(t)
  PROVE  Chain(t)' /\ Ends(t)' = Ends(t) /\ SectionStart(t)' = SectionStart(t)
<1>1. UNCHANGED <<max_len, edit, sync_hits>> /\ ends'[t] = ends[t]
  BY CutAdds
<1>2. Ends(t)' = Ends(t)
  BY <1>1 DEF Ends
<1>3. SectionStart(t)' = SectionStart(t)
  BY <1>1 DEF SectionStart
<1>4. \A x : Then(t, x)' = Then(t, x)
  BY <1>1 DEF Then, Length, Len1
<1>5. Length[t]' = Length[t]
  BY <1>1 DEF Length, Len1
<1> QED BY <1>2, <1>3, <1>4, <1>5 DEF Chain

LEMMA CutTyped ==
  ASSUME Typed, NEW s \in Sides, Chain(s), Cut(s)
  PROVE  Typed'
<1>1. /\ UNCHANGED <<max_len, edit, sync_hits>>
      /\ \A t \in Sides : t # s => ends'[t] = ends[t]
      /\ DOMAIN ends' = Sides /\ ends'[s] \in Seq(Nat)
  BY CutAdds
<1>2. Shift' = Shift
  BY <1>1 DEF Shift
<1>3. \A t \in Sides : ends'[t] \in Seq(Nat)
  BY <1>1 DEF Typed
<1> QED BY <1>1, <1>2, <1>3 DEF Typed

\* What Cut("old") and Cut("new") do: n is where the section ends that each adds.
LEMMA CutOld ==
  ASSUME Typed, Chain("old"), Chain("new"), Cut("old")
  PROVE  \E n \in Nat :
           /\ n = Then("old", SectionStart("old")) /\ SectionStart("old") < n
           /\ Ends("old")' = Ends("old") \cup {n} /\ SectionStart("old")' = n
           /\ Ends("new")' = Ends("new") /\ SectionStart("new")' = SectionStart("new")
           /\ Shift' = Shift /\ (\A x : Beyond(x)' <=> Beyond(x))
<1>1. PICK n \in Nat :
        /\ n = Then("old", SectionStart("old")) /\ SectionStart("old") < n
        /\ Ends("old")' = Ends("old") \cup {n} /\ SectionStart("old")' = n
        /\ edit' = edit
  BY CutAdds DEF Sides
<1>2. Ends("new")' = Ends("new") /\ SectionStart("new")' = SectionStart("new")
  BY OtherChain DEF Sides
<1>3. Shift' = Shift /\ (\A x : Beyond(x)' <=> Beyond(x))
  BY <1>1 DEF Shift, Beyond
<1> QED BY <1>1, <1>2, <1>3

LEMMA CutNew ==
  ASSUME Typed, Chain("old"), Chain("new"), Cut("new")
  PROVE  \E n \in Nat :
           /\ n = Then("new", SectionStart("new")) /\ SectionStart("new") < n
           /\ Ends("new")' = Ends("new") \cup {n} /\ SectionStart("new")' = n
           /\ Ends("old")' = Ends("old") /\ SectionStart("old")' = SectionStart("old")
           /\ Shift' = Shift /\ (\A x : Beyond(x)' <=> Beyond(x))
<1>1. PICK n \in Nat :
        /\ n = Then("new", SectionStart("new")) /\ SectionStart("new") < n
        /\ Ends("new")' = Ends("new") \cup {n} /\ SectionStart("new")' = n
        /\ edit' = edit
  BY CutAdds DEF Sides
<1>2. Ends("old")' = Ends("old") /\ SectionStart("old")' = SectionStart("old")
  BY OtherChain DEF Sides
<1>3. Shift' = Shift /\ (\A x : Beyond(x)' <=> Beyond(x))
  BY <1>1 DEF Shift, Beyond
<1> QED BY <1>1, <1>2, <1>3

\* What lies behind a place beyond the edit is beyond it too.
LEMMA BeyondUp ==
  ASSUME Typed, NEW p \in Nat, Beyond(p), NEW q \in Nat, p <= q
  PROVE  Beyond(q)
<1>1. p >= edit.at + edit.cut + RsyncLength /\ RsyncLength \in Nat
  BY EditAssumption DEF Beyond
<1> QED BY <1>1, EditIs DEF Beyond

LEMMA OldCutStays ==
  ASSUME Typed, Chain("old"), Chain("new"), StayTogether, Cut("old")
  PROVE  StayTogether'
<1>1. PICK n \in Nat :
        /\ n = Then("old", SectionStart("old")) /\ SectionStart("old") < n
        /\ Ends("old")' = Ends("old") \cup {n} /\ SectionStart("old")' = n
        /\ Ends("new")' = Ends("new") /\ SectionStart("new")' = SectionStart("new")
        /\ Shift' = Shift /\ (\A x : Beyond(x)' <=> Beyond(x))
  BY CutOld
<1> SUFFICES ASSUME NEW p \in Ends("old") \cup {n}, Beyond(p), p + Shift \in Ends("new"),
                    NEW q \in Ends("old") \cup {n}, p <= q, q + Shift < SectionStart("new")
             PROVE  q + Shift \in Ends("new")
  BY <1>1 DEF StayTogether
<1>2. /\ SectionStart("old") \in Nat /\ SectionStart("new") \in Nat /\ Shift \in Int
      /\ \A e \in Ends("old") : e \in Nat /\ e <= SectionStart("old")
      /\ Ends("old") # {} => SectionStart("old") \in Ends("old")
  BY EditIs DEF Chain
<1>3. CASE p = n
  BY <1>1, <1>2, <1>3
<1>4. CASE p \in Ends("old") /\ q \in Ends("old")
  BY <1>4 DEF StayTogether
<1>5. CASE p \in Ends("old") /\ q = n
  <2>1. PICK a \in Ends("old") : a = SectionStart("old") /\ a \in Nat /\ p \in Nat /\ p <= a
    BY <1>2, <1>5
  <2>2. a + Shift < SectionStart("new")
    BY <1>1, <1>2, <1>5, <2>1
  <2>3. a + Shift \in Ends("new")
    BY <1>5, <2>1, <2>2 DEF StayTogether
  <2>4. Then("new", a + Shift) \in Ends("new")
    BY <2>2, <2>3 DEF Chain
  <2>5. Beyond(a)
    BY <2>1, BeyondUp
  <2>6. Then("new", a + Shift) = Then("old", a) + Shift
    BY <2>1, <2>5, ThenMoves
  <2> QED BY <1>1, <1>5, <2>1, <2>4, <2>6
<1> QED BY <1>3, <1>4, <1>5

LEMMA NewCutStays ==
  ASSUME Typed, Chain("old"), Chain("new"), StayTogether, StayTogetherBack, Cut("new")
  PROVE  StayTogether'
<1>1. PICK n \in Nat :
        /\ n = Then("new", SectionStart("new")) /\ SectionStart("new") < n
        /\ Ends("new")' = Ends("new") \cup {n} /\ SectionStart("new")' = n
        /\ Ends("old")' = Ends("old") /\ SectionStart("old")' = SectionStart("old")
        /\ Shift' = Shift /\ (\A x : Beyond(x)' <=> Beyond(x))
  BY CutNew
<1> SUFFICES ASSUME NEW p \in Ends("old"), Beyond(p), p + Shift \in Ends("new") \cup {n},
                    NEW q \in Ends("old"), p <= q, q + Shift < n
             PROVE  q + Shift \in Ends("new") \cup {n}
  BY <1>1 DEF StayTogether
<1>2. /\ SectionStart("old") \in Nat /\ SectionStart("new") \in Nat /\ Shift \in Int
      /\ \A e \in Ends("old") : e \in Nat /\ e <= SectionStart("old")
      /\ \A e \in Ends("new") : e \in Nat /\ e <= SectionStart("new")
      /\ Ends("new") # {} => SectionStart("new") \in Ends("new")
  BY EditIs DEF Chain
<1>3. p \in Nat /\ q \in Nat
  BY <1>2
<1>4. p + Shift \in Ends("new")
  BY <1>1, <1>2, <1>3
<1>5. PICK b \in Ends("new") : b = SectionStart("new") /\ b \in Nat /\ p + Shift <= b
  BY <1>2, <1>4
<1>6. CASE q + Shift < b
  BY <1>4, <1>5, <1>6 DEF StayTogether
<1>7. CASE q + Shift = b
  BY <1>5, <1>7
<1>8. CASE b < q + Shift
  <2>1. PICK r \in Int : r = b - Shift
    BY <1>2, <1>5
  <2>2. r < q /\ p <= r /\ b = r + Shift
    BY <1>2, <1>3, <1>5, <1>8, <2>1
  <2>3. r < SectionStart("old")
    BY <1>2, <1>3, <2>2
  <2>4. r \in Ends("old")
    BY <1>4, <1>5, <2>1, <2>3 DEF StayTogetherBack
  <2>5. Then("old", r) <= q
    BY <2>2, <2>4 DEF Chain
  <2>6. r \in Nat /\ Beyond(r)
    BY <1>2, <1>3, <2>2, <2>4, BeyondUp
  <2>7. Then("old", r) \in Ends("old")
    BY <2>3, <2>4 DEF Chain
  <2>8. Then("new", b) = Then("old", r) + Shift
    BY <2>2, <2>6, ThenMoves
  <2>9. n <= q + Shift
    <3>1. PICK f \in Nat : f = Then("old", r)
      BY <1>2, <2>7
    <3>2. n = f + Shift /\ f <= q
      BY <1>1, <1>5, <2>5, <2>8, <3>1
    <3> QED BY <1>2, <1>3, <3>1, <3>2
  <2> QED BY <1>1, <1>2, <1>3, <2>9
<1> QED BY <1>2, <1>3, <1>5, <1>6, <1>7, <1>8

LEMMA OldCutStaysBack ==
  ASSUME Typed, Chain("old"), Chain("new"), StayTogether, StayTogetherBack, Cut("old")
  PROVE  StayTogetherBack'
<1>1. PICK n \in Nat :
        /\ n = Then("old", SectionStart("old")) /\ SectionStart("old") < n
        /\ Ends("old")' = Ends("old") \cup {n} /\ SectionStart("old")' = n
        /\ Ends("new")' = Ends("new") /\ SectionStart("new")' = SectionStart("new")
        /\ Shift' = Shift /\ (\A x : Beyond(x)' <=> Beyond(x))
  BY CutOld
<1> SUFFICES ASSUME NEW p \in Ends("old") \cup {n}, Beyond(p), p + Shift \in Ends("new"),
                    NEW x \in Ends("new"), p + Shift <= x, x - Shift < n
             PROVE  x - Shift \in Ends("old") \cup {n}
  BY <1>1 DEF StayTogetherBack
<1>2. /\ SectionStart("old") \in Nat /\ SectionStart("new") \in Nat /\ Shift \in Int
      /\ \A e \in Ends("old") : e \in Nat /\ e <= SectionStart("old")
      /\ \A e \in Ends("new") : e \in Nat /\ e <= SectionStart("new")
      /\ Ends("old") # {} => SectionStart("old") \in Ends("old")
  BY EditIs DEF Chain
<1>3. p \in Nat /\ x \in Nat
  BY <1>1, <1>2
<1>4. p \in Ends("old")
  BY <1>1, <1>2, <1>3
<1>5. PICK a \in Ends("old") : a = SectionStart("old") /\ a \in Nat /\ p <= a
  BY <1>2, <1>4
<1>6. CASE x - Shift < a
  BY <1>4, <1>5, <1>6 DEF StayTogetherBack
<1>7. CASE x - Shift = a
  BY <1>5, <1>7
<1>8. CASE a < x - Shift
  <2>1. a + Shift < x
    BY <1>2, <1>3, <1>5, <1>8
  <2>2. a + Shift < SectionStart("new")
    BY <1>2, <1>3, <1>5, <2>1
  <2>3. a + Shift \in Ends("new")
    BY <1>4, <1>5, <2>2 DEF StayTogether
  <2>4. Then("new", a + Shift) <= x
    BY <2>1, <2>3 DEF Chain
  <2>5. Beyond(a)
    BY <1>3, <1>5, BeyondUp
  <2>6. Then("new", a + Shift) = n + Shift
    BY <1>1, <1>5, <2>5, ThenMoves
  <2> QED BY <1>1, <1>2, <1>3, <2>4, <2>6
<1> QED BY <1>2, <1>3, <1>5, <1>6, <1>7, <1>8

LEMMA NewCutStaysBack ==
  ASSUME Typed, Chain("old"), Chain("new"), StayTogetherBack, Cut("new")
  PROVE  StayTogetherBack'
<1>1. PICK n \in Nat :
        /\ n = Then("new", SectionStart("new")) /\ SectionStart("new") < n
        /\ Ends("new")' = Ends("new") \cup {n} /\ SectionStart("new")' = n
        /\ Ends("old")' = Ends("old") /\ SectionStart("old")' = SectionStart("old")
        /\ Shift' = Shift /\ (\A x : Beyond(x)' <=> Beyond(x))
  BY CutNew
<1> SUFFICES ASSUME NEW p \in Ends("old"), Beyond(p), p + Shift \in Ends("new") \cup {n},
                    NEW x \in Ends("new") \cup {n}, p + Shift <= x, x - Shift < SectionStart("old")
             PROVE  x - Shift \in Ends("old")
  BY <1>1 DEF StayTogetherBack
<1>2. /\ SectionStart("old") \in Nat /\ SectionStart("new") \in Nat /\ Shift \in Int
      /\ \A e \in Ends("old") : e \in Nat /\ e <= SectionStart("old")
      /\ \A e \in Ends("new") : e \in Nat /\ e <= SectionStart("new")
      /\ Ends("new") # {} => SectionStart("new") \in Ends("new")
  BY EditIs DEF Chain
<1>3. p \in Nat /\ x \in Nat
  BY <1>1, <1>2
<1>4. CASE p + Shift = n
  <2>1. x = n
    BY <1>1, <1>2, <1>3, <1>4
  <2>2. x - Shift = p
    BY <1>2, <1>3, <1>4, <2>1
  <2> QED BY <2>2
<1>5. CASE p + Shift \in Ends("new") /\ x \in Ends("new")
  BY <1>5 DEF StayTogetherBack
<1>6. CASE p + Shift \in Ends("new") /\ x = n
  <2>1. PICK b \in Ends("new") : b = SectionStart("new") /\ b \in Nat /\ p + Shift <= b
    BY <1>2, <1>6
  <2>2. PICK r \in Int : r = b - Shift
    BY <1>2, <2>1
  <2>3. r < SectionStart("old") /\ p <= r /\ b = r + Shift
    BY <1>1, <1>2, <1>3, <1>6, <2>1, <2>2
  <2>4. r \in Ends("old")
    BY <1>6, <2>1, <2>2, <2>3 DEF StayTogetherBack
  <2>5. Then("old", r) \in Ends("old")
    BY <2>3, <2>4 DEF Chain
  <2>6. r \in Nat /\ Beyond(r)
    BY <1>2, <1>3, <2>3, <2>4, BeyondUp
  <2>7. Then("new", b) = Then("old", r) + Shift
    BY <2>3, <2>6, ThenMoves
  <2>8. Then("old", r) \in Nat /\ n = Then("old", r) + Shift
    BY <1>1, <1>2, <2>1, <2>5, <2>7
  <2>9. n - Shift = Then("old", r)
    BY <1>2, <2>8
  <2> QED BY <1>6, <2>5, <2>9
<1> QED BY <1>4, <1>5, <1>6

-----------------------------------------------------------------------------
(* The invariant. *)

LEMMA InitHits ==
  ASSUME EditInit
  PROVE  \A q \in Nat : q >= edit.at + edit.put + RsyncLength =>
           (q \in sync_hits["new"] <=> q - Shift \in sync_hits["old"])
<1>1. /\ edit.at \in Nat /\ edit.cut \in Nat /\ edit.put \in Nat /\ RsyncLength \in Nat
      /\ Shift = edit.put - edit.cut
  BY EditAssumption DEF EditInit, Shift
<1>2. sync_hits["old"] \in SUBSET Int /\ Len0 \in Int
  BY EditAssumption DEF EditInit, Places
<1>3. {q \in sync_hits["new"] : q >= edit.at + edit.put + RsyncLength} = {q + Shift : q \in Behind}
  BY DEF EditInit
<1>4. \A x \in Behind : x \in Int /\ x \in sync_hits["old"]
  BY <1>2 DEF Behind
<1>5. ASSUME NEW q \in Nat, q >= edit.at + edit.put + RsyncLength, q \in sync_hits["new"]
      PROVE  q - Shift \in sync_hits["old"]
  <2>1. PICK x \in Behind : q = x + Shift
    BY <1>3, <1>5
  <2>2. q - Shift = x
    BY <1>1, <1>4, <2>1
  <2> QED BY <1>4, <2>2
<1>6. ASSUME NEW q \in Nat, q >= edit.at + edit.put + RsyncLength, q - Shift \in sync_hits["old"]
      PROVE  q \in sync_hits["new"]
  <2>1. q - Shift \in Behind /\ q = (q - Shift) + Shift
    BY <1>1, <1>6 DEF Behind
  <2>2. q \in {x + Shift : x \in Behind}
    BY <2>1
  <2> QED BY <1>3, <2>2
<1> QED BY <1>5, <1>6

LEMMA InitInvariant == EditInit => EditInv
<1> SUFFICES ASSUME EditInit PROVE EditInv
  OBVIOUS
<1>1. edit \in [at : Nat, cut : Nat, put : Nat] /\ edit.at + edit.cut <= Len0 /\ Len0 \in Nat
  BY EditAssumption DEF EditInit
<1>2. \A s \in Sides : ends[s] = <<>>
  BY DEF EditInit, Sides
<1>3. Typed
  <2>1. max_len \in Nat \ {0} /\ edit \in Edits
    BY EditAssumption DEF EditInit
  <2>2. \A s \in Sides : sync_hits[s] \subseteq Nat
    <3>1. Len1 \in Nat /\ RsyncLength \in Nat
      BY <1>1, EditAssumption DEF Len1
    <3>2. Places(Len0) \subseteq Nat /\ Places(Len1) \subseteq Nat
      BY <1>1, <3>1 DEF Places
    <3> QED BY <3>2 DEF EditInit, Sides
  <2>3. DOMAIN ends = Sides
    BY DEF EditInit, Sides
  <2>4. \A s \in Sides : ends[s] \in Seq(Nat)
    BY <1>2, EmptySeq
  <2> QED BY <2>1, <2>2, <2>3, <2>4, InitHits DEF Typed
<1>4. \A s \in Sides : Ends(s) = {} /\ SectionStart(s) = 0
  BY <1>2 DEF Ends, SectionStart
<1>5. Length["old"] \in Nat /\ Length["new"] \in Nat
  BY <1>3, EditIs
<1>6. Chain("old") /\ Chain("new")
  BY <1>4, <1>5 DEF Chain, Sides
<1>7. StayTogether /\ StayTogetherBack
  BY <1>4 DEF StayTogether, StayTogetherBack, Sides
<1> QED BY <1>3, <1>6, <1>7 DEF EditInv

LEMMA NextInvariant == EditInv /\ [EditNext]_editVars => EditInv'
<1> SUFFICES ASSUME EditInv, [EditNext]_editVars PROVE EditInv'
  OBVIOUS
<1>1. Typed /\ Chain("old") /\ Chain("new") /\ StayTogether /\ StayTogetherBack
  BY DEF EditInv
<1>2. CASE Cut("old")
  <2>1. Typed' /\ Chain("old")' /\ Chain("new")'
    BY <1>1, <1>2, CutTyped, CutChain, OtherChain DEF Sides
  <2>2. StayTogether'
    BY <1>1, <1>2, OldCutStays
  <2>3. StayTogetherBack'
    BY <1>1, <1>2, OldCutStaysBack
  <2> QED BY <2>1, <2>2, <2>3 DEF EditInv
<1>3. CASE Cut("new")
  <2>1. Typed' /\ Chain("old")' /\ Chain("new")'
    BY <1>1, <1>3, CutTyped, CutChain, OtherChain DEF Sides
  <2>2. StayTogether'
    BY <1>1, <1>3, NewCutStays
  <2>3. StayTogetherBack'
    BY <1>1, <1>3, NewCutStaysBack
  <2> QED BY <2>1, <2>2, <2>3 DEF EditInv
<1>4. CASE UNCHANGED editVars
  <2>1. \A s : Ends(s)' = Ends(s) /\ SectionStart(s)' = SectionStart(s)
    BY <1>4 DEF editVars, Ends, SectionStart
  <2>2. Shift' = Shift /\ Length' = Length /\ (\A x : Beyond(x)' <=> Beyond(x))
    BY <1>4 DEF editVars, Shift, Length, Len1, Beyond
  <2>3. \A s, x : Then(s, x)' = Then(s, x)
    BY <1>4, <2>2 DEF editVars, Then
  <2>4. Typed'
    BY <1>1, <1>4, <2>2 DEF Typed, editVars
  <2>5. Chain("old")' /\ Chain("new")'
    BY <1>1, <2>1, <2>2, <2>3 DEF Chain
  <2>6. StayTogether' /\ StayTogetherBack'
    BY <1>1, <2>1, <2>2 DEF StayTogether, StayTogetherBack
  <2> QED BY <2>4, <2>5, <2>6 DEF EditInv
<1> QED BY <1>2, <1>3, <1>4 DEF EditNext, EditDone

\* Every reachable state of the two loops satisfies the invariant: each source's
\* ends are the chain of sections rsync_sections cuts, and the two agree beyond
\* the edit from their first common end on.
THEOREM SectionsInvariant == EditSpec => []EditInv
<1> QED BY InitInvariant, NextInvariant, PTL DEF EditSpec

\* For every source length, edit, set of hash hits and job size: once
\* rsync_sections has cut a source and its edited form at the same place beyond
\* the edit, every later end of the source, so far as the edited one has been
\* cut, is an end of the edited one.
THEOREM StayTogetherHolds == EditSpec => []StayTogether
<1>1. EditInv => StayTogether
  BY DEF EditInv
<1> QED BY <1>1, SectionsInvariant, PTL

\* And conversely: the edited source gets no end there that the source, so far
\* as it has been cut, does not have.
THEOREM StayTogetherBackHolds == EditSpec => []StayTogetherBack
<1>1. EditInv => StayTogetherBack
  BY DEF EditInv
<1> QED BY <1>1, SectionsInvariant, PTL
=============================================================================
