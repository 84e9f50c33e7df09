------------------------ MODULE DigestCache_proofs ------------------------
(***************************************************************************)
(* Proofs about the digested dictionary: for any number of threads,        *)
(* addresses, dictionaries, parameters, slots and sampling periods, a      *)
(* snapshot kept under a key is the one that key stands for, a frame       *)
(* served from a digest starts from primed tables, and a set parked dirty  *)
(* is one whose restore was not compared.                                  *)
(*                                                                         *)
(* The inductive invariant says of every working set, parked or in a call, *)
(* what the three properties need of it when its turn comes: its digest    *)
(* is the one its key stands for as long as its owner lives, and it is at  *)
(* rest or was restored under a finder that strays.                        *)
(***************************************************************************)
EXTENDS DigestCache, SequenceTheorems, WellFoundedInduction, NaturalsInduction, TLAPS

Slot == [key : Key, digest : Digest \cup {NoDigest}]

\* v's slots hold snapshots of content c, one for each key.
RightSlots(v, c) ==
    /\ \A i \in DOMAIN v : v[i].digest # NoDigest =>
          /\ v[i].digest.key = v[i].key
          /\ v[i].digest.tables = Primed(c, v[i].key)
    /\ \A i, j \in DOMAIN v : v[i].key = v[j].key => i = j

\* A set's digest is that of its owner, if its owner lives.
Mirrored(w) ==
    dicts[w.owner].content # NoDict =>
        w.digest.tables = Primed(dicts[w.owner].content, w.digest.key)

Rested(w) == AtRest(w) \/ (stray /\ ~Sampled(w.dirty_restores))

ParkedSound ==
    \A t \in Threads : work[t] # NoWork => Mirrored(work[t]) /\ Rested(work[t])

CallSound(t) ==
    LET c == call[t] IN
    /\ dicts[c.dict].content # NoDict
    /\ c.key.stride = stride
    /\ c.work # NoWork => Mirrored(c.work) /\ Rested(c.work)
    /\ c.at = "encode" =>
          /\ c.work \in DictWork
          /\ c.work.owner = c.dict
          /\ c.work.digest.key = c.key
          /\ Mirrored(c.work)
          /\ Rested(c.work)

CallsSound == \A t \in Threads : call[t] # Idle => CallSound(t)

IInv == TypeOK /\ SnapshotsRight /\ ParkedSound /\ CallsSound

-----------------------------------------------------------------------------
(* The operators on slots. *)

LEMMA Least ==
  ASSUME NEW T \in SUBSET Nat, T # {}
  PROVE  \E x \in T : \A y \in T : x <= y
<1>1. \E R : IsWellFoundedOn(R, Nat) /\ \A x, y \in Nat : <<y, x>> \in R <=> y < x
  <2> DEFINE R == OpToRel(<, Nat)
  <2>1. IsWellFoundedOn(R, Nat)
    BY NatLessThanWellFounded
  <2>2. \A x, y \in Nat : <<y, x>> \in R <=> y < x
    BY DEF OpToRel
  <2> HIDE DEF R
  <2> QED BY <2>1, <2>2, Zenon
<1>2. PICK R : IsWellFoundedOn(R, Nat) /\ \A x, y \in Nat : <<y, x>> \in R <=> y < x
  BY <1>1, Zenon
<1>3. \E x \in T : \A y \in T : ~(<<y, x>> \in R)
  BY <1>2, WFMin, Zenon
<1>4. ASSUME NEW x \in T, NEW y \in T, ~(<<y, x>> \in R)
      PROVE  x <= y
  <2>1. ~(y < x)
    BY <1>4, <1>2
  <2> QED BY <2>1
<1> QED BY <1>3, <1>4, Zenon

LEMMA BoundedSeqs ==
  ASSUME NEW S, NEW n \in Nat, NEW v
  PROVE  v \in SeqOf(S, n) <=> v \in Seq(S) /\ Len(v) <= n
<1>1. ASSUME v \in SeqOf(S, n) PROVE v \in Seq(S) /\ Len(v) <= n
  <2>1. PICK m \in 0..n : v \in [1..m -> S]
    BY <1>1 DEF SeqOf
  <2>2. m \in Nat /\ m <= n
    OBVIOUS
  <2>3. v \in Seq(S)
    BY <2>1, <2>2, SeqDef
  <2>4. Len(v) = m
    BY <2>1, <2>2, <2>3, LenProperties
  <2> QED BY <2>2, <2>3, <2>4
<1>2. ASSUME v \in Seq(S), Len(v) <= n PROVE v \in SeqOf(S, n)
  <2>1. Len(v) \in 0..n /\ v \in [1..Len(v) -> S]
    BY <1>2, LenProperties
  <2> QED BY <2>1 DEF SeqOf
<1> QED BY <1>1, <1>2

\* Find returns a slot of that key, or 0 when there is none.
LEMMA FindSlot ==
  ASSUME NEW v \in Seq(Slot), NEW k
  PROVE  \/ Find(v, k) = 0 /\ \A i \in 1..Len(v) : v[i].key # k
         \/ Find(v, k) \in 1..Len(v) /\ Find(v, k) # 0 /\ v[Find(v, k)].key = k
<1> DEFINE I == {i \in 1..Len(v) : v[i].key = k}
<1>1. Find(v, k) = IF I # {} THEN Min(I) ELSE 0
  BY DEF Find, SelectInSeq
<1>2. Len(v) \in Nat
  BY LenProperties
<1>3. CASE I = {}
  BY <1>1, <1>3
<1>4. CASE I # {}
  <2>1. I \in SUBSET Nat
    BY <1>2
  <2>2. \E x \in I : \A y \in I : x <= y
    BY <2>1, <1>4, Least
  <2>3. Min(I) \in I
    BY <2>2 DEF Min
  <2> QED BY <1>1, <1>4, <2>3
<1> QED BY <1>3, <1>4

\* Touch permutes: the slot it moves comes last, those behind it step up.
LEMMA TouchSlots ==
  ASSUME NEW v \in Seq(Slot), NEW i \in 1..Len(v)
  PROVE  /\ Touch(v, i) \in Seq(Slot)
         /\ Len(Touch(v, i)) = Len(v)
         /\ \A x \in 1..Len(v) :
              Touch(v, i)[x] = v[IF x < i THEN x ELSE IF x < Len(v) THEN x + 1 ELSE i]
<1> DEFINE front == SubSeq(v, 1, i - 1)
           back == SubSeq(v, i + 1, Len(v))
           rest == front \o back
<1>1. Len(v) \in Nat /\ i \in Int /\ \A x \in 1..Len(v) : v[x] \in Slot
  BY LenProperties, ElementOfSeq
<1>2. /\ front \in Seq(Slot)
      /\ Len(front) = i - 1
      /\ \A x \in 1..(i - 1) : front[x] = v[x]
  <2>1. 1 \in Int /\ i - 1 \in Int /\ \A x \in 1..(i - 1) : v[x] \in Slot
    BY <1>1
  <2>2. /\ SubSeq(v, 1, i - 1) \in Seq(Slot)
        /\ Len(SubSeq(v, 1, i - 1)) = IF 1 <= i - 1 THEN (i - 1) - 1 + 1 ELSE 0
        /\ \A x \in 1..((i - 1) - 1 + 1) : SubSeq(v, 1, i - 1)[x] = v[1 + x - 1]
    BY <2>1, SubSeqProperties
  <2> HIDE DEF front
  <2> QED BY <2>2, <1>1 DEF front
<1>3. /\ back \in Seq(Slot)
      /\ Len(back) = Len(v) - i
      /\ \A x \in 1..(Len(v) - i) : back[x] = v[i + x]
  <2>1. i + 1 \in Int /\ Len(v) \in Int /\ \A x \in (i + 1)..Len(v) : v[x] \in Slot
    BY <1>1
  <2>2. /\ SubSeq(v, i + 1, Len(v)) \in Seq(Slot)
        /\ Len(SubSeq(v, i + 1, Len(v))) = IF i + 1 <= Len(v) THEN Len(v) - (i + 1) + 1 ELSE 0
        /\ \A x \in 1..(Len(v) - (i + 1) + 1) : SubSeq(v, i + 1, Len(v))[x] = v[(i + 1) + x - 1]
    BY <2>1, SubSeqProperties
  <2> QED BY <2>2, <1>1
<1> HIDE DEF front, back
<1>4. /\ rest \in Seq(Slot)
      /\ Len(rest) = Len(v) - 1
      /\ \A x \in 1..(Len(v) - 1) : rest[x] = v[IF x < i THEN x ELSE x + 1]
  <2>1. /\ front \o back \in Seq(Slot)
        /\ Len(front \o back) = Len(front) + Len(back)
        /\ \A x \in 1..(Len(front) + Len(back)) :
             (front \o back)[x] = IF x <= Len(front) THEN front[x] ELSE back[x - Len(front)]
    BY <1>2, <1>3, ConcatProperties
  <2> QED BY <2>1, <1>1, <1>2, <1>3
<1>5. Touch(v, i) = Append(rest, v[i])
  BY DEF Touch, RemoveAt, front, back
<1> HIDE DEF rest
<1>6. v[i] \in Slot
  BY <1>1
<1>7. /\ Append(rest, v[i]) \in Seq(Slot)
      /\ Len(Append(rest, v[i])) = Len(rest) + 1
      /\ \A x \in 1..Len(rest) : Append(rest, v[i])[x] = rest[x]
      /\ Append(rest, v[i])[Len(rest) + 1] = v[i]
  BY <1>4, <1>6, AppendProperties
<1> QED BY <1>1, <1>4, <1>5, <1>7

LEMMA SlotsOf ==
  ASSUME TypeOK, NEW a \in Addrs
  PROVE  /\ dicts[a] \in DictDigests
         /\ dicts[a].content \in Contents \cup {NoDict}
         /\ dicts[a].slots \in Seq(Slot)
         /\ Len(dicts[a].slots) <= DigestSlots
<1>1. dicts[a] \in DictDigests
  BY DEF TypeOK
<1>2. dicts[a].slots \in SeqOf(Slot, DigestSlots)
  BY <1>1 DEF DictDigests, Slot
<1>3. DigestSlots \in Nat
  BY ConstantsAreSane
<1> QED BY <1>1, <1>2, <1>3, BoundedSeqs DEF DictDigests

LEMMA DictOf ==
  ASSUME NEW c \in Contents \cup {NoDict}, NEW v \in Seq(Slot), Len(v) <= DigestSlots
  PROVE  [content |-> c, slots |-> v] \in DictDigests
<1>1. v \in SeqOf(Slot, DigestSlots)
  BY ConstantsAreSane, BoundedSeqs
<1> QED BY <1>1 DEF DictDigests, Slot

LEMMA RightTouch ==
  ASSUME NEW v \in Seq(Slot), NEW c, NEW i \in 1..Len(v), RightSlots(v, c)
  PROVE  RightSlots(Touch(v, i), c)
<1> DEFINE u == Touch(v, i)
           from(x) == IF x < i THEN x ELSE IF x < Len(v) THEN x + 1 ELSE i
<1>1. u \in Seq(Slot) /\ Len(u) = Len(v) /\ \A x \in 1..Len(v) : u[x] = v[from(x)]
  BY TouchSlots
<1>2. Len(v) \in Nat /\ DOMAIN v = 1..Len(v) /\ DOMAIN u = 1..Len(v)
  BY <1>1, LenProperties
<1>3. \A x \in 1..Len(v) : from(x) \in 1..Len(v)
  BY <1>2
<1>4. \A x, y \in 1..Len(v) : from(x) = from(y) => x = y
  BY <1>2
<1> HIDE DEF from, u
<1>5. \A x \in DOMAIN u : u[x].digest # NoDigest =>
         u[x].digest.key = u[x].key /\ u[x].digest.tables = Primed(c, u[x].key)
  <2>1. ASSUME NEW x \in 1..Len(v), u[x].digest # NoDigest
        PROVE  u[x].digest.key = u[x].key /\ u[x].digest.tables = Primed(c, u[x].key)
    <3>1. PICK y \in DOMAIN v : u[x] = v[y]
      BY <1>1, <1>2, <1>3, Zenon
    <3>2. v[y].digest # NoDigest =>
             v[y].digest.key = v[y].key /\ v[y].digest.tables = Primed(c, v[y].key)
      BY DEF RightSlots
    <3> QED BY <2>1, <3>1, <3>2, Zenon
  <2> QED BY <2>1, <1>2, Zenon
<1>6. \A x, y \in DOMAIN u : u[x].key = u[y].key => x = y
  <2>1. ASSUME NEW x \in 1..Len(v), NEW y \in 1..Len(v), u[x].key = u[y].key
        PROVE  x = y
    <3>1. v[from(x)].key = v[from(y)].key
      BY <1>1, <2>1, Zenon
    <3>2. from(x) = from(y)
      BY <3>1, <1>2, <1>3, Zenon DEF RightSlots
    <3> QED BY <3>2, <1>4, Zenon
  <2> QED BY <2>1, <1>2, Zenon
<1> QED BY <1>5, <1>6, Zenon DEF RightSlots, u

LEMMA EvictSlots ==
  ASSUME NEW v \in Seq(Slot), Len(v) <= DigestSlots
  PROVE  /\ Evict(v) \in Seq(Slot)
         /\ Len(Evict(v)) < DigestSlots
         /\ \E n \in {0, 1} : /\ Len(Evict(v)) = Len(v) - n
                              /\ \A x \in 1..Len(Evict(v)) : Evict(v)[x] = v[x + n]
<1>0. DigestSlots \in Nat \ {0}
  BY ConstantsAreSane
<1>1. Len(v) \in Nat
  BY LenProperties
<1>2. CASE Len(v) >= DigestSlots
  <2>1. v # <<>>
    BY <1>0, <1>2, EmptySeq
  <2>2. Evict(v) = Tail(v)
    BY <1>2 DEF Evict
  <2>3. /\ Tail(v) \in Seq(Slot) /\ Len(Tail(v)) = Len(v) - 1
        /\ \A i \in 1..Len(Tail(v)) : Tail(v)[i] = v[i + 1]
    BY <2>1, HeadTailProperties
  <2> QED BY <2>2, <2>3, <1>0, <1>1
<1>3. CASE ~(Len(v) >= DigestSlots)
  <2>1. Evict(v) = v
    BY <1>3 DEF Evict
  <2>2. \A x \in 1..Len(v) : x + 0 = x
    BY <1>1
  <2> QED BY <2>1, <2>2, <1>0, <1>1, <1>3
<1> QED BY <1>2, <1>3

LEMMA RightFirstSight ==
  ASSUME NEW v \in Seq(Slot), Len(v) <= DigestSlots, NEW c, NEW k \in Key,
         RightSlots(v, c), \A i \in 1..Len(v) : v[i].key # k
  PROVE  LET u == Append(Evict(v), [key |-> k, digest |-> NoDigest]) IN
         /\ u \in Seq(Slot) /\ Len(u) <= DigestSlots
         /\ RightSlots(u, c)
<1> DEFINE e == Evict(v)
           s == [key |-> k, digest |-> NoDigest]
           u == Append(e, s)
<1>1. e \in Seq(Slot) /\ Len(e) < DigestSlots
  BY EvictSlots
<1>2. PICK n \in {0, 1} : Len(e) = Len(v) - n /\ \A x \in 1..Len(e) : e[x] = v[x + n]
  BY EvictSlots
<1>3. s \in Slot
  BY DEF Slot
<1> HIDE DEF e
<1>4. /\ u \in Seq(Slot) /\ Len(u) = Len(e) + 1
      /\ \A x \in 1..Len(e) : u[x] = e[x]
      /\ u[Len(e) + 1] = s
  BY <1>1, <1>3, AppendProperties
<1>5. Len(v) \in Nat /\ Len(e) \in Nat /\ DOMAIN v = 1..Len(v) /\ DOMAIN u = 1..(Len(e) + 1)
  BY <1>1, <1>4, LenProperties
<1>6. s.key = k /\ s.digest = NoDigest
  OBVIOUS
<1> HIDE DEF s, u
<1>7. \A x \in 1..Len(e) : u[x] = v[x + n] /\ x + n \in 1..Len(v)
  BY <1>2, <1>4, <1>5
<1>8. \A x \in DOMAIN u : x \in 1..Len(e) \/ x = Len(e) + 1
  BY <1>5
<1>9. \A x \in DOMAIN u : u[x].digest # NoDigest =>
         u[x].digest.key = u[x].key /\ u[x].digest.tables = Primed(c, u[x].key)
  <2>1. ASSUME NEW x \in DOMAIN u, u[x].digest # NoDigest
        PROVE  u[x].digest.key = u[x].key /\ u[x].digest.tables = Primed(c, u[x].key)
    <3>1. x \in 1..Len(e)
      BY <2>1, <1>4, <1>6, <1>8, Zenon
    <3>2. PICK y \in DOMAIN v : u[x] = v[y]
      BY <3>1, <1>5, <1>7, Zenon
    <3>3. v[y].digest # NoDigest =>
             v[y].digest.key = v[y].key /\ v[y].digest.tables = Primed(c, v[y].key)
      BY DEF RightSlots
    <3> QED BY <2>1, <3>2, <3>3, Zenon
  <2> QED BY <2>1, Zenon
<1>10. ASSUME NEW x \in DOMAIN u, NEW y \in DOMAIN u, u[x].key = u[y].key
       PROVE  x = y
  <2>1. CASE x \in 1..Len(e) /\ y \in 1..Len(e)
    <3>1. x + n = y + n
      <4>1. v[x + n].key = v[y + n].key /\ x + n \in DOMAIN v /\ y + n \in DOMAIN v
        BY <2>1, <1>5, <1>7, <1>10, Zenon
      <4> QED BY <4>1 DEF RightSlots
    <3> QED BY <3>1, <2>1, <1>5
  <2>2. CASE x = Len(e) + 1 /\ y = Len(e) + 1
    BY <2>2
  <2>3. CASE x \in 1..Len(e) /\ y = Len(e) + 1
    BY <2>3, <1>4, <1>6, <1>7, <1>10, Zenon
  <2>4. CASE x = Len(e) + 1 /\ y \in 1..Len(e)
    BY <2>4, <1>4, <1>6, <1>7, <1>10, Zenon
  <2> QED BY <1>8, <2>1, <2>2, <2>3, <2>4, Zenon
<1>11. Len(u) <= DigestSlots
  BY <1>1, <1>4, <1>5, ConstantsAreSane
<1> QED BY <1>4, <1>9, <1>10, <1>11, Zenon DEF RightSlots, u, s, e

LEMMA RightPublish ==
  ASSUME NEW v \in Seq(Slot), NEW c, NEW i \in 1..Len(v), NEW d, RightSlots(v, c),
         d.key = v[i].key, d.tables = Primed(c, d.key),
         NEW u \in Seq(Slot), Len(u) = Len(v), u[i].key = v[i].key, u[i].digest = d,
         \A j \in 1..Len(v) : j # i => u[j] = v[j]
  PROVE  RightSlots(u, c)
<1>1. DOMAIN v = 1..Len(v) /\ DOMAIN u = 1..Len(v)
  BY LenProperties
<1>2. \A x \in 1..Len(v) : u[x].key = v[x].key
  OBVIOUS
<1>3. \A x \in DOMAIN u : u[x].digest # NoDigest =>
         u[x].digest.key = u[x].key /\ u[x].digest.tables = Primed(c, u[x].key)
  <2>1. ASSUME NEW x \in DOMAIN u, u[x].digest # NoDigest
        PROVE  u[x].digest.key = u[x].key /\ u[x].digest.tables = Primed(c, u[x].key)
    <3>1. CASE x = i
      BY <3>1
    <3>2. CASE x # i
      BY <1>1, <2>1, <3>2 DEF RightSlots
    <3> QED BY <3>1, <3>2
  <2> QED BY <2>1
<1>4. \A x, y \in DOMAIN u : u[x].key = u[y].key => x = y
  <2>1. ASSUME NEW x \in DOMAIN u, NEW y \in DOMAIN u, u[x].key = u[y].key
        PROVE  x = y
    <3>1. v[x].key = v[y].key
      BY <1>1, <1>2, <2>1
    <3> QED BY <3>1, <1>1 DEF RightSlots
  <2> QED BY <2>1
<1> QED BY <1>3, <1>4 DEF RightSlots

-----------------------------------------------------------------------------
(* Working sets and calls. *)

LEMMA SeatSet ==
  ASSUME NEW a \in Addrs, NEW d \in Digest
  PROVE  LET w == Seat(a, d) IN
         w \in DictWork /\ w.owner = a /\ w.digest = d /\ AtRest(w)
  BY DEF Seat, DictWork, Digest, AtRest

LEMMA CallOf ==
  ASSUME TypeOK, NEW t \in Threads, call[t] # Idle
  PROVE  /\ call[t] \in Call
         /\ call[t].dict \in Addrs
         /\ call[t].key \in Key
         /\ call[t].work \in DictWork \cup {NoWork}
  BY DEF TypeOK, Call

LEMMA BusyIsCall ==
  ASSUME NEW t \in Threads, call[t].at \in {"lookup", "build", "encode"}
  PROVE  call[t] # Idle
  BY DEF Idle

\* What a step that touches one slot of one dictionary leaves right.
LEMMA SlotStep ==
  ASSUME TypeOK, SnapshotsRight, NEW a \in Addrs, NEW v \in Seq(Slot),
         Len(v) <= DigestSlots, RightSlots(v, dicts[a].content),
         dicts' = [dicts EXCEPT ![a].slots = v]
  PROVE  /\ dicts' \in [Addrs -> DictDigests]
         /\ SnapshotsRight'
         /\ \A b \in Addrs : dicts'[b].content = dicts[b].content
<1>1. dicts \in [Addrs -> DictDigests]
  BY DEF TypeOK
<1>2. [dicts[a] EXCEPT !.slots = v] = [content |-> dicts[a].content, slots |-> v]
  BY <1>1 DEF DictDigests
<1>3. [content |-> dicts[a].content, slots |-> v] \in DictDigests
  BY DictOf, SlotsOf
<1>4. \A b \in Addrs : dicts'[b] = IF b = a THEN [content |-> dicts[a].content, slots |-> v]
                                   ELSE dicts[b]
  BY <1>1, <1>2
<1>5. dicts' \in [Addrs -> DictDigests]
  <2>1. DOMAIN dicts' = Addrs /\ dicts' = [b \in Addrs |-> dicts'[b]]
    BY <1>1
  <2>2. \A b \in Addrs : dicts'[b] \in DictDigests
    BY <1>1, <1>3, <1>4
  <2> QED BY <2>1, <2>2
<1>6. \A b \in Addrs : dicts'[b].content = dicts[b].content
  BY <1>4
<1>7. SnapshotsRight'
  <2>1. \A b \in Addrs : RightSlots(dicts[b].slots, dicts[b].content)
    BY DEF SnapshotsRight, RightSlots
  <2>2. \A b \in Addrs : RightSlots(dicts'[b].slots, dicts'[b].content)
    <3>1. ASSUME NEW b \in Addrs PROVE RightSlots(dicts'[b].slots, dicts'[b].content)
      <4>1. CASE b = a
        <5>1. dicts'[b].slots = v /\ dicts'[b].content = dicts[a].content
          BY <1>4, <4>1
        <5> QED BY <5>1
      <4>2. CASE b # a
        BY <1>4, <4>2, <2>1
      <4> QED BY <4>1, <4>2
    <3> QED BY <3>1
  <2> QED BY <2>2 DEF SnapshotsRight, RightSlots
<1> QED BY <1>5, <1>6, <1>7

\* A step of one thread that leaves every dictionary's content alone.
LEMMA ThreadStep ==
  ASSUME IInv, NEW t \in Threads,
         \A b \in Addrs : dicts'[b].content = dicts[b].content,
         stride' = stride, stray' = stray,
         \A u \in Threads : u # t => work'[u] = work[u] /\ call'[u] = call[u],
         work'[t] # NoWork => (Mirrored(work[t]) /\ Rested(work[t]))',
         call'[t] # Idle => CallSound(t)'
  PROVE  ParkedSound' /\ CallsSound'
<1>1. ASSUME NEW u \in Threads, work'[u] # NoWork
      PROVE  (Mirrored(work[u]) /\ Rested(work[u]))'
  <2>1. CASE u = t
    BY <1>1, <2>1
  <2>2. CASE u # t
    <3>1. work'[u] = work[u] /\ work[u] # NoWork
      BY <1>1, <2>2
    <3>2. work[u].owner \in Addrs
      BY <3>1 DEF IInv, TypeOK, DictWork
    <3>3. Mirrored(work[u]) /\ Rested(work[u])
      BY <3>1 DEF IInv, ParkedSound
    <3> QED BY <3>1, <3>2, <3>3 DEF Mirrored, Rested
  <2> QED BY <2>1, <2>2
<1>2. ASSUME NEW u \in Threads, call'[u] # Idle
      PROVE  CallSound(u)'
  <2>1. CASE u = t
    BY <1>2, <2>1
  <2>2. CASE u # t
    <3>1. call'[u] = call[u] /\ call[u] # Idle
      BY <1>2, <2>2
    <3>2. call[u].dict \in Addrs /\ (call[u].work # NoWork => call[u].work.owner \in Addrs)
      BY <3>1, CallOf DEF IInv, DictWork
    <3>3. CallSound(u)
      BY <3>1 DEF IInv, CallsSound
    <3>4. ASSUME call[u].work.owner \in Addrs
          PROVE  (Mirrored(call[u].work) <=> Mirrored(call[u].work)')
                   /\ (Rested(call[u].work) <=> Rested(call[u].work)')
      BY <3>1, <3>4 DEF Mirrored, Rested
    <3>5. dicts'[call'[u].dict].content # NoDict /\ call'[u].key.stride = stride'
      BY <3>1, <3>2, <3>3 DEF CallSound
    <3>6. call'[u].work # NoWork => (Mirrored(call[u].work) /\ Rested(call[u].work))'
      BY <3>1, <3>2, <3>3, <3>4 DEF CallSound
    <3>7. ASSUME call'[u].at = "encode"
          PROVE  /\ call'[u].work \in DictWork
                 /\ call'[u].work.owner = call'[u].dict
                 /\ call'[u].work.digest.key = call'[u].key
                 /\ (Mirrored(call[u].work) /\ Rested(call[u].work))'
      <4>1. call[u].at = "encode"
        BY <3>1, <3>7
      <4>2. /\ call[u].work \in DictWork
            /\ call[u].work.owner = call[u].dict
            /\ call[u].work.digest.key = call[u].key
            /\ Mirrored(call[u].work) /\ Rested(call[u].work)
        BY <4>1, <3>3 DEF CallSound
      <4>3. (Mirrored(call[u].work) /\ Rested(call[u].work))'
        BY <4>2, <3>2, <3>4
      <4> QED BY <3>1, <4>2, <4>3
    <3> QED BY <3>5, <3>6, <3>7 DEF CallSound
  <2> QED BY <2>1, <2>2
<1> QED BY <1>1, <1>2 DEF ParkedSound, CallsSound

LEMMA InitInv == Init => IInv
<1> SUFFICES ASSUME Init PROVE IInv
  OBVIOUS
<1>1. \A a \in Addrs : dicts[a] = [content |-> NoDict, slots |-> <<>>]
  BY DEF Init, Fresh
<1>2. [content |-> NoDict, slots |-> <<>>] \in DictDigests
  <2>1. <<>> \in Seq(Slot) /\ Len(<<>>) <= DigestSlots
    BY EmptySeq, ConstantsAreSane
  <2> QED BY <2>1, DictOf
<1>3. TypeOK
  BY <1>1, <1>2 DEF Init, TypeOK, Fresh
<1>4. SnapshotsRight
  <2>1. \A a \in Addrs : DOMAIN dicts[a].slots = {}
    BY <1>1
  <2> QED BY <2>1 DEF SnapshotsRight
<1>5. ParkedSound /\ CallsSound
  BY DEF Init, ParkedSound, CallsSound
<1> QED BY <1>3, <1>4, <1>5 DEF IInv

-----------------------------------------------------------------------------
(* One lemma for each action. *)

LEMMA NewDictionaryInv ==
  ASSUME IInv, NEW a \in Addrs, NEW c \in Contents, NewDictionary(a, c)
  PROVE  IInv'
<1>1. /\ dicts \in [Addrs -> DictDigests] /\ dicts[a].content = NoDict
      /\ dicts' = [dicts EXCEPT ![a] = Fresh(c)]
      /\ UNCHANGED <<work, call, stride, broken, stray>>
      /\ \A w \in Sets : w.owner # a
  BY DEF NewDictionary, Free, IInv, TypeOK
<1>2. Fresh(c) = [content |-> c, slots |-> <<>>] /\ Fresh(c) \in DictDigests
  <2>1. <<>> \in Seq(Slot) /\ Len(<<>>) <= DigestSlots
    BY EmptySeq, ConstantsAreSane
  <2> QED BY <2>1, DictOf DEF Fresh
<1>3. \A b \in Addrs : dicts'[b] = IF b = a THEN Fresh(c) ELSE dicts[b]
  BY <1>1
<1>4. TypeOK'
  BY <1>1, <1>2 DEF IInv, TypeOK
<1>5. SnapshotsRight'
  <2>1. DOMAIN dicts'[a].slots = {}
    BY <1>2, <1>3
  <2>2. \A b \in Addrs : b # a => dicts'[b] = dicts[b]
    BY <1>3
  <2> QED BY <2>1, <2>2 DEF IInv, SnapshotsRight
<1>6. ParkedSound'
  <2>1. ASSUME NEW t \in Threads, work[t] # NoWork
        PROVE  (Mirrored(work[t]) /\ Rested(work[t]))'
    <3>1. work[t] \in Sets
      BY <2>1 DEF Sets
    <3>2. work[t].owner # a /\ work[t].owner \in Addrs
      BY <1>1, <2>1, <3>1 DEF IInv, TypeOK, DictWork
    <3>3. Mirrored(work[t]) /\ Rested(work[t])
      BY <2>1 DEF IInv, ParkedSound
    <3> QED BY <1>1, <1>3, <3>2, <3>3 DEF Mirrored, Rested
  <2> QED BY <1>1, <2>1 DEF ParkedSound
<1>7. CallsSound'
  <2>1. ASSUME NEW t \in Threads, call[t] # Idle
        PROVE  CallSound(t)'
    <3>1. CallSound(t) /\ call[t].dict \in Addrs /\ call[t].work \in DictWork \cup {NoWork}
      BY <2>1, CallOf DEF IInv, CallsSound
    <3>2. call[t].dict # a
      BY <1>1, <3>1 DEF CallSound
    <3>3. call'[t] = call[t] /\ dicts'[call[t].dict] = dicts[call[t].dict]
      BY <1>1, <1>3, <3>1, <3>2
    <3>4. ASSUME call[t].work # NoWork
          PROVE  (Mirrored(call[t].work) /\ Rested(call[t].work))'
      <4>1. call[t].work \in Sets
        BY <2>1, <3>4 DEF Sets
      <4>2. call[t].work.owner # a /\ call[t].work.owner \in Addrs
        BY <1>1, <3>1, <3>4, <4>1 DEF DictWork
      <4>3. Mirrored(call[t].work) /\ Rested(call[t].work)
        BY <3>1, <3>4 DEF CallSound
      <4> QED BY <1>1, <1>3, <4>2, <4>3 DEF Mirrored, Rested
    <3>5. ASSUME call[t].at = "encode"
          PROVE  /\ call[t].work \in DictWork
                 /\ call[t].work.owner = call[t].dict
                 /\ call[t].work.digest.key = call[t].key
                 /\ (Mirrored(call[t].work) /\ Rested(call[t].work))'
      BY <1>1, <3>1, <3>3, <3>5 DEF CallSound, Mirrored, Rested
    <3> QED BY <1>1, <3>1, <3>3, <3>4, <3>5 DEF CallSound
  <2> QED BY <1>1, <2>1 DEF CallsSound
<1> QED BY <1>4, <1>5, <1>6, <1>7 DEF IInv

LEMMA DropDictionaryInv ==
  ASSUME IInv, NEW a \in Addrs, DropDictionary(a)
  PROVE  IInv'
<1>1. /\ dicts \in [Addrs -> DictDigests]
      /\ dicts' = [dicts EXCEPT ![a] = Fresh(NoDict)]
      /\ UNCHANGED <<work, call, stride, broken, stray>>
      /\ \A t \in Threads : call[t] # Idle => call[t].dict # a
  BY DEF DropDictionary, IInv, TypeOK
<1>2. Fresh(NoDict) = [content |-> NoDict, slots |-> <<>>] /\ Fresh(NoDict) \in DictDigests
  <2>1. <<>> \in Seq(Slot) /\ Len(<<>>) <= DigestSlots
    BY EmptySeq, ConstantsAreSane
  <2> QED BY <2>1, DictOf DEF Fresh
<1>3. \A b \in Addrs : dicts'[b] = IF b = a THEN Fresh(NoDict) ELSE dicts[b]
  BY <1>1
<1>4. TypeOK'
  BY <1>1, <1>2 DEF IInv, TypeOK
<1>5. SnapshotsRight'
  <2>1. DOMAIN dicts'[a].slots = {}
    BY <1>2, <1>3
  <2>2. \A b \in Addrs : b # a => dicts'[b] = dicts[b]
    BY <1>3
  <2> QED BY <2>1, <2>2 DEF IInv, SnapshotsRight
<1>6. ASSUME NEW w \in DictWork, Mirrored(w), Rested(w)
      PROVE  (Mirrored(w) /\ Rested(w))'
  <2>1. w.owner \in Addrs
    BY DEF DictWork
  <2>2. CASE w.owner = a
    <3>1. dicts'[w.owner].content = NoDict
      BY <1>2, <1>3, <2>1, <2>2
    <3> QED BY <1>1, <1>6, <3>1 DEF Mirrored, Rested
  <2>3. CASE w.owner # a
    <3>1. dicts'[w.owner] = dicts[w.owner]
      BY <1>3, <2>1, <2>3
    <3> QED BY <1>1, <1>6, <3>1 DEF Mirrored, Rested
  <2> QED BY <2>2, <2>3
<1>7. ParkedSound'
  <2>1. ASSUME NEW t \in Threads, work[t] # NoWork
        PROVE  (Mirrored(work[t]) /\ Rested(work[t]))'
    <3>1. work[t] \in DictWork /\ Mirrored(work[t]) /\ Rested(work[t]) /\ work'[t] = work[t]
      BY <1>1, <2>1 DEF IInv, TypeOK, ParkedSound
    <3> QED BY <1>6, <3>1 DEF Mirrored, Rested
  <2> QED BY <1>1, <2>1 DEF ParkedSound
<1>8. CallsSound'
  <2>1. ASSUME NEW t \in Threads, call[t] # Idle
        PROVE  CallSound(t)'
    <3>1. CallSound(t) /\ call[t].dict \in Addrs /\ call[t].work \in DictWork \cup {NoWork}
      BY <2>1, CallOf DEF IInv, CallsSound
    <3>2. call'[t] = call[t] /\ dicts'[call[t].dict] = dicts[call[t].dict]
      BY <1>1, <1>3, <2>1, <3>1
    <3>3. call[t].work # NoWork => (Mirrored(call[t].work) /\ Rested(call[t].work))'
      BY <1>6, <3>1, <3>2 DEF CallSound, Mirrored, Rested
    <3>4. call[t].at = "encode" => (Mirrored(call[t].work) /\ Rested(call[t].work))'
      BY <1>6, <3>1, <3>2 DEF CallSound, Mirrored, Rested
    <3> QED BY <1>1, <3>1, <3>2, <3>3, <3>4 DEF CallSound
  <2> QED BY <1>1, <2>1 DEF CallsSound
<1> QED BY <1>4, <1>5, <1>7, <1>8 DEF IInv

LEMMA BeginInv ==
  ASSUME IInv, NEW t \in Threads, NEW a \in Addrs, NEW p \in Params, Begin(t, a, p)
  PROVE  IInv'
<1> DEFINE k == [params |-> p, stride |-> stride]
           at == IF Mirrors(work[t], a, k) THEN "encode" ELSE "lookup"
           c == [at |-> at, dict |-> a, key |-> k, work |-> work[t]]
<1>1. /\ call[t] = Idle /\ dicts[a].content # NoDict
      /\ call' = [call EXCEPT ![t] = c]
      /\ work' = [work EXCEPT ![t] = NoWork]
      /\ UNCHANGED <<dicts, stride, broken, stray>>
  BY DEF Begin
<1>2. /\ work \in [Threads -> DictWork \cup {NoWork}]
      /\ call \in [Threads -> Call \cup {Idle}]
      /\ stride \in Strides
  BY DEF IInv, TypeOK
<1>3. k \in Key /\ k.stride = stride /\ at \in {"lookup", "encode"}
  BY <1>2 DEF Key
<1>4. Mirrors(work[t], a, k) => at = "encode"
  OBVIOUS
<1>5. at = "encode" => Mirrors(work[t], a, k)
  OBVIOUS
<1> HIDE DEF k, at
<1>6. /\ c.at = at /\ c.dict = a /\ c.key = k /\ c.work = work[t]
      /\ c \in Call
  BY <1>2, <1>3 DEF Call
<1> HIDE DEF c
<1>7. call'[t] = c /\ work'[t] = NoWork
  BY <1>1, <1>2
<1>8. TypeOK'
  BY <1>1, <1>2, <1>6 DEF IInv, TypeOK
<1>9. SnapshotsRight'
  BY <1>1 DEF IInv, SnapshotsRight
<1>10. \A u \in Threads : u # t => work'[u] = work[u] /\ call'[u] = call[u]
  BY <1>1, <1>2
<1>11. work[t] # NoWork => work[t] \in DictWork /\ Mirrored(work[t]) /\ Rested(work[t])
  BY <1>2 DEF IInv, ParkedSound
<1>12. CallSound(t)'
  <2>2. ASSUME c.at = "encode"
        PROVE  work[t] # NoWork /\ work[t].owner = a /\ work[t].digest.key = k
    BY <1>5, <1>6, <2>2 DEF Mirrors
  <2>3. ASSUME call'[t].work # NoWork
        PROVE  (Mirrored(call[t].work) /\ Rested(call[t].work))'
    <3>1. call'[t].work = work[t]
      BY <1>6, <1>7
    <3>2. work[t] \in DictWork /\ Mirrored(work[t]) /\ Rested(work[t])
      BY <1>11, <2>3, <3>1
    <3> QED BY <1>1, <3>1, <3>2 DEF Mirrored, Rested
  <2>4. ASSUME call'[t].at = "encode"
        PROVE  /\ call'[t].work \in DictWork
               /\ call'[t].work.owner = call'[t].dict
               /\ call'[t].work.digest.key = call'[t].key
               /\ (Mirrored(call[t].work) /\ Rested(call[t].work))'
    <3>1. work[t] # NoWork /\ work[t].owner = a /\ work[t].digest.key = k
      BY <1>7, <2>2, <2>4
    <3> QED BY <1>6, <1>7, <1>11, <2>3, <3>1
  <2>5. dicts'[call'[t].dict].content # NoDict /\ call'[t].key.stride = stride'
    BY <1>1, <1>3, <1>6, <1>7
  <2> QED BY <2>3, <2>4, <2>5 DEF CallSound
<1>13. ParkedSound' /\ CallsSound'
  BY <1>1, <1>7, <1>10, <1>12, ThreadStep
<1> QED BY <1>8, <1>9, <1>13 DEF IInv

\* A call whose set is seated on a digest that is right for its key.
LEMMA SeatedInv ==
  ASSUME IInv, NEW t \in Threads, call[t] # Idle, NEW d \in Digest,
         d.key = call[t].key,
         d.tables = Primed(dicts[call[t].dict].content, call[t].key),
         call' = [call EXCEPT ![t].at = "encode", ![t].work = Seat(call[t].dict, d)],
         UNCHANGED <<work, stride, broken, stray>>,
         dicts' \in [Addrs -> DictDigests], SnapshotsRight',
         \A b \in Addrs : dicts'[b].content = dicts[b].content
  PROVE  IInv'
<1>1. call[t] \in Call /\ call[t].dict \in Addrs /\ call[t].key \in Key
  BY CallOf DEF IInv
<1>2. call \in [Threads -> Call \cup {Idle}] /\ work \in [Threads -> DictWork \cup {NoWork}]
  BY DEF IInv, TypeOK
<1>3. PICK w \in DictWork : w = Seat(call[t].dict, d) /\ w.owner = call[t].dict
                              /\ w.digest = d /\ AtRest(w)
  BY <1>1, SeatSet
<1>4. PICK c : c = [call[t] EXCEPT !.at = "encode", !.work = w]
  OBVIOUS
<1>5. /\ c \in Call /\ c.at = "encode" /\ c.dict = call[t].dict /\ c.key = call[t].key
      /\ c.work = w
      /\ call' = [call EXCEPT ![t] = c]
  <2>1. /\ c \in Call /\ c.at = "encode" /\ c.dict = call[t].dict /\ c.key = call[t].key
        /\ c.work = w
    BY <1>1, <1>4 DEF Call
  <2> QED BY <2>1, <1>2, <1>3, <1>4
<1>6. call'[t] = c
  BY <1>2, <1>5
<1>7. TypeOK'
  BY <1>2, <1>5 DEF IInv, TypeOK
<1>8. CallSound(t)'
  <2>1. CallSound(t)
    BY DEF IInv, CallsSound
  <2>2. (Mirrored(call[t].work) /\ Rested(call[t].work))'
    <3>1. call'[t].work = w
      BY <1>5, <1>6
    <3>2. w.digest.tables = Primed(dicts'[w.owner].content, w.digest.key)
      BY <1>1, <1>3
    <3> QED BY <1>3, <3>1, <3>2 DEF Mirrored, Rested
  <2>3. /\ call'[t].work = w /\ call'[t].dict = call[t].dict /\ call'[t].key = call[t].key
        /\ w.digest.key = call[t].key
    BY <1>3, <1>5, <1>6
  <2>4. dicts'[call[t].dict].content # NoDict /\ call[t].key.stride = stride'
    BY <1>1, <2>1 DEF CallSound
  <2> QED BY <1>3, <2>2, <2>3, <2>4 DEF CallSound
<1>9. \A u \in Threads : u # t => work'[u] = work[u] /\ call'[u] = call[u]
  BY <1>2, <1>5
<1>10. work'[t] # NoWork => (Mirrored(work[t]) /\ Rested(work[t]))'
  <2>1. SUFFICES ASSUME work[t] # NoWork PROVE (Mirrored(work[t]) /\ Rested(work[t]))'
    OBVIOUS
  <2>2. work[t] \in DictWork /\ Mirrored(work[t]) /\ Rested(work[t])
    BY <2>1, <1>2 DEF IInv, ParkedSound
  <2>3. work[t].owner \in Addrs
    BY <2>2 DEF DictWork
  <2> QED BY <2>2, <2>3 DEF Mirrored, Rested
<1>11. ParkedSound' /\ CallsSound'
  BY <1>8, <1>9, <1>10, ThreadStep
<1> QED BY <1>7, <1>11 DEF IInv

\* The slots a call looks in.
LEMMA SlotsOfCall ==
  ASSUME IInv, NEW t \in Threads, call[t] # Idle
  PROVE  LET a == call[t].dict
             v == dicts[a].slots
             i == Find(v, call[t].key)
         IN  /\ a \in Addrs /\ call[t].key \in Key
             /\ v \in Seq(Slot) /\ Len(v) <= DigestSlots
             /\ RightSlots(v, dicts[a].content)
             /\ i # 0 => i \in 1..Len(v) /\ i \in DOMAIN v /\ v[i] \in Slot /\ v[i].key = call[t].key
             /\ i = 0 => \A j \in 1..Len(v) : v[j].key # call[t].key
<1> DEFINE a == call[t].dict
           v == dicts[a].slots
<1>1. a \in Addrs /\ call[t].key \in Key
  BY CallOf DEF IInv
<1>2. v \in Seq(Slot) /\ Len(v) <= DigestSlots
  BY <1>1, SlotsOf DEF IInv
<1>3. RightSlots(v, dicts[a].content)
  BY <1>1 DEF IInv, SnapshotsRight, RightSlots
<1> HIDE DEF v
<1>4. DOMAIN v = 1..Len(v) /\ \A j \in 1..Len(v) : v[j] \in Slot
  BY <1>2, LenProperties, ElementOfSeq
<1>5. \/ Find(v, call[t].key) = 0 /\ \A j \in 1..Len(v) : v[j].key # call[t].key
      \/ /\ Find(v, call[t].key) \in 1..Len(v) /\ Find(v, call[t].key) # 0
         /\ v[Find(v, call[t].key)].key = call[t].key
  BY <1>2, FindSlot
<1> QED BY <1>1, <1>2, <1>3, <1>4, <1>5 DEF v

LEMMA LookupReadyInv ==
  ASSUME IInv, NEW t \in Threads, LookupReady(t)
  PROVE  IInv'
<1>1. call[t] # Idle
  BY BusyIsCall DEF LookupReady
<1>2. PICK a : a = call[t].dict
  OBVIOUS
<1>3. PICK v : v = dicts[a].slots
  OBVIOUS
<1>4. PICK i : i = Find(v, call[t].key)
  OBVIOUS
<1>5. PICK d : d = v[i].digest
  OBVIOUS
<1>6. /\ i # 0 /\ d # NoDigest
      /\ dicts' = [dicts EXCEPT ![a].slots = Touch(v, i)]
      /\ call' = [call EXCEPT ![t].at = "encode", ![t].work = Seat(call[t].dict, d)]
      /\ UNCHANGED <<work, stride, broken, stray>>
  BY <1>2, <1>3, <1>4, <1>5 DEF LookupReady
<1>7. /\ a \in Addrs /\ v \in Seq(Slot) /\ Len(v) <= DigestSlots
      /\ RightSlots(v, dicts[a].content)
      /\ i \in 1..Len(v) /\ i \in DOMAIN v /\ v[i] \in Slot /\ v[i].key = call[t].key
  BY <1>1, <1>2, <1>3, <1>4, <1>6, SlotsOfCall, Zenon
<1>8. /\ Touch(v, i) \in Seq(Slot) /\ Len(Touch(v, i)) = Len(v)
      /\ RightSlots(Touch(v, i), dicts[a].content)
  BY <1>7, TouchSlots, RightTouch
<1>9. Len(Touch(v, i)) <= DigestSlots
  BY <1>7, <1>8
<1>10. /\ dicts' \in [Addrs -> DictDigests] /\ SnapshotsRight'
       /\ \A b \in Addrs : dicts'[b].content = dicts[b].content
  BY <1>6, <1>7, <1>8, <1>9, SlotStep DEF IInv
<1>11. d \in Digest /\ d.key = call[t].key /\ d.tables = Primed(dicts[a].content, call[t].key)
  BY <1>5, <1>6, <1>7 DEF RightSlots, Slot
<1> QED BY <1>1, <1>2, <1>6, <1>10, <1>11, SeatedInv

LEMMA LookupBuildInv ==
  ASSUME IInv, NEW t \in Threads, LookupBuild(t)
  PROVE  IInv'
<1>1. call[t] # Idle
  BY BusyIsCall DEF LookupBuild
<1>2. PICK a : a = call[t].dict
  OBVIOUS
<1>3. PICK v : v = dicts[a].slots
  OBVIOUS
<1>4. PICK i : i = Find(v, call[t].key)
  OBVIOUS
<1>5. /\ i # 0
      /\ dicts' = [dicts EXCEPT ![a].slots = Touch(v, i)]
      /\ call' = [call EXCEPT ![t].at = "build"]
      /\ UNCHANGED <<work, stride, broken, stray>>
  BY <1>2, <1>3, <1>4 DEF LookupBuild
<1>6. /\ a \in Addrs /\ v \in Seq(Slot) /\ Len(v) <= DigestSlots
      /\ RightSlots(v, dicts[a].content) /\ i \in 1..Len(v)
  BY <1>1, <1>2, <1>3, <1>4, <1>5, SlotsOfCall, Zenon
<1>7. /\ Touch(v, i) \in Seq(Slot) /\ Len(Touch(v, i)) = Len(v)
      /\ RightSlots(Touch(v, i), dicts[a].content)
  BY <1>6, TouchSlots, RightTouch
<1>8. Len(Touch(v, i)) <= DigestSlots
  BY <1>6, <1>7
<1>9. /\ dicts' \in [Addrs -> DictDigests] /\ SnapshotsRight'
      /\ \A b \in Addrs : dicts'[b].content = dicts[b].content
  BY <1>5, <1>6, <1>7, <1>8, SlotStep DEF IInv
<1>10. call \in [Threads -> Call \cup {Idle}] /\ work \in [Threads -> DictWork \cup {NoWork}]
  BY DEF IInv, TypeOK
<1>11. call[t] \in Call /\ CallSound(t)
  BY <1>1, CallOf DEF IInv, CallsSound
<1>12. PICK c : c = [call[t] EXCEPT !.at = "build"]
  OBVIOUS
<1>13. /\ c \in Call /\ c.at = "build" /\ c.dict = call[t].dict /\ c.key = call[t].key
       /\ c.work = call[t].work
  BY <1>11, <1>12 DEF Call
<1>14. call' = [call EXCEPT ![t] = c] /\ call'[t] = c
  BY <1>5, <1>10, <1>12
<1>15. TypeOK'
  BY <1>5, <1>9, <1>10, <1>13, <1>14 DEF IInv, TypeOK
<1>16. \A u \in Threads : u # t => work'[u] = work[u] /\ call'[u] = call[u]
  BY <1>5, <1>10, <1>14
<1>17. ASSUME NEW w \in DictWork, Mirrored(w), Rested(w)
       PROVE  (Mirrored(w) /\ Rested(w))'
  <2>1. w.owner \in Addrs
    BY DEF DictWork
  <2> QED BY <1>5, <1>9, <1>17, <2>1 DEF Mirrored, Rested
<1>18. work'[t] # NoWork => (Mirrored(work[t]) /\ Rested(work[t]))'
  <2>1. SUFFICES ASSUME work[t] # NoWork PROVE (Mirrored(work[t]) /\ Rested(work[t]))'
    BY <1>5
  <2>2. work[t] \in DictWork /\ Mirrored(work[t]) /\ Rested(work[t]) /\ work'[t] = work[t]
    BY <2>1, <1>5, <1>10 DEF IInv, ParkedSound
  <2> QED BY <2>2, <1>17 DEF Mirrored, Rested
<1>19. CallSound(t)'
  <2>1. call'[t].work # NoWork => (Mirrored(call[t].work) /\ Rested(call[t].work))'
    <3>1. SUFFICES ASSUME call[t].work # NoWork
                   PROVE  (Mirrored(call[t].work) /\ Rested(call[t].work))'
      BY <1>13, <1>14
    <3>2. call[t].work \in DictWork /\ Mirrored(call[t].work) /\ Rested(call[t].work)
      BY <3>1, <1>11 DEF CallSound, Call
    <3>3. call'[t].work = call[t].work
      BY <1>13, <1>14
    <3> QED BY <3>2, <3>3, <1>17 DEF Mirrored, Rested
  <2>2. dicts'[call'[t].dict].content # NoDict /\ call'[t].key.stride = stride'
    BY <1>2, <1>5, <1>6, <1>9, <1>11, <1>13, <1>14 DEF CallSound
  <2>3. call'[t].at # "encode"
    BY <1>13, <1>14
  <2> QED BY <2>1, <2>2, <2>3 DEF CallSound
<1>20. ParkedSound' /\ CallsSound'
  BY <1>5, <1>9, <1>16, <1>18, <1>19, ThreadStep
<1> QED BY <1>9, <1>15, <1>20 DEF IInv

LEMMA LookupFirstSightInv ==
  ASSUME IInv, NEW t \in Threads, LookupFirstSight(t)
  PROVE  IInv'
<1>1. call[t] # Idle
  BY BusyIsCall DEF LookupFirstSight
<1>2. PICK a : a = call[t].dict
  OBVIOUS
<1>3. PICK v : v = dicts[a].slots
  OBVIOUS
<1>4. PICK k : k = call[t].key
  OBVIOUS
<1>5. PICK u : u = Append(Evict(v), [key |-> k, digest |-> NoDigest])
  OBVIOUS
<1>6. /\ Find(v, k) = 0
      /\ dicts' = [dicts EXCEPT ![a].slots = u]
      /\ work' = [work EXCEPT ![t] = call[t].work]
      /\ call' = [call EXCEPT ![t] = Idle]
      /\ UNCHANGED <<stride, broken, stray>>
  BY <1>2, <1>3, <1>4, <1>5 DEF LookupFirstSight
<1>7. /\ a \in Addrs /\ k \in Key /\ v \in Seq(Slot) /\ Len(v) <= DigestSlots
      /\ RightSlots(v, dicts[a].content)
      /\ \A j \in 1..Len(v) : v[j].key # k
  BY <1>1, <1>2, <1>3, <1>4, <1>6, SlotsOfCall, Zenon
<1>8. u \in Seq(Slot) /\ Len(u) <= DigestSlots /\ RightSlots(u, dicts[a].content)
  BY <1>5, <1>7, RightFirstSight
<1>9. /\ dicts' \in [Addrs -> DictDigests] /\ SnapshotsRight'
      /\ \A b \in Addrs : dicts'[b].content = dicts[b].content
  BY <1>6, <1>7, <1>8, SlotStep DEF IInv
<1>10. call \in [Threads -> Call \cup {Idle}] /\ work \in [Threads -> DictWork \cup {NoWork}]
  BY DEF IInv, TypeOK
<1>11. call[t] \in Call /\ call[t].work \in DictWork \cup {NoWork} /\ CallSound(t)
  BY <1>1, CallOf DEF IInv, CallsSound
<1>12. call'[t] = Idle /\ work'[t] = call[t].work
  BY <1>6, <1>10
<1>13. \A x \in Threads : x # t => work'[x] = work[x] /\ call'[x] = call[x]
  BY <1>6, <1>10
<1>14. TypeOK'
  BY <1>6, <1>9, <1>10, <1>11 DEF IInv, TypeOK
<1>15. work'[t] # NoWork => (Mirrored(work[t]) /\ Rested(work[t]))'
  <2>1. SUFFICES ASSUME call[t].work # NoWork PROVE (Mirrored(work[t]) /\ Rested(work[t]))'
    BY <1>12
  <2>2. call[t].work \in DictWork /\ Mirrored(call[t].work) /\ Rested(call[t].work)
    BY <2>1, <1>11 DEF CallSound
  <2>3. call[t].work.owner \in Addrs
    BY <2>2 DEF DictWork
  <2> QED BY <1>6, <1>9, <1>12, <2>2, <2>3 DEF Mirrored, Rested
<1>16. ParkedSound' /\ CallsSound'
  BY <1>6, <1>9, <1>12, <1>13, <1>15, ThreadStep
<1> QED BY <1>9, <1>14, <1>16 DEF IInv

LEMMA PublishInv ==
  ASSUME IInv, NEW t \in Threads, Publish(t)
  PROVE  IInv'
<1>1. call[t] # Idle
  BY BusyIsCall DEF Publish
<1>2. PICK a : a = call[t].dict
  OBVIOUS
<1>3. PICK v : v = dicts[a].slots
  OBVIOUS
<1>4. PICK k : k = call[t].key
  OBVIOUS
<1>5. PICK i : i = Find(v, k)
  OBVIOUS
<1>6. PICK d : d = Build(call[t])
  OBVIOUS
<1>7. PICK use : use = IF i = 0 \/ (i # 0 /\ v[i].digest = NoDigest) THEN d ELSE v[i].digest
  OBVIOUS
<1>8. /\ dicts' = IF i # 0 /\ v[i].digest = NoDigest
                  THEN [dicts EXCEPT ![a].slots[i].digest = d] ELSE dicts
      /\ call' = [call EXCEPT ![t].at = "encode", ![t].work = Seat(call[t].dict, use)]
      /\ UNCHANGED <<work, stride, broken, stray>>
  BY <1>2, <1>3, <1>4, <1>5, <1>6, <1>7 DEF Publish
<1>9. /\ a \in Addrs /\ k \in Key /\ v \in Seq(Slot) /\ Len(v) <= DigestSlots
      /\ RightSlots(v, dicts[a].content)
      /\ i # 0 => i \in 1..Len(v) /\ i \in DOMAIN v /\ v[i] \in Slot /\ v[i].key = k
  BY <1>1, <1>2, <1>3, <1>4, <1>5, SlotsOfCall, Zenon
<1>10. CallSound(t) /\ dicts \in [Addrs -> DictDigests] /\ stride \in Strides
  BY <1>1 DEF IInv, CallsSound, TypeOK
<1>11. d \in Digest /\ d.key = k /\ d.tables = Primed(dicts[a].content, k)
  <2>1. dicts[a].content \in Contents
    BY <1>2, <1>9, <1>10, SlotsOf DEF IInv, CallSound
  <2>2. k.stride = stride /\ k = [params |-> k.params, stride |-> k.stride]
          /\ k.params \in Params
    BY <1>4, <1>9, <1>10 DEF CallSound, Key
  <2>3. [k EXCEPT !.stride = stride] = k
    BY <2>2
  <2>4. d = [key |-> k, tables |-> Primed(dicts[a].content, k)]
    BY <1>2, <1>4, <1>6, <2>3 DEF Build
  <2>5. Primed(dicts[a].content, k) \in Snapshot
    BY <1>10, <2>1, <2>2 DEF Primed, Snapshot
  <2> QED BY <1>9, <2>4, <2>5 DEF Digest
<1>12. use \in Digest /\ use.key = k /\ use.tables = Primed(dicts[a].content, k)
  <2>1. CASE i = 0 \/ v[i].digest = NoDigest
    BY <1>7, <1>11, <2>1
  <2>2. CASE i # 0 /\ v[i].digest # NoDigest
    <3>1. use = v[i].digest
      BY <1>7, <2>2
    <3> QED BY <1>9, <2>2, <3>1 DEF RightSlots, Slot
  <2> QED BY <2>1, <2>2
<1>13. /\ dicts' \in [Addrs -> DictDigests] /\ SnapshotsRight'
       /\ \A b \in Addrs : dicts'[b].content = dicts[b].content
  <2>1. CASE i # 0 /\ v[i].digest = NoDigest
    <3>1. PICK u : u = [v EXCEPT ![i].digest = d]
      OBVIOUS
    <3>2. u \in Seq(Slot) /\ Len(u) = Len(v) /\ RightSlots(u, dicts[a].content)
      <4>1. i \in 1..Len(v) /\ d.key = v[i].key /\ d.tables = Primed(dicts[a].content, d.key)
        BY <1>9, <1>11, <2>1
      <4>2. PICK s : s = [v[i] EXCEPT !.digest = d]
        OBVIOUS
      <4>3. s \in Slot /\ s.key = v[i].key /\ s.digest = d
        BY <1>9, <1>11, <2>1, <4>2 DEF Slot
      <4>4. u = [v EXCEPT ![i] = s]
        BY <3>1, <4>2
      <4>5. /\ u \in Seq(Slot) /\ Len(u) = Len(v)
            /\ \A j \in 1..Len(v) : u[j] = IF j = i THEN s ELSE v[j]
        BY <1>9, <4>1, <4>3, <4>4, ExceptSeq
      <4>6. u[i] = s /\ \A j \in 1..Len(v) : j # i => u[j] = v[j]
        BY <4>1, <4>5
      <4> QED BY <1>9, <4>1, <4>3, <4>5, <4>6, RightPublish
    <3>3. dicts' = [dicts EXCEPT ![a].slots = u]
      <4>1. dicts' = [dicts EXCEPT ![a].slots[i].digest = d]
        BY <1>8, <2>1
      <4>2. [dicts EXCEPT ![a].slots[i].digest = d]
              = [dicts EXCEPT ![a].slots = [dicts[a].slots EXCEPT ![i].digest = d]]
        OBVIOUS
      <4> QED BY <1>3, <3>1, <4>1, <4>2, Zenon
    <3>4. Len(u) <= DigestSlots
      BY <1>9, <3>2
    <3> QED BY <1>9, <3>2, <3>3, <3>4, SlotStep DEF IInv
  <2>2. CASE ~(i # 0 /\ v[i].digest = NoDigest)
    <3>1. dicts' = dicts
      BY <1>8, <2>2
    <3> QED BY <3>1 DEF IInv, TypeOK, SnapshotsRight
  <2> QED BY <2>1, <2>2
<1> QED BY <1>1, <1>2, <1>4, <1>8, <1>12, <1>13, SeatedInv

LEMMA CountNat ==
  ASSUME NEW n \in Nat
  PROVE  Count(n) \in Nat
  BY ConstantsAreSane DEF Count

\* A call that ends and parks the set w.
LEMMA ParkInv ==
  ASSUME IInv, NEW t \in Threads, NEW w \in DictWork, Mirrored(w), Rested(w),
         work' = [work EXCEPT ![t] = w], call' = [call EXCEPT ![t] = Idle],
         UNCHANGED <<dicts, stride, stray>>, broken' \in BOOLEAN
  PROVE  IInv'
<1>1. call \in [Threads -> Call \cup {Idle}] /\ work \in [Threads -> DictWork \cup {NoWork}]
  BY DEF IInv, TypeOK
<1>2. call'[t] = Idle /\ work'[t] = w
  BY <1>1
<1>3. \A x \in Threads : x # t => work'[x] = work[x] /\ call'[x] = call[x]
  BY <1>1
<1>4. TypeOK'
  BY <1>1 DEF IInv, TypeOK
<1>5. SnapshotsRight'
  BY DEF IInv, SnapshotsRight
<1>6. (Mirrored(work[t]) /\ Rested(work[t]))'
  BY <1>2 DEF Mirrored, Rested
<1>7. ParkedSound' /\ CallsSound'
  BY <1>2, <1>3, <1>6, ThreadStep
<1> QED BY <1>4, <1>5, <1>7 DEF IInv

LEMMA ServeInv ==
  ASSUME IInv, NEW t \in Threads, NEW f \in Frame, NEW arm \in BOOLEAN, Serve(t, f, arm)
  PROVE  IInv'
<1>1. call[t] # Idle /\ call[t].at = "encode"
  BY BusyIsCall DEF Serve
<1>2. PICK w : w = call[t].work
  OBVIOUS
<1>3. w \in DictWork /\ Mirrored(w) /\ Rested(w)
  BY <1>1, <1>2 DEF IInv, CallsSound, CallSound
<1>4. PICK dirty \in BOOLEAN : dirty = (arm /\ ClosedFormWrites(w, f) /\ ~broken)
  BY DEF IInv, TypeOK
<1>5. PICK written \in Writes(w, f) :
        LET u == Used(w, written)
            r == IF dirty THEN RestoreDirty(u, f) ELSE RestoreFull(u)
            fails == dirty /\ Sampled(r.dirty_restores) /\ ~AtRest(r)
        IN  /\ work' = [work EXCEPT ![t] = IF fails THEN RestoreFull(r) ELSE r]
            /\ broken' = (broken \/ fails)
  BY <1>2, <1>4 DEF Serve
<1>6. PICK u : u = Used(w, written)
  OBVIOUS
<1>7. PICK r : r = IF dirty THEN RestoreDirty(u, f) ELSE RestoreFull(u)
  OBVIOUS
<1>8. PICK fails \in BOOLEAN : fails = (dirty /\ Sampled(r.dirty_restores) /\ ~AtRest(r))
  OBVIOUS
<1>9. PICK p : p = IF fails THEN RestoreFull(r) ELSE r
  OBVIOUS
<1>10. /\ work' = [work EXCEPT ![t] = p] /\ broken' = (broken \/ fails)
       /\ call' = [call EXCEPT ![t] = Idle]
       /\ UNCHANGED <<dicts, stride, stray>>
  BY <1>5, <1>6, <1>7, <1>8, <1>9 DEF Serve
<1>11. written \subseteq Slots
         /\ (~stray /\ ClosedFormWrites(w, f) => written \subseteq f.hashed)
  BY DEF Writes, Frame
<1>12. /\ u \in DictWork /\ u.owner = w.owner /\ u.digest = w.digest
       /\ u.tables = w.tables /\ u.stale = w.stale \cup written
  BY <1>3, <1>6, <1>11 DEF Used, DictWork
<1>13. \A x \in DictWork : /\ RestoreFull(x) \in DictWork /\ AtRest(RestoreFull(x))
                           /\ RestoreFull(x).owner = x.owner /\ RestoreFull(x).digest = x.digest
  BY DEF RestoreFull, DictWork, Digest, AtRest
<1>14. LET d == RestoreDirty(u, f) IN
         /\ d \in DictWork /\ d.owner = u.owner /\ d.digest = u.digest
         /\ d.tables = u.tables /\ d.stale = u.stale \ f.hashed
  <2>1. u.dirty_restores \in Nat /\ u.stale \subseteq Slots
    BY <1>12 DEF DictWork
  <2>2. Count(u.dirty_restores) \in Nat
    BY <2>1, CountNat
  <2> QED BY <1>12, <2>1, <2>2 DEF RestoreDirty, DictWork
<1>15. r \in DictWork /\ r.owner = w.owner /\ r.digest = w.digest
  BY <1>7, <1>12, <1>13, <1>14, Zenon
<1>16. p \in DictWork /\ p.owner = w.owner /\ p.digest = w.digest
  BY <1>9, <1>13, <1>15, Zenon
<1>17. Mirrored(p)
  BY <1>3, <1>16 DEF Mirrored
<1>18. Rested(p)
  <2>1. CASE fails
    BY <2>1, <1>9, <1>13, <1>15 DEF Rested
  <2>2. CASE ~fails /\ ~dirty
    BY <2>2, <1>7, <1>9, <1>12, <1>13 DEF Rested
  <2>3. CASE ~fails /\ dirty /\ AtRest(r)
    BY <2>3, <1>9 DEF Rested
  <2>4. CASE ~fails /\ dirty /\ ~AtRest(r)
    <3>1. p = r /\ r = RestoreDirty(u, f) /\ ~Sampled(r.dirty_restores)
      BY <2>4, <1>7, <1>8, <1>9
    <3>2. ASSUME ~stray PROVE FALSE
      <4>1. w.tables = w.digest.tables /\ w.stale = {}
        BY <1>3, <3>2 DEF Rested, AtRest
      <4>2. written \subseteq f.hashed
        BY <1>4, <1>11, <2>4, <3>2
      <4>3. r.stale = {} /\ r.tables = w.digest.tables
        BY <1>12, <1>14, <3>1, <4>1, <4>2
      <4> QED BY <1>15, <2>4, <4>3 DEF AtRest
    <3> QED BY <3>1, <3>2 DEF Rested
  <2> QED BY <2>1, <2>2, <2>3, <2>4
<1>19. broken' \in BOOLEAN
  BY <1>10
<1> QED BY <1>10, <1>16, <1>17, <1>18, <1>19, ParkInv

LEMMA ServeErrorInv ==
  ASSUME IInv, NEW t \in Threads, ServeError(t)
  PROVE  IInv'
<1>1. call' = [call EXCEPT ![t] = Idle] /\ UNCHANGED <<dicts, work, stride, broken, stray>>
  BY DEF ServeError
<1>2. call \in [Threads -> Call \cup {Idle}] /\ work \in [Threads -> DictWork \cup {NoWork}]
  BY DEF IInv, TypeOK
<1>3. call'[t] = Idle /\ \A x \in Threads : x # t => work'[x] = work[x] /\ call'[x] = call[x]
  BY <1>1, <1>2
<1>4. TypeOK' /\ SnapshotsRight'
  BY <1>1, <1>2 DEF IInv, TypeOK, SnapshotsRight
<1>5. work'[t] # NoWork => (Mirrored(work[t]) /\ Rested(work[t]))'
  BY <1>1 DEF IInv, ParkedSound, Mirrored, Rested
<1>6. ParkedSound' /\ CallsSound'
  BY <1>1, <1>3, <1>5, ThreadStep
<1> QED BY <1>4, <1>6 DEF IInv

LEMMA SetPrimeStrideInv ==
  ASSUME IInv, NEW s \in Strides, SetPrimeStride(s)
  PROVE  IInv'
  BY DEF SetPrimeStride, IInv, TypeOK, SnapshotsRight, ParkedSound, CallsSound, Mirrored,
         Rested

LEMMA StutterInv ==
  ASSUME IInv, UNCHANGED vars
  PROVE  IInv'
  BY DEF vars, IInv, TypeOK, SnapshotsRight, ParkedSound, CallsSound, CallSound, Mirrored,
         Rested

LEMMA NextInv == IInv /\ [Next]_vars => IInv'
<1> SUFFICES ASSUME IInv, [Next]_vars PROVE IInv'
  OBVIOUS
<1>1. ASSUME NEW a \in Addrs, NEW c \in Contents, NewDictionary(a, c) PROVE IInv'
  BY <1>1, NewDictionaryInv
<1>2. ASSUME NEW a \in Addrs, DropDictionary(a) PROVE IInv'
  BY <1>2, DropDictionaryInv
<1>3. ASSUME NEW t \in Threads, NEW a \in Addrs, NEW p \in Params, Begin(t, a, p) PROVE IInv'
  BY <1>3, BeginInv
<1>4. ASSUME NEW t \in Threads, Step(t) PROVE IInv'
  <2>1. CASE LookupReady(t)
    BY <2>1, LookupReadyInv
  <2>2. CASE LookupBuild(t)
    BY <2>2, LookupBuildInv
  <2>3. CASE LookupFirstSight(t)
    BY <2>3, LookupFirstSightInv
  <2>4. CASE Publish(t)
    BY <2>4, PublishInv
  <2>5. CASE \E f \in Frame, arm \in BOOLEAN : Serve(t, f, arm)
    BY <2>5, ServeInv
  <2>6. CASE ServeError(t)
    BY <2>6, ServeErrorInv
  <2> QED BY <1>4, <2>1, <2>2, <2>3, <2>4, <2>5, <2>6 DEF Step
<1>5. ASSUME NEW s \in Strides, SetPrimeStride(s) PROVE IInv'
  BY <1>5, SetPrimeStrideInv
<1>6. CASE UNCHANGED vars
  BY <1>6, StutterInv
<1> QED BY <1>1, <1>2, <1>3, <1>4, <1>5, <1>6 DEF Next

-----------------------------------------------------------------------------

(***************************************************************************)
(* The inductive invariant of the digest cache holds in every state: every *)
(* working set mirrors its owner's snapshot as long as that dictionary     *)
(* lives, whichever threads look up, build, publish, evict and drop around *)
(* it, and every call's set is the one its dictionary and key ask for      *)
(* before `encode_dict_frame` runs on it.                                  *)
(***************************************************************************)
THEOREM CacheInvariant == Spec => []IInv
<1> QED BY InitInv, NextInv, PTL DEF Spec

\* DictDigests never holds more than DIGEST_SLOTS slots, and every slot, working
\* set and call is of its type.
THEOREM CacheTypeOK == Spec => []TypeOK
<1>1. IInv => TypeOK
  BY DEF IInv
<1> QED BY <1>1, CacheInvariant, PTL

\* Whoever builds a digest and whoever publishes it first, the snapshot kept under
\* a key is the one the key stands for, and no key has two slots, although
\* `lookup` and `publish` are two turns of the lock and others come between.
THEOREM SnapshotsRightHolds == Spec => []SnapshotsRight
<1>1. IInv => SnapshotsRight
  BY DEF IInv
<1> QED BY <1>1, CacheInvariant, PTL

\* A frame served from a digest starts from the tables that priming its dictionary
\* would leave, as long as the finders store where restore_dirty says they do.
THEOREM StartsPrimedHolds == Spec => []StartsPrimed
<1>1. IInv => StartsPrimed
  <2>1. ASSUME IInv, ~stray, NEW t \in Threads, call[t].at = "encode"
        PROVE  /\ call[t].work.tables = Primed(dicts[call[t].dict].content, call[t].key)
               /\ call[t].work.stale = {}
    <3>1. CallSound(t)
      BY <2>1, BusyIsCall DEF IInv, CallsSound
    <3>2. AtRest(call[t].work)
      BY <2>1, <3>1 DEF CallSound, Rested
    <3> QED BY <2>1, <3>1, <3>2 DEF CallSound, Mirrored, AtRest
  <2> QED BY <2>1 DEF StartsPrimed
<1> QED BY <1>1, CacheInvariant, PTL

\* Even if a finder stores where restore_dirty does not look, a set is parked dirty
\* only after a restore that was not compared.
THEOREM StaleOnlyUnsampledHolds == Spec => []StaleOnlyUnsampled
<1>1. IInv => StaleOnlyUnsampled
  BY DEF IInv, ParkedSound, Rested, StaleOnlyUnsampled
<1> QED BY <1>1, CacheInvariant, PTL
=============================================================================
