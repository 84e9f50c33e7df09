------------------------ MODULE CommandLine_proofs ------------------------
(***************************************************************************)
(* Proofs about the files of the command line: for any files, commands and *)
(* number of runs, no step loses the last whole copy of any data unless -f *)
(* was told to write over it, and a first command that ends well has left  *)
(* no file in part.                                                        *)
(*                                                                         *)
(* The inductive invariant follows one file through run_file: what is in   *)
(* memory comes from the file that is named and is as whole as it, what is *)
(* written goes elsewhere, and between `create` and the end of write_all   *)
(* it is in part.                                                          *)
(***************************************************************************)
EXTENDS CommandLine, SequenceTheorems, FiniteSetTheorems,
        WellFoundedInduction, NaturalsInduction, TLAPS

-----------------------------------------------------------------------------
(* collect_paths: what holds of every list of files it may make.  Its fold *)
(* is over subsets of the places of its argument, by their largest member. *)

\* Induction over the naturals, for a set.
LEMMA NatSet ==
  ASSUME NEW S \in SUBSET Nat, 0 \in S, \A n \in S : n + 1 \in S
  PROVE  S = Nat
<1> DEFINE T == Nat \ S
<1>1. SUFFICES ASSUME T # {} PROVE FALSE
  OBVIOUS
<1>2. \E R : IsWellFoundedOn(R, Nat) /\ \A x, y \in Nat : <<y, x>> \in R <=> y < x
  <2> DEFINE R == OpToRel(<, Nat)
  <2>1. IsWellFoundedOn(R, Nat)
    BY NatLessThanWellFounded
  <2>2. \A x, y \in Nat : <<y, x>> \in R <=> y < x
    BY DEF OpToRel
  <2> HIDE DEF R
  <2> QED BY <2>1, <2>2, Zenon
<1>3. PICK R : IsWellFoundedOn(R, Nat) /\ \A x, y \in Nat : <<y, x>> \in R <=> y < x
  BY <1>2, Zenon
<1>4. PICK x \in T : \A y \in T : ~(<<y, x>> \in R)
  BY <1>1, <1>3, WFMin, Zenon
<1>5. x \in Nat \ {0}
  OBVIOUS
<1>6. x - 1 \in Nat /\ x - 1 < x /\ (x - 1) + 1 = x
  BY <1>5
<1>7. <<x - 1, x>> \in R
  BY <1>3, <1>5, <1>6
<1>8. x - 1 \in S
  BY <1>4, <1>6, <1>7
<1> QED BY <1>6, <1>8

LEMMA MaxIs ==
  ASSUME NEW k \in Nat, NEW s \in SUBSET (1..(k + 1)), k + 1 \in s
  PROVE  Max(s) = k + 1 /\ s \ {Max(s)} \in SUBSET (1..k)
<1>1. \A y \in s : k + 1 >= y
  OBVIOUS
<1>2. \A x \in s : (\A y \in s : x >= y) => x = k + 1
  OBVIOUS
<1>3. Max(s) = k + 1
  BY <1>1, <1>2 DEF Max
<1> QED BY <1>3

LEMMA NotMax ==
  ASSUME NEW k \in Nat, NEW s \in SUBSET (1..(k + 1)), k + 1 \notin s
  PROVE  s \in SUBSET (1..k)
  OBVIOUS

LEMMA PushIs ==
  ASSUME NEW lists, NEW p, NEW y
  PROVE  y \in Push(lists, p) <=> \E l \in lists, some \in Walked(p) : y = l \o some
  BY DEF Push

LEMMA PushFrom ==
  \A lists, p : \A y \in Push(lists, p) : \E l \in lists : y \in Push({l}, p)
  BY DEF Push

LEMMA PushOne ==
  \A l, p : \A y \in Push({l}, p) : \E some \in Walked(p) : y = l \o some
  BY DEF Push

\* The equation the fold's function solves.
Unfolds(h, paths, k) ==
    h = [s \in SUBSET (1..k) |->
           IF s = {} THEN {<<>>} ELSE LET x == Max(s) IN Push(h[s \ {x}], paths[x])]

LEMMA FoldSolved ==
  ASSUME NEW paths
  PROVE  \A k \in Nat : \E h : Unfolds(h, paths, k)
<1> DEFINE S == {k \in Nat : \E h : Unfolds(h, paths, k)}
<1>1. 0 \in S
  <2> DEFINE h == [s \in SUBSET (1..0) |-> {<<>>}]
  <2>1. 1..0 = {}
    OBVIOUS
  <2>2. \A s \in SUBSET (1..0) : s = {}
    BY <2>1
  <2>3. Unfolds(h, paths, 0)
    BY <2>2 DEF Unfolds
  <2> QED BY <2>3
<1>2. ASSUME NEW k \in S PROVE k + 1 \in S
  <2>1. k \in Nat /\ k + 1 \in Nat
    OBVIOUS
  <2>2. PICK h : Unfolds(h, paths, k)
    OBVIOUS
  <2> DEFINE g == [s \in SUBSET (1..(k + 1)) |->
                     IF k + 1 \in s THEN Push(h[s \ {k + 1}], paths[k + 1]) ELSE h[s]]
             Eq(s) == g[s] = IF s = {} THEN {<<>>}
                             ELSE LET x == Max(s) IN Push(g[s \ {x}], paths[x])
  <2>3. \A s \in SUBSET (1..k) : g[s] = h[s]
    <3>1. \A s \in SUBSET (1..k) : s \in SUBSET (1..(k + 1)) /\ k + 1 \notin s
      BY <2>1
    <3> QED BY <3>1
  <2>4. ASSUME NEW s \in SUBSET (1..(k + 1)) PROVE Eq(s)
    <3>1. CASE k + 1 \in s
      <4>1. Max(s) = k + 1 /\ s \ {Max(s)} \in SUBSET (1..k)
        BY <2>1, <3>1, MaxIs
      <4>2. g[s] = Push(h[s \ {k + 1}], paths[k + 1])
        BY <3>1
      <4>3. g[s \ {k + 1}] = h[s \ {k + 1}]
        BY <4>1, <2>3
      <4>4. s # {}
        BY <3>1
      <4> HIDE DEF g
      <4> QED BY <4>1, <4>2, <4>3, <4>4
    <3>2. CASE k + 1 \notin s
      <4>1. s \in SUBSET (1..k)
        BY <2>1, <3>2, NotMax
      <4>2. g[s] = h[s]
        BY <2>3, <4>1
      <4>3. h[s] = IF s = {} THEN {<<>>} ELSE LET x == Max(s) IN Push(h[s \ {x}], paths[x])
        BY <2>2, <4>1 DEF Unfolds
      <4>4. \A x : s \ {x} \in SUBSET (1..k)
        BY <4>1
      <4>5. \A x : g[s \ {x}] = h[s \ {x}]
        BY <2>3, <4>4
      <4> HIDE DEF g
      <4> QED BY <4>2, <4>3, <4>5
    <3> QED BY <3>1, <3>2
  <2>5. Unfolds(g, paths, k + 1)
    <3>1. g = [s \in SUBSET (1..(k + 1)) |-> g[s]]
      OBVIOUS
    <3> HIDE DEF g
    <3> QED BY <2>4, <3>1 DEF Unfolds
  <2> QED BY <2>1, <2>5
<1> HIDE DEF S
<1>3. S = Nat
  <2>1. S \in SUBSET Nat
    BY DEF S
  <2> QED BY <1>1, <1>2, <2>1, NatSet
<1> QED BY <1>3 DEF S

LEMMA FoldIn ==
  ASSUME NEW paths, NEW n \in Nat, NEW h, Unfolds(h, paths, n), NEW G,
         <<>> \in G, \A l \in G, i \in 1..n : Push({l}, paths[i]) \subseteq G
  PROVE  h[1..n] \subseteq G
<1> DEFINE S == {k \in Nat : k <= n => \A s \in SUBSET (1..k) : h[s] \subseteq G}
<1>1. \A s \in SUBSET (1..n) :
        h[s] = IF s = {} THEN {<<>>} ELSE LET x == Max(s) IN Push(h[s \ {x}], paths[x])
  BY DEF Unfolds
<1>2. h[{}] \subseteq G
  BY <1>1
<1>3. 0 \in S
  <2>1. \A s \in SUBSET (1..0) : s = {}
    OBVIOUS
  <2> QED BY <1>2, <2>1
<1>4. ASSUME NEW k \in S PROVE k + 1 \in S
  <2>1. k \in Nat /\ k + 1 \in Nat
    OBVIOUS
  <2>2. ASSUME k + 1 <= n, NEW s \in SUBSET (1..(k + 1)) PROVE h[s] \subseteq G
    <3>1. s \in SUBSET (1..n) /\ k <= n
      BY <2>1, <2>2
    <3>2. \A r \in SUBSET (1..k) : h[r] \subseteq G
      BY <3>1
    <3>3. CASE k + 1 \notin s
      BY <2>1, <3>2, <3>3, NotMax
    <3>4. CASE k + 1 \in s
      <4>1. Max(s) = k + 1 /\ s \ {Max(s)} \in SUBSET (1..k)
        BY <2>1, <3>4, MaxIs
      <4>2. h[s] = Push(h[s \ {k + 1}], paths[k + 1])
        BY <1>1, <3>1, <3>4, <4>1
      <4>3. h[s \ {k + 1}] \subseteq G
        BY <3>2, <4>1
      <4>4. k + 1 \in 1..n
        BY <2>1, <2>2
      <4>5. \A l \in h[s \ {k + 1}] : Push({l}, paths[k + 1]) \subseteq G
        BY <4>3, <4>4
      <4>6. ASSUME NEW y \in h[s] PROVE y \in G
        <5>1. y \in Push(h[s \ {k + 1}], paths[k + 1])
          BY <4>2, Zenon
        <5>2. PICK l \in h[s \ {k + 1}] : y \in Push({l}, paths[k + 1])
          BY <5>1, PushFrom, Zenon
        <5> QED BY <4>5, <5>2, Zenon
      <4> QED BY <4>6, Zenon
    <3> QED BY <3>3, <3>4
  <2> QED BY <2>1, <2>2
<1> HIDE DEF S
<1>5. S = Nat
  <2>1. S \in SUBSET Nat
    BY DEF S
  <2> QED BY <1>3, <1>4, <2>1, NatSet
<1>6. n \in S /\ n <= n /\ 1..n \in SUBSET (1..n)
  BY <1>5
<1> QED BY <1>6 DEF S

LEMMA CollectIn ==
  ASSUME NEW T, NEW paths \in Seq(T), NEW G,
         <<>> \in G, \A l \in G, i \in 1..Len(paths) : Push({l}, paths[i]) \subseteq G
  PROVE  CollectPaths(paths) \subseteq G
<1>1. Len(paths) \in Nat /\ DOMAIN paths = 1..Len(paths)
  BY LenProperties
<1>2. CollectPaths(paths)
        = MapThenFoldSet(LAMBDA x, y : Push(y, x), {<<>>}, LAMBDA i : paths[i],
                         LAMBDA X : Max(X), DOMAIN paths)
  BY Zenon DEF CollectPaths, FoldLeft
<1>3. CollectPaths(paths) = (CHOOSE h : Unfolds(h, paths, Len(paths)))[1..Len(paths)]
  BY <1>1, <1>2, Zenon DEF MapThenFoldSet, Unfolds
<1>4. PICK h : h = CHOOSE g : Unfolds(g, paths, Len(paths))
  OBVIOUS
<1>5. Unfolds(h, paths, Len(paths))
  BY <1>1, <1>4, FoldSolved
<1>6. h[1..Len(paths)] \subseteq G
  BY <1>1, <1>5, FoldIn
<1> QED BY <1>3, <1>4, <1>6

LEMMA NamesFinite == IsFiniteSet(Names)
<1> DEFINE S == (Stems \cup {NoStem}) \X (0..MaxZst)
           f == [p \in S |-> [stem |-> p[1], zst |-> p[2]]]
<1>1. IsFiniteSet(0..MaxZst)
  BY NamesAssumption, FS_Interval
<1>2. IsFiniteSet(S)
  BY <1>1, NamesAssumption, FS_Product
<1>3. f \in Surjection(S, Names)
  <2>1. f \in [S -> Names]
    BY DEF Names
  <2>2. ASSUME NEW n \in Names PROVE \E p \in S : f[p] = n
    <3>1. <<n.stem, n.zst>> \in S
      BY DEF Names
    <3>2. f[<<n.stem, n.zst>>] = [stem |-> n.stem, zst |-> n.zst]
      BY <3>1
    <3>3. n = [stem |-> n.stem, zst |-> n.zst]
      BY DEF Names
    <3> QED BY <3>1, <3>2, <3>3
  <2> QED BY <2>1, <2>2 DEF Surjection
<1> QED BY <1>2, <1>3, FS_Surjection

\* Where the files of command c are.
Sources(c) == {n \in Names : c.output # None => n # c.output}

LEMMA CollectSources ==
  ASSUME NEW c \in Commands, c.recursive \/ Dir \notin Range(c.files),
         NEW list \in CollectPaths(c.files)
  PROVE  list \in Seq(Sources(c))
<1> DEFINE G == Seq(Sources(c))
<1>1. /\ c.files \in Seq(Names \cup {Dir})
      /\ c.output # None =>
            c.output \notin Range(c.files) /\ (c.recursive => Dir \notin Range(c.files))
  BY CommandsAssumption
<1>2. \A i \in 1..Len(c.files) : c.files[i] \in Names \cup {Dir} /\ c.files[i] \in Range(c.files)
  BY <1>1, LenProperties, ElementOfSeq DEF Range
<1>3. ASSUME NEW i \in 1..Len(c.files), NEW some \in Walked(c.files[i])
      PROVE  some \in G
  <2>1. CASE c.files[i] = Dir
    <3>1. c.output = None
      BY <1>1, <1>2, <2>1
    <3>2. Present \in SUBSET Sources(c)
      BY <3>1 DEF Present, Sources
    <3>3. Cardinality(Present) \in Nat
      <4>1. Present \in SUBSET Names
        BY DEF Present
      <4>2. IsFiniteSet(Present)
        BY <4>1, NamesFinite, FS_Subset
      <4> QED BY <4>2, FS_CardinalityType
    <3>4. some \in SetToSeqs(Present)
      BY <1>3, <2>1 DEF Walked
    <3>5. some \in [1..Cardinality(Present) -> Present]
      BY <3>4 DEF SetToSeqs
    <3>6. some \in [1..Cardinality(Present) -> Sources(c)]
      BY <3>2, <3>5
    <3> QED BY <3>3, <3>6, SeqDef
  <2>2. CASE c.files[i] # Dir
    <3>1. c.files[i] \in Sources(c)
      BY <1>1, <1>2, <2>2 DEF Sources
    <3>2. some = <<c.files[i]>>
      BY <1>3, <2>2 DEF Walked
    <3> QED BY <3>1, <3>2
  <2> QED BY <2>1, <2>2
<1>4. ASSUME NEW l \in G, NEW i \in 1..Len(c.files), NEW y \in Push({l}, c.files[i])
      PROVE  y \in G
  <2>0. PICK p : p = c.files[i]
    OBVIOUS
  <2>1. PICK some \in Walked(c.files[i]) : y = l \o some
    <3>1. y \in Push({l}, p)
      BY <1>4, <2>0
    <3>2. \E some \in Walked(p) : y = l \o some
      <4> HIDE DEF G
      <4> QED BY <3>1, PushOne
    <3> QED BY <2>0, <3>2
  <2>2. some \in G
    BY <1>3
  <2> HIDE DEF G
  <2> QED BY <2>1, <2>2, ConcatProperties DEF G
<1>5. <<>> \in G
  BY EmptySeq
<1> HIDE DEF G
<1>6. CollectPaths(c.files) \subseteq G
  BY <1>1, <1>4, <1>5, CollectIn
<1> QED BY <1>6 DEF G

-----------------------------------------------------------------------------
(* The contents of files. *)

LEMMA ContentIs ==
  ASSUME NEW c \in Content
  PROVE  /\ c # None
         /\ Compressed(c) \in Content
         /\ Compressed(c).data = c.data
         /\ Whole(c) => Whole(Compressed(c))
         /\ Torn(c) \in Content
         /\ ~Whole(Torn(c))
<1>1. c.layers \in Nat /\ c.torn \subseteq 0..c.layers
  BY DEF Content
<1>2. Compressed(c) \in Content
  BY <1>1 DEF Compressed, Content
<1>3. Compressed(c).data = c.data /\ Compressed(c).torn = c.torn
  BY DEF Compressed, Content
<1>4. Torn(c) \in Content /\ Torn(c).torn = c.torn \cup {c.layers}
  <2>1. c.torn \cup {c.layers} \subseteq 0..c.layers
    BY <1>1
  <2> QED BY <1>1, <2>1 DEF Torn, Content
<1> QED BY <1>2, <1>3, <1>4, DisksAssumption DEF Whole

LEMMA DecompressedIs ==
  ASSUME NEW c \in Content, NEW x \in Decompressed(c), x # None
  PROVE  /\ x \in Content
         /\ x.data = c.data
         /\ Whole(c) => Whole(x)
<1>1. c.layers \in Nat /\ c.torn \subseteq 0..c.layers
  BY DEF Content
<1>2. PICK inner : inner = [c EXCEPT !.layers = @ - 1, !.torn = @ \ {c.layers}]
  OBVIOUS
<1>3. /\ c.layers # 0
      /\ x \in IF c.layers \in c.torn THEN {None, Torn(inner)} ELSE {inner}
  BY <1>2 DEF Decompressed
<1>4. /\ inner \in Content /\ inner.data = c.data
      /\ inner.torn = c.torn \ {c.layers} /\ inner.layers = c.layers - 1
  <2>1. c.layers - 1 \in Nat /\ c.torn \ {c.layers} \subseteq 0..(c.layers - 1)
    BY <1>1, <1>3
  <2> QED BY <1>1, <1>2, <2>1 DEF Content
<1>5. CASE c.layers \in c.torn
  <2>1. x = Torn(inner)
    BY <1>3, <1>5
  <2>2. x \in Content /\ x.data = inner.data
    BY <1>4, <2>1, ContentIs DEF Torn, Content
  <2> QED BY <1>4, <1>5, <2>2 DEF Whole
<1>6. CASE c.layers \notin c.torn
  BY <1>3, <1>4, <1>6 DEF Whole
<1> QED BY <1>5, <1>6

-----------------------------------------------------------------------------
(* The inductive invariant. *)

Typed ==
    /\ disk \in [Names -> Content \cup {None}]
    /\ files \in Seq(Names)
    /\ at \in 1..(Len(files) + 1)
    /\ pc \in {"idle", "read", "create", "fill", "remove"}
    /\ status \in {"none", "running", "ok", "error", "killed"}
    /\ runs \in Nat

\* The file worked on exists, and is not where the command's -o goes.
Working ==
    pc # "idle" =>
        /\ runs # 0
        /\ at <= Len(files)
        /\ args.output # None => \A i \in 1..Len(files) : files[i] # args.output

\* What is in memory comes from the file, and goes elsewhere.
Buffered ==
    pc \in {"create", "fill", "remove"} =>
        /\ buf \in Content
        /\ disk[File] # None
        /\ buf.data = disk[File].data
        /\ Whole(disk[File]) => Whole(buf)
        /\ Out # File

Written ==
    /\ pc \in {"fill", "remove"} => Out \in Names
    /\ pc = "fill" => disk[Out] = Torn(buf)
    /\ pc = "remove" => disk[Out] = buf

\* Until the first command has ended, only what it is writing is in part.
FirstWhole ==
    runs = 0 \/ (runs = 1 /\ pc # "idle") \/ (runs = 1 /\ pc = "idle" /\ status = "ok") =>
        \A n \in Names : disk[n] # None /\ ~(pc = "fill" /\ n = Out) => Whole(disk[n])

IInv == Typed /\ Working /\ Buffered /\ Written /\ FirstWhole

LEMMA WorkingFile ==
  ASSUME Typed, Working, pc # "idle"
  PROVE  /\ File \in Names
         /\ args.output # None => File # args.output
         /\ Len(files) \in Nat /\ at \in Nat /\ at \in 1..Len(files)
<1>1. Len(files) \in Nat
  BY LenProperties DEF Typed
<1>2. at \in 1..Len(files)
  BY <1>1 DEF Typed, Working
<1> QED BY <1>1, <1>2, ElementOfSeq DEF Typed, Working, File

LEMMA SameFile ==
  ASSUME UNCHANGED <<args, files, at>>
  PROVE  File' = File /\ Out' = Out
  BY DEF File, Out, StripZst

LEMMA OutElsewhere ==
  ASSUME Typed, Working, pc # "idle", Out # None
  PROVE  Out # File
<1>1. File \in Names /\ (args.output # None => File # args.output)
  BY WorkingFile
<1>2. File.zst \in Nat
  BY <1>1, NamesAssumption DEF Names
<1>3. CASE args.output # None
  BY <1>1, <1>3 DEF Out
<1>4. CASE args.output = None /\ args.mode = "compress"
  <2>1. Out.zst = File.zst + 1
    BY <1>1, <1>4 DEF Out, Names
  <2> QED BY <1>2, <2>1
<1>5. CASE args.output = None /\ args.mode # "compress"
  <2>1. Out = [File EXCEPT !.zst = @ - 1]
    BY <1>5 DEF Out, StripZst
  <2>2. Out.zst = File.zst - 1
    BY <1>1, <2>1 DEF Names
  <2> QED BY <1>2, <2>2
<1> QED BY <1>3, <1>4, <1>5

LEMMA InitInv == Init => IInv
<1> SUFFICES ASSUME Init PROVE IInv
  OBVIOUS
<1>1. disk \in [Names -> Content \cup {None}] /\ \A n \in Names : disk[n] # None => Whole(disk[n])
  BY DisksAssumption DEF Init
<1>2. Typed
  <2>1. files = <<>> /\ <<>> \in Seq(Names) /\ Len(<<>>) = 0
    BY EmptySeq DEF Init
  <2>2. at \in 1..(Len(files) + 1)
    BY <2>1 DEF Init
  <2> QED BY <1>1, <2>1, <2>2 DEF Init, Typed
<1> QED BY <1>1, <1>2 DEF IInv, Init, Working, Buffered, Written, FirstWhole

-----------------------------------------------------------------------------
(* One lemma for each action. *)

LEMMA RunInv ==
  ASSUME IInv, Run
  PROVE  IInv'
<1>1. PICK c \in Commands :
        /\ args' = c
        /\ IF ~c.recursive /\ Dir \in Range(c.files)
           THEN files' = <<>> /\ Exit("error")
           ELSE /\ files' \in CollectPaths(c.files)
                /\ IF files' = <<>> THEN Exit("ok")
                   ELSE IF c.output # None /\ Len(files') > 1 THEN Exit("error")
                   ELSE pc' = "read" /\ status' = "running"
  BY DEF Run
<1>2. runs' = runs + 1 /\ at' = 1 /\ UNCHANGED <<disk, buf, given_up>> /\ pc = "idle"
  BY DEF Run
<1>3. files' \in Seq(Sources(c))
  <2>1. CASE ~c.recursive /\ Dir \in Range(c.files)
    BY <1>1, <2>1, EmptySeq
  <2>2. CASE ~(~c.recursive /\ Dir \in Range(c.files))
    <3>1. files' \in CollectPaths(c.files) /\ (c.recursive \/ Dir \notin Range(c.files))
      <4>1. (c.recursive \/ Dir \notin Range(c.files))
        BY <2>2
      <4>2. files' \in CollectPaths(c.files)
        BY <1>1, <2>2
      <4> QED BY <4>1, <4>2
    <3> QED BY <3>1, CollectSources
  <2> QED BY <2>1, <2>2
<1>4. Len(files') \in Nat /\ (files' # <<>> => Len(files') # 0)
  BY <1>3, EmptySeq, LenProperties
<1>5. files' \in Seq(Names)
  <2>1. Sources(c) \subseteq Names
    BY DEF Sources
  <2> QED BY <1>3, <2>1, SeqMonotonic
<1>6. \A i \in 1..Len(files') : c.output # None => files'[i] # c.output
  <2>1. \A i \in 1..Len(files') : files'[i] \in Sources(c)
    BY <1>3, ElementOfSeq
  <2> QED BY <2>1 DEF Sources
<1>7. pc' \in {"idle", "read"} /\ status' \in {"running", "ok", "error"}
        /\ (pc' # "idle" => files' # <<>>)
  BY <1>1 DEF Exit
<1>8. Typed'
  BY <1>2, <1>4, <1>5, <1>7 DEF IInv, Typed
<1>9. Working'
  BY <1>1, <1>2, <1>4, <1>6, <1>7 DEF IInv, Typed, Working
<1>10. Buffered' /\ Written'
  BY <1>7 DEF Buffered, Written
<1>11. FirstWhole'
  <2>1. SUFFICES ASSUME runs' = 0 \/ runs' = 1
                 PROVE  \A n \in Names : disk'[n] # None => Whole(disk'[n])
    BY DEF FirstWhole
  <2>2. runs = 0
    BY <1>2, <2>1 DEF IInv, Typed
  <2> QED BY <1>2, <2>2 DEF IInv, FirstWhole
<1> QED BY <1>8, <1>9, <1>10, <1>11 DEF IInv

\* A step that leaves the disk alone and ends the work on the file, or the command.
LEMMA EndFile ==
  ASSUME IInv, pc # "idle", NextFile \/ Fails, UNCHANGED <<disk, args, files, runs>>,
         runs = 1 /\ NextFile => \A n \in Names : disk[n] # None => Whole(disk[n])
  PROVE  IInv'
<1>1. Len(files) \in Nat /\ at \in Nat /\ at \in 1..Len(files)
  BY WorkingFile DEF IInv
<1>2. /\ pc' \in {"idle", "read"} /\ status' \in {"none", "running", "ok", "error", "killed"}
      /\ at' \in 1..(Len(files) + 1)
      /\ pc' # "idle" => at' <= Len(files)
  <2>1. CASE NextFile
    BY <1>1, <2>1 DEF NextFile, Exit, IInv, Typed
  <2>2. CASE Fails
    BY <1>1, <2>2 DEF Fails, Exit
  <2> QED BY <2>1, <2>2
<1>3. Typed' /\ Working'
  BY <1>1, <1>2 DEF IInv, Typed, Working
<1>4. Buffered' /\ Written'
  BY <1>2 DEF Buffered, Written
<1>5. FirstWhole'
  <2>1. CASE NextFile
    BY <1>1, <1>2, <2>1 DEF IInv, Typed, Working, FirstWhole
  <2>2. CASE Fails
    BY <1>1, <2>2 DEF Fails, Exit, IInv, Typed, Working, FirstWhole
  <2> QED BY <2>1, <2>2
<1> QED BY <1>3, <1>4, <1>5 DEF IInv

LEMMA ReadFileInv ==
  ASSUME IInv, ReadFile
  PROVE  IInv'
<1>1. pc = "read" /\ UNCHANGED <<disk, args, files, runs, given_up>>
  BY DEF ReadFile
<1>2. runs = 1 => \A n \in Names : disk[n] # None => Whole(disk[n])
  BY <1>1 DEF IInv, FirstWhole
<1>3. CASE NextFile \/ Fails
  BY <1>1, <1>2, <1>3, EndFile
<1>4. CASE ~(NextFile \/ Fails)
  <2>1. /\ disk[File] # None
        /\ buf' \in {None} \cup IF args.mode = "compress" THEN {Compressed(disk[File])}
                                ELSE Decompressed(disk[File])
        /\ buf' # None /\ Out # None
        /\ pc' = "create" /\ UNCHANGED <<at, status>>
    BY <1>4 DEF ReadFile
  <2>2. File \in Names /\ at \in 1..Len(files) /\ Len(files) \in Nat
    BY <1>1, WorkingFile DEF IInv
  <2>3. disk[File] \in Content
    BY <2>1, <2>2 DEF IInv, Typed
  <2>4. buf' \in Content /\ buf'.data = disk[File].data /\ (Whole(disk[File]) => Whole(buf'))
    <3>1. CASE args.mode = "compress"
      <4>1. buf' = Compressed(disk[File])
        BY <2>1, <3>1
      <4> QED BY <2>3, <4>1, ContentIs
    <3>2. CASE args.mode # "compress"
      <4>1. buf' \in Decompressed(disk[File])
        BY <2>1, <3>2
      <4> QED BY <2>1, <2>3, <4>1, DecompressedIs
    <3> QED BY <3>1, <3>2
  <2>5. Out # File
    BY <1>1, <2>1, OutElsewhere DEF IInv
  <2>6. File' = File /\ Out' = Out
    BY <1>1, <2>1, SameFile
  <2>7. Typed' /\ Working'
    BY <1>1, <2>1 DEF IInv, Typed, Working
  <2>8. Buffered' /\ Written'
    BY <1>1, <2>1, <2>4, <2>5, <2>6 DEF Buffered, Written, Whole
  <2>9. FirstWhole'
    BY <1>1, <2>1 DEF IInv, FirstWhole
  <2> QED BY <2>7, <2>8, <2>9 DEF IInv
<1> QED BY <1>3, <1>4

LEMMA CreateInv ==
  ASSUME IInv, Create
  PROVE  IInv'
<1>1. pc = "create" /\ UNCHANGED <<args, files, buf, runs>>
  BY DEF Create
<1>2. CASE Fails /\ UNCHANGED <<disk, given_up>>
  <2>1. runs = 1 => \A n \in Names : disk[n] # None => Whole(disk[n])
    BY <1>1 DEF IInv, FirstWhole
  <2> QED BY <1>1, <1>2, <2>1, EndFile
<1>3. CASE ~(Fails /\ UNCHANGED <<disk, given_up>>)
  <2>1. /\ Out \in Names /\ disk' = [disk EXCEPT ![Out] = Torn(buf)]
        /\ pc' = "fill" /\ UNCHANGED <<at, status>>
    BY <1>3 DEF Create
  <2>2. File \in Names
    BY <1>1, WorkingFile DEF IInv
  <2>3. File' = File /\ Out' = Out
    BY <1>1, <2>1, SameFile
  <2>4. buf \in Content /\ disk[File] # None /\ buf.data = disk[File].data
          /\ (Whole(disk[File]) => Whole(buf)) /\ Out # File
    BY <1>1 DEF IInv, Buffered
  <2>5. Torn(buf) \in Content
    BY <2>4, ContentIs
  <2>6. \A n \in Names : disk'[n] = IF n = Out THEN Torn(buf) ELSE disk[n]
    BY <2>1 DEF IInv, Typed
  <2>7. Typed' /\ Working'
    BY <1>1, <2>1, <2>5 DEF IInv, Typed, Working
  <2>8. disk'[File] = disk[File] /\ disk'[Out] = Torn(buf)
    BY <2>1, <2>2, <2>4, <2>6
  <2>9. Buffered' /\ Written'
    BY <1>1, <2>1, <2>3, <2>4, <2>8 DEF Buffered, Written
  <2>10. FirstWhole'
    BY <1>1, <2>1, <2>3, <2>6 DEF IInv, FirstWhole
  <2> QED BY <2>7, <2>9, <2>10 DEF IInv
<1> QED BY <1>2, <1>3

LEMMA FillInv ==
  ASSUME IInv, Fill
  PROVE  IInv'
<1>1. pc = "fill" /\ UNCHANGED <<args, files, buf, runs>>
  BY DEF Fill
<1>2. /\ buf \in Content /\ disk[File] # None /\ buf.data = disk[File].data
      /\ Whole(disk[File]) => Whole(buf)
      /\ Out # File /\ Out \in Names /\ File \in Names
      /\ Len(files) \in Nat /\ at \in Nat /\ at \in 1..Len(files)
  BY <1>1, WorkingFile DEF IInv, Buffered, Written
<1>3. CASE Fails /\ UNCHANGED <<disk, given_up>>
  <2>1. pc' = "idle" /\ status' = "error" /\ at' = at
    BY <1>3 DEF Fails, Exit
  <2> QED BY <1>1, <1>2, <1>3, <2>1
          DEF IInv, Typed, Working, Buffered, Written, FirstWhole
<1>4. CASE disk' = [disk EXCEPT ![Out] = buf] /\ AfterWrite
  <2>1. \A n \in Names : disk'[n] = IF n = Out THEN buf ELSE disk[n]
    BY <1>2, <1>4 DEF IInv, Typed
  <2>2. disk' \in [Names -> Content \cup {None}]
    BY <1>2, <1>4 DEF IInv, Typed
  <2>3. runs = 1 => \A n \in Names : disk'[n] # None => Whole(disk'[n])
    <3>1. SUFFICES ASSUME runs = 1, NEW n \in Names, disk'[n] # None PROVE Whole(disk'[n])
      OBVIOUS
    <3>2. Whole(disk[File])
      BY <1>1, <1>2, <3>1 DEF IInv, FirstWhole
    <3>3. CASE n = Out
      BY <1>2, <2>1, <3>2, <3>3
    <3>4. CASE n # Out
      BY <1>1, <2>1, <3>1, <3>4 DEF IInv, FirstWhole
    <3> QED BY <3>3, <3>4
  <2>4. CASE NextFile
    <3>1. /\ pc' \in {"idle", "read"} /\ status' \in {"none", "running", "ok", "error", "killed"}
          /\ at' \in 1..(Len(files) + 1)
          /\ pc' # "idle" => at' <= Len(files)
      BY <1>2, <2>4 DEF NextFile, Exit, IInv, Typed
    <3>2. Typed' /\ Working'
      BY <1>1, <1>2, <2>2, <3>1 DEF IInv, Typed, Working
    <3>3. Buffered' /\ Written'
      BY <3>1 DEF Buffered, Written
    <3>4. FirstWhole'
      BY <1>1, <2>3 DEF IInv, Working, FirstWhole
    <3> QED BY <3>2, <3>3, <3>4 DEF IInv
  <2>5. CASE pc' = "remove" /\ UNCHANGED <<at, status>>
    <3>1. File' = File /\ Out' = Out
      BY <1>1, <2>5, SameFile
    <3>2. disk'[File] = disk[File] /\ disk'[Out] = buf
      BY <1>2, <2>1
    <3>3. Typed' /\ Working'
      BY <1>1, <2>2, <2>5 DEF IInv, Typed, Working
    <3>4. Buffered' /\ Written'
      BY <1>1, <1>2, <2>5, <3>1, <3>2 DEF Buffered, Written
    <3>5. FirstWhole'
      BY <1>1, <2>3 DEF IInv, Working, FirstWhole
    <3> QED BY <3>3, <3>4, <3>5 DEF IInv
  <2> QED BY <1>4, <2>4, <2>5 DEF AfterWrite
<1> QED BY <1>3, <1>4 DEF Fill

LEMMA RemoveSourceInv ==
  ASSUME IInv, RemoveSource
  PROVE  IInv'
<1>1. pc = "remove" /\ UNCHANGED <<args, files, buf, runs, given_up>>
  BY DEF RemoveSource
<1>2. File \in Names /\ Len(files) \in Nat /\ at \in Nat /\ at \in 1..Len(files)
  BY <1>1, WorkingFile DEF IInv
<1>3. CASE Fails /\ UNCHANGED disk
  <2>1. runs = 1 => \A n \in Names : disk[n] # None => Whole(disk[n])
    BY <1>1 DEF IInv, FirstWhole
  <2> QED BY <1>1, <1>3, <2>1, EndFile
<1>4. CASE disk' = [disk EXCEPT ![File] = None] /\ NextFile
  <2>1. \A n \in Names : disk'[n] = IF n = File THEN None ELSE disk[n]
    BY <1>2, <1>4 DEF IInv, Typed
  <2>2. disk' \in [Names -> Content \cup {None}]
    BY <1>2, <1>4 DEF IInv, Typed
  <2>3. /\ pc' \in {"idle", "read"} /\ status' \in {"none", "running", "ok", "error", "killed"}
        /\ at' \in 1..(Len(files) + 1)
        /\ pc' # "idle" => at' <= Len(files)
    BY <1>2, <1>4 DEF NextFile, Exit, IInv, Typed
  <2>4. Typed' /\ Working'
    BY <1>1, <1>2, <2>2, <2>3 DEF IInv, Typed, Working
  <2>5. Buffered' /\ Written'
    BY <2>3 DEF Buffered, Written
  <2>6. FirstWhole'
    BY <1>1, <2>1 DEF IInv, Working, FirstWhole
  <2> QED BY <2>4, <2>5, <2>6 DEF IInv
<1> QED BY <1>3, <1>4 DEF RemoveSource

LEMMA KilledInv ==
  ASSUME IInv, Killed
  PROVE  IInv'
<1>1. /\ pc # "idle" /\ pc' = "idle" /\ status' = "killed"
      /\ UNCHANGED <<disk, args, files, at, buf, runs, given_up>>
  BY DEF Killed, Exit
<1> QED BY <1>1 DEF IInv, Typed, Working, Buffered, Written, FirstWhole

LEMMA NextInv == IInv /\ [Next]_vars => IInv'
<1> SUFFICES ASSUME IInv, [Next]_vars PROVE IInv'
  OBVIOUS
<1>1. CASE UNCHANGED vars
  <2>1. File' = File /\ Out' = Out
    BY <1>1, SameFile DEF vars
  <2> QED BY <1>1, <2>1 DEF vars, IInv, Typed, Working, Buffered, Written, FirstWhole
<1> QED BY <1>1, RunInv, ReadFileInv, CreateInv, FillInv, RemoveSourceInv, KilledInv DEF Next

(***************************************************************************)
(* What is in memory while a file is worked on comes from that file and is *)
(* as whole as it; it is written somewhere else, and what is there is in   *)
(* part exactly between `File::create` and the end of `write_all`.         *)
(***************************************************************************)
THEOREM FilesInvariant == Spec => []IInv
<1> QED BY InitInv, NextInv, PTL DEF Spec

\* The file worked on is one of the command's, and what is missing of a file is
\* missing from layers it has.
THEOREM FilesTypeOK == Spec => []TypeOK
<1>1. IInv => TypeOK
  <2>1. ASSUME IInv, NEW n \in Present PROVE disk[n].torn \subseteq 0..disk[n].layers
    <3>1. disk[n] \in Content
      BY <2>1 DEF IInv, Typed, Present
    <3> QED BY <3>1 DEF Content
  <2> QED BY <2>1 DEF IInv, Typed, TypeOK
<1> QED BY <1>1, FilesInvariant, PTL

\* A first command that ends well has written in full all it wrote, however many
\* files it had and wherever they came from.
THEOREM OkLeavesNoPartHolds == Spec => []OkLeavesNoPart
<1>1. IInv => OkLeavesNoPart
  BY DEF IInv, FirstWhole, OkLeavesNoPart, Present
<1> QED BY <1>1, FilesInvariant, PTL

(***************************************************************************)
(* No step of any command, not its failures nor a kill, loses the last     *)
(* whole copy of any data, unless -f told it to write over that copy:      *)
(* --rm comes after write_all, and then the result holds what the source   *)
(* held.                                                                   *)
(***************************************************************************)
THEOREM NothingLostHolds == Spec => NothingLost
<1> DEFINE Kept == \A d \in AllData(disk) : Holds(disk, d) => Holds(disk', d) \/ d \in given_up'
<1>1. ASSUME IInv, Next PROVE Kept
  <2>1. SUFFICES ASSUME NEW d, NEW n \in Names, disk[n] # None, disk[n].data = d,
                        Whole(disk[n]), disk' # disk
                 PROVE  Holds(disk', d) \/ d \in given_up'
    BY DEF Holds
  <2>2. disk \in [Names -> Content \cup {None}]
    BY <1>1 DEF IInv, Typed
  <2>3. CASE Create
    <3>1. /\ pc = "create" /\ Out \in Names /\ disk' = [disk EXCEPT ![Out] = Torn(buf)]
          /\ given_up' = IF Out \in Present /\ ~Holds(disk', disk[Out].data)
                         THEN given_up \cup {disk[Out].data} ELSE given_up
      BY <2>1, <2>3 DEF Create
    <3>2. CASE n = Out
      <4>1. Out \in Present
        BY <2>1, <3>2 DEF Present
      <4> QED BY <2>1, <3>1, <3>2, <4>1
    <3>3. CASE n # Out
      <4>1. disk'[n] = disk[n]
        BY <2>2, <3>1, <3>3
      <4> QED BY <2>1, <4>1 DEF Holds
    <3> QED BY <3>2, <3>3
  <2>4. CASE Fill
    <3>1. pc = "fill" /\ disk' = [disk EXCEPT ![Out] = buf]
      BY <2>1, <2>4 DEF Fill
    <3>2. disk[Out] = Torn(buf) /\ buf \in Content
      BY <1>1, <3>1 DEF IInv, Written, Buffered
    <3>3. n # Out
      BY <2>1, <3>2, ContentIs
    <3>4. disk'[n] = disk[n]
      BY <2>2, <3>1, <3>3
    <3> QED BY <2>1, <3>4 DEF Holds
  <2>5. CASE RemoveSource
    <3>1. pc = "remove" /\ disk' = [disk EXCEPT ![File] = None]
      BY <2>1, <2>5 DEF RemoveSource
    <3>2. /\ buf \in Content /\ buf.data = disk[File].data
          /\ Whole(disk[File]) => Whole(buf)
          /\ Out # File /\ Out \in Names /\ disk[Out] = buf
      BY <1>1, <3>1 DEF IInv, Written, Buffered
    <3>3. CASE n = File
      <4>1. disk'[Out] = buf
        BY <2>2, <3>1, <3>2
      <4>2. buf # None /\ buf.data = d /\ Whole(buf)
        BY <2>1, <3>2, <3>3, ContentIs
      <4> QED BY <3>2, <4>1, <4>2 DEF Holds
    <3>4. CASE n # File
      <4>1. disk'[n] = disk[n]
        BY <2>2, <3>1, <3>4
      <4> QED BY <2>1, <4>1 DEF Holds
    <3> QED BY <3>3, <3>4
  <2>6. CASE Run \/ ReadFile \/ Killed
    BY <2>1, <2>6 DEF Run, ReadFile, Killed
  <2> QED BY <1>1, <2>3, <2>4, <2>5, <2>6 DEF Next
<1>2. IInv /\ [Next]_vars => [Kept]_vars
  BY <1>1
<1> QED BY <1>2, FilesInvariant, PTL DEF Spec, NothingLost
=============================================================================
