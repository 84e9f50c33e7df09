---------------------------- MODULE MtJobs_proofs ----------------------------
(***************************************************************************)
(* What MtJobs promises for every source, number of workers, job size and  *)
(* set of failing ranges: the ranges tile the source, each is encoded once *)
(* in every schedule, and a success is the sequential output.              *)
(***************************************************************************)
EXTENDS MtJobs, TLAPS, WellFoundedInduction

-----------------------------------------------------------------------------
(* Lengths and cuts *)

LEMMA PowerOfTwo ==
  ASSUME NEW k \in 0..8
  PROVE  2^k \in Nat \ {0}
<1>1. /\ 2^0 = 1 /\ 2^1 = 2 /\ 2^2 = 4
  OBVIOUS
<1>2. /\ 2^3 = 8 /\ 2^4 = 16 /\ 2^5 = 32
  OBVIOUS
<1>3. /\ 2^6 = 64 /\ 2^7 = 128 /\ 2^8 = 256
  OBVIOUS
<1>4. {1, 2, 4, 8, 16, 32, 64, 128, 256} \subseteq Nat \ {0}
  OBVIOUS
<1>5. k \in {0, 1, 2} \/ k \in {3, 4, 5} \/ k \in {6, 7, 8}
  OBVIOUS
<1>6. 2^k \in {1, 2, 4, 8, 16, 32, 64, 128, 256}
  <2>1. CASE k \in {0, 1, 2}
    <3>1. 2^k \in {1, 2, 4}
      BY <1>1, <2>1, Zenon
    <3> QED BY <3>1, Zenon
  <2>2. CASE k \in {3, 4, 5}
    <3>1. 2^k \in {8, 16, 32}
      BY <1>2, <2>2, Zenon
    <3> QED BY <3>1, Zenon
  <2>3. CASE k \in {6, 7, 8}
    <3>1. CASE k = 6
      BY <1>3, <3>1, Zenon
    <3>2. CASE k = 7
      BY <1>3, <3>2, Zenon
    <3>3. CASE k = 8
      BY <1>3, <3>3, Zenon
    <3> QED BY <2>3, <3>1, <3>2, <3>3
  <2> QED BY <1>5, <2>1, <2>2, <2>3, Zenon
<1> QED
  BY <1>4, <1>6, Zenon

LEMMA OverlapIsNat ==
  ASSUME NEW w \in Nat, NEW log \in 0..9, NEW optimal \in BOOLEAN
  PROVE  OverlapSize(w, log, optimal) \in Nat
<1> DEFINE ov == IF log = 0 THEN DefaultOverlapLog(optimal) ELSE Least(log, 9)
<1>1. ov \in 0..9
  BY DEF DefaultOverlapLog, Least
<1>2. CASE ov <= 1
  BY <1>2 DEF OverlapSize
<1>3. CASE ~(ov <= 1)
  <2> HIDE DEF ov
  <2>1. 9 - ov \in 0..8
    BY <1>1, <1>3
  <2> DEFINE d == 2^(9 - ov)
  <2>2. d \in Nat \ {0}
    BY <2>1, PowerOfTwo
  <2>3. w \div d \in Nat
    <3> HIDE DEF d
    <3> QED BY <2>2
  <2>4. OverlapSize(w, log, optimal) = w \div d
    BY <1>3 DEF OverlapSize, ov
  <2> QED BY <2>3, <2>4
<1> QED BY <1>2, <1>3

\* A job holds at least the minimum.
LEMMA JobSizeBound ==
  ASSUME config \in Calls
  PROVE  JobSize \in Nat /\ JobSize >= JobSizeMin /\ JobSize >= 1
<1>1. config \in Call
  BY MtAssumption
<1>2. Overlap \in Nat
  BY <1>1, MtAssumption, OverlapIsNat DEF Overlap, Call
<1>3. config.job_size \in Nat
  BY <1>1 DEF Call
<1> QED
  BY <1>2, <1>3, MtAssumption, SectionsAssumption DEF JobSize, ResolveJobSize, Greatest

\* A set of naturals has a least element.
LEMMA LeastNatural ==
  ASSUME NEW T \in SUBSET Nat, T # {}
  PROVE  \E q \in T : \A r \in T : q <= r
<1> DEFINE R == OpToRel(<, Nat)
<1>1. \A i, j \in Nat : <<i, j>> \in R <=> i < j
  BY DEF OpToRel
<1>2. IsWellFoundedOn(R, Nat)
  BY NatLessThanWellFounded
<1> HIDE DEF R
<1>3. PICK q \in T : \A r \in T : ~(<<r, q>> \in R)
  BY <1>2, WFMin
<1> SUFFICES ASSUME NEW r \in T
             PROVE  q <= r
  OBVIOUS
<1>4. q \in Nat /\ r \in Nat
  OBVIOUS
<1>5. ~(r < q)
  BY <1>1, <1>3, <1>4
<1> QED BY <1>4, <1>5

\* A section is not empty, not too long, and too short only at the source's end.
LEMMA SectionEndBounds ==
  ASSUME NEW hits \in SUBSET Nat, NEW len \in Nat, NEW start \in Nat,
         NEW max_len \in Nat, start < len
  PROVE  LET e == SectionEnd(hits, len, start, max_len)
         IN /\ e \in Nat /\ start < e /\ e <= len
            /\ e - start <= Greatest(max_len, RsyncMin)
            /\ e = len \/ e - start >= RsyncMin
<1> DEFINE m    == Greatest(max_len, RsyncMin)
           cap  == Least(start + m, len)
           sync == SyncPoints(hits, start + RsyncMin - 1, cap)
           e    == SectionEnd(hits, len, start, max_len)
<1>1. m \in Nat /\ m >= RsyncMin /\ RsyncMin \in Nat /\ RsyncMin >= 1
  BY SectionsAssumption DEF Greatest
<1>2. /\ cap \in Nat /\ start < cap /\ cap <= len /\ cap - start <= m
      /\ cap = len \/ cap - start = m
  <2> HIDE DEF m
  <2> QED BY <1>1 DEF Least
<1>3. CASE sync = {}
  <2>1. e = cap
    BY <1>3 DEF SectionEnd
  <2> HIDE DEF m, cap, sync, e
  <2>2. /\ e \in Nat /\ start < e /\ e <= len /\ e - start <= m
        /\ e = len \/ e - start >= RsyncMin
    BY <2>1, <1>1, <1>2
  <2> QED BY <2>2 DEF m, e
<1>4. CASE sync # {}
  <2>1. e = CHOOSE q \in sync : \A r \in sync : q <= r
    BY <1>4 DEF SectionEnd
  <2>2. \A q \in sync : q \in Nat /\ q >= start + RsyncMin /\ q <= cap
    <3> HIDE DEF m, cap
    <3> QED BY <1>1, <1>2 DEF SyncPoints
  <2>3. \E q \in sync : \A r \in sync : q <= r
    <3> HIDE DEF sync
    <3>1. sync \subseteq Nat
      BY <2>2
    <3> QED BY <3>1, <1>4, LeastNatural
  <2>4. e \in sync
    <3> HIDE DEF sync, e
    <3> QED BY <2>1, <2>3
  <2> HIDE DEF m, cap, sync, e
  <2>5. e \in Nat /\ e >= start + RsyncMin /\ e <= cap
    BY <2>2, <2>4
  <2>6. /\ start < e /\ e <= len /\ e - start <= m /\ e - start >= RsyncMin
    BY <2>5, <1>1, <1>2
  <2> QED BY <2>5, <2>6 DEF m, e
<1> QED BY <1>3, <1>4

\* The next range of the loop that cuts.
LEMMA RangeEndBounds ==
  ASSUME config \in Calls, off \in Nat, off < config.len
  PROVE  /\ RangeEnd \in Nat /\ off < RangeEnd /\ RangeEnd <= config.len
         /\ RangeEnd - off <= Greatest(JobSize, RsyncMin)
         /\ \/ RangeEnd = config.len
            \/ RangeEnd - off >= IF config.rsyncable THEN RsyncMin ELSE JobSizeMin
<1>1. config.len \in Nat /\ config.hits \in SUBSET Nat /\ config.rsyncable \in BOOLEAN
  BY MtAssumption DEF Call
<1>2. JobSize \in Nat /\ JobSize >= JobSizeMin /\ JobSize >= 1 /\ JobSizeMin \in Nat
      /\ RsyncMin \in Nat
  BY JobSizeBound, SectionsAssumption
<1>3. CASE config.rsyncable
  <2>1. RangeEnd = SectionEnd(config.hits, config.len, off, JobSize)
    BY <1>3 DEF RangeEnd
  <2> QED BY <2>1, <1>1, <1>2, <1>3, SectionEndBounds
<1>4. CASE ~config.rsyncable
  <2>1. RangeEnd = Least(off + JobSize, config.len)
    BY <1>4 DEF RangeEnd, JobEnd
  <2> QED BY <2>1, <1>1, <1>2, <1>4 DEF Least, Greatest
<1> QED BY <1>3, <1>4

-----------------------------------------------------------------------------
(* The inductive invariant *)

\* What each phase leaves alone, and what it finds.
PhaseInv ==
  /\ phase = "cut" => /\ pc = <<>> /\ job = <<>> /\ done = <<>> /\ next = 1
                      /\ joined = 0 /\ parts = <<>> /\ err = Nothing
  /\ phase # "cut" => off = config.len
  /\ phase \in {"loop", "threads"} => Len(ranges) > 1
  /\ phase # "returned" => result = Pending

\* The loop's frames are those of the first ranges.
LoopInv ==
  phase = "loop" =>
    /\ parts \in Seq(FrameType) /\ Len(parts) <= Len(ranges)
    /\ \A i \in 1..Len(parts) : Outcome(ranges[i]) = "ok" /\ parts[i] = Frame(ranges[i])

\* A worker holds a range it has not encoded, failed at the range it holds, or
\* found the cursor past the last.
WorkerInv(w) ==
  /\ pc[w] \notin {"claim", "ok"} => job[w] \in Jobs /\ job[w] \notin done[w]
  /\ pc[w] \in {"error", "panic"} => Outcome(ranges[job[w]]) = pc[w]
  /\ pc[w] = "ok" => next > Len(ranges)
  /\ \A j \in done[w] : Outcome(ranges[j]) = "ok"

WorkInv ==
  phase = "threads" => DOMAIN pc = 1..Threads /\ \A w \in DOMAIN pc : WorkerInv(w)

\* What the calling thread knows of the workers it has joined.
JoinInv ==
  phase = "threads" =>
    /\ joined <= Threads /\ DOMAIN parts = Jobs /\ parts = [j \in Jobs |-> parts[j]]
    /\ \A w \in 1..joined : pc[w] \in {"ok", "error", "panic"}
    /\ err = Nothing => \A w \in 1..joined : pc[w] = "ok"
    /\ err = "error" => \E i \in Jobs : Outcome(ranges[i]) = "error"
    /\ err = "corruption" => \E i \in Jobs : Outcome(ranges[i]) = "panic"
    /\ \A w \in 1..joined : pc[w] = "ok" => \A j \in done[w] : parts[j] = Frame(ranges[j])

Geometry == RangesTile /\ RangeLengths
Threading == WorkInv /\ EachRangeOnce /\ JoinInv
IInv == TypeOK /\ Geometry /\ PhaseInv /\ LoopInv /\ Threading /\ AsIfInOrder

\* Nothing of the ranges changes while they are encoded.
Fixed == UNCHANGED <<config, ranges>>

LEMMA FixedRanges ==
  ASSUME Fixed
  PROVE  /\ Jobs' = Jobs /\ Threads' = Threads /\ JobSize' = JobSize /\ Whole' = Whole
         /\ \A i \in Jobs : /\ Frame(ranges[i])' = Frame(ranges[i])
                            /\ Outcome(ranges[i])' = Outcome(ranges[i])
         /\ Frame(Whole)' = Frame(Whole) /\ Outcome(Whole)' = Outcome(Whole)
  BY DEF Fixed, Jobs, Threads, JobSize, Overlap, Whole, Frame, Outcome, PrimeOnly, Prime

LEMMA GeometryKept ==
  ASSUME Geometry, Fixed, UNCHANGED off
  PROVE  Geometry'
  BY DEF Geometry, RangesTile, RangeLengths, Fixed, Jobs, JobSize, Overlap

LEMMA ConfigType ==
  ASSUME TypeOK
  PROVE  /\ config \in Call /\ config.len \in Nat /\ config.nb_workers \in Nat
         /\ Len(ranges) \in Nat /\ Jobs = 1..Len(ranges)
         /\ \A i \in Jobs : ranges[i] \in Range
  BY MtAssumption DEF TypeOK, Call, Jobs

\* There is a worker, and no more than ranges.
LEMMA ThreadsBound ==
  ASSUME TypeOK
  PROVE  Threads \in Nat /\ Threads >= 1 /\ (Len(ranges) >= 1 => Threads <= Len(ranges))
  BY ConfigType, MtAssumption DEF Threads, Least, Greatest

\* A frame has its type, and is not an error's name.
LEMMA FrameIsFrame ==
  ASSUME NEW r \in Range
  PROVE  Frame(r) \in FrameType /\ Outcome(r) \in {"ok", "error", "panic"}
  BY DEF Frame, FrameType, Range, Outcome, Prime, PrimeOnly, Nothing

LEMMA InitInv == ASSUME Init PROVE IInv
<1> USE DEF Init, Jobs, Pending, Nothing
<1>1. ranges = <<>> /\ Len(ranges) = 0 /\ ranges \in Seq(Range) /\ Jobs = {}
  OBVIOUS
<1>2. DOMAIN pc = {} /\ DOMAIN job = {} /\ DOMAIN done = {} /\ DOMAIN parts = {}
  OBVIOUS
<1>3. TypeOK
  <2>1. off \in Nat /\ next \in Nat \ {0} /\ joined \in Nat
    OBVIOUS
  <2> QED BY <1>1, <1>2, <2>1, Zenon DEF TypeOK
<1>4. config.len \in Nat
  BY MtAssumption DEF Call
<1>5. Geometry
  BY <1>1, <1>4 DEF Geometry, RangesTile, RangeLengths
<1>6. PhaseInv /\ LoopInv /\ AsIfInOrder
  BY DEF PhaseInv, LoopInv, AsIfInOrder
<1>7. Threading
  BY <1>1, <1>2 DEF Threading, WorkInv, EachRangeOnce, JoinInv
<1> QED BY <1>3, <1>5, <1>6, <1>7 DEF IInv

-----------------------------------------------------------------------------
(* The steps *)

\* Appending the next range.
LEMMA CutStep == ASSUME IInv, Cut PROVE IInv'
<1> USE DEF Pending, Nothing
<1> DEFINE r == [from |-> off, to |-> RangeEnd]
<1>1. /\ phase = "cut" /\ phase' = "cut" /\ off < config.len /\ off \in Nat
      /\ ranges' = Append(ranges, r) /\ off' = RangeEnd /\ config' = config
  BY DEF Cut, IInv, TypeOK
<1>2. /\ UNCHANGED <<next, pc, job, done>> /\ UNCHANGED <<joined, parts, err>>
      /\ UNCHANGED result
  BY DEF Cut, workers, joining
<1>3. config \in Calls /\ config.len \in Nat /\ ranges \in Seq(Range) /\ Len(ranges) \in Nat
  BY ConfigType DEF IInv, TypeOK
<1>4. /\ RangeEnd \in Nat /\ off < RangeEnd /\ RangeEnd <= config.len
      /\ RangeEnd - off <= Greatest(JobSize, RsyncMin)
      /\ \/ RangeEnd = config.len
         \/ RangeEnd - off >= IF config.rsyncable THEN RsyncMin ELSE JobSizeMin
  BY <1>1, <1>3, RangeEndBounds
<1>5. r \in Range
  BY <1>1, <1>4 DEF Range
<1>6. /\ ranges' \in Seq(Range) /\ Len(ranges') = Len(ranges) + 1
      /\ \A i \in Jobs : ranges'[i] = ranges[i]
      /\ ranges'[Len(ranges) + 1] = r
      /\ Jobs' = 1..(Len(ranges) + 1) /\ Jobs = 1..Len(ranges)
  <2> HIDE DEF r
  <2> QED BY <1>1, <1>3, <1>5 DEF Jobs
<1>7. pc' = <<>> /\ job' = <<>> /\ done' = <<>> /\ parts' = <<>>
  BY <1>1, <1>2 DEF IInv, PhaseInv
<1>8. DOMAIN pc' = {} /\ DOMAIN job' = {} /\ DOMAIN done' = {} /\ DOMAIN parts' = {}
  BY <1>7
<1>9. TypeOK'
  BY <1>1, <1>2, <1>4, <1>6, <1>8, Zenon DEF IInv, TypeOK
<1>10. RangesTile'
  <2> HIDE DEF r
  <2>1. RangesTile
    BY DEF IInv, Geometry
  <2>2. \A i \in Jobs' : ranges'[i].from < ranges'[i].to
    BY <2>1, <1>1, <1>4, <1>6, <1>3 DEF RangesTile, r
  <2>3. (ranges = <<>>) <=> Len(ranges) = 0
    BY <1>3
  <2>4. \A i \in Jobs' : ranges'[i].from = IF i = 1 THEN 0 ELSE ranges'[i-1].to
    <3> SUFFICES ASSUME NEW i \in Jobs'
                 PROVE  ranges'[i].from = IF i = 1 THEN 0 ELSE ranges'[i-1].to
      OBVIOUS
    <3>1. CASE i \in Jobs
      BY <3>1, <2>1, <1>6, <1>3 DEF RangesTile
    <3>2. CASE i = Len(ranges) + 1 /\ Len(ranges) = 0
      BY <3>2, <2>1, <2>3, <1>6, <1>3 DEF RangesTile, r
    <3>3. CASE i = Len(ranges) + 1 /\ Len(ranges) # 0
      <4>1. i - 1 = Len(ranges) /\ Len(ranges) \in Jobs /\ i # 1
        BY <3>3, <1>3, <1>6
      <4>2. ranges'[i-1] = ranges[Len(ranges)] /\ ranges'[i] = r
        BY <4>1, <3>3, <1>6
      <4>3. off = ranges[Len(ranges)].to
        BY <3>3, <2>1, <2>3 DEF RangesTile
      <4> QED BY <4>1, <4>2, <4>3 DEF r
    <3> QED BY <3>1, <3>2, <3>3, <1>6, <1>3
  <2>5. ranges' # <<>> /\ Len(ranges') = Len(ranges) + 1
    BY <1>6, <1>3
  <2>6. off' = ranges'[Len(ranges')].to
    BY <2>5, <1>6, <1>1 DEF r
  <2> QED BY <2>2, <2>4, <2>5, <2>6, <1>1, <1>4 DEF RangesTile
<1>11. RangeLengths'
  <2>1. JobSize' = JobSize
    BY <1>1 DEF JobSize, Overlap
  <2>2. RangeLengths
    BY DEF IInv, Geometry
  <2>3. \A i \in Jobs' : i \in Jobs \/ i = Len(ranges) + 1
    BY <1>3, <1>6
  <2> QED BY <2>1, <2>2, <2>3, <1>1, <1>4, <1>6 DEF RangeLengths
<1>12. PhaseInv' /\ LoopInv'
  BY <1>1, <1>2 DEF IInv, PhaseInv, LoopInv
<1>13. Threading'
  BY <1>1, <1>8 DEF Threading, WorkInv, EachRangeOnce, JoinInv
<1>14. AsIfInOrder'
  <2>1. result' = Pending
    BY <1>1, <1>2 DEF IInv, PhaseInv
  <2> QED BY <2>1 DEF AsIfInOrder
<1> QED BY <1>9, <1>10, <1>11, <1>12, <1>13, <1>14 DEF IInv, Geometry

\* At most one range: the whole source in one frame.
LEMMA OneShotStep == ASSUME IInv, OneShot PROVE IInv'
<1> USE DEF Pending, Nothing
<1>1. /\ phase = "cut" /\ phase' = "returned" /\ off >= config.len /\ Len(ranges) <= 1
      /\ Fixed /\ UNCHANGED off
      /\ result' = IF Outcome(Whole) = "ok"
                   THEN [kind |-> "ok", frames |-> <<Frame(Whole)>>]
                   ELSE Failed(Outcome(Whole))
  BY DEF OneShot, Returned, Fixed, cutting
<1>2. /\ UNCHANGED <<next, pc, job, done>> /\ UNCHANGED <<joined, parts, err>>
  BY DEF OneShot, workers, joining
<1>3. pc' = <<>> /\ job' = <<>> /\ done' = <<>> /\ parts' = <<>>
  BY <1>1, <1>2 DEF IInv, PhaseInv
<1>4. DOMAIN pc' = {} /\ DOMAIN job' = {} /\ DOMAIN done' = {} /\ DOMAIN parts' = {}
  BY <1>3
<1>5. Outcome(Whole) \in {"ok", "error", "panic"}
  BY DEF Outcome
<1>6. result'.kind \in {"pending", "ok", "err", "panic"}
  BY <1>1, <1>5 DEF Failed
<1>7. TypeOK'
  BY <1>1, <1>2, <1>4, <1>6, Zenon DEF IInv, TypeOK, Fixed
<1>8. Geometry'
  BY <1>1, GeometryKept DEF IInv
<1>9. PhaseInv' /\ LoopInv'
  <2>1. off = config.len
    BY <1>1, ConfigType DEF IInv, TypeOK, Geometry, RangesTile
  <2> QED BY <2>1, <1>1 DEF PhaseInv, LoopInv, Fixed
<1>10. Threading'
  BY <1>1, <1>4 DEF Threading, WorkInv, EachRangeOnce, JoinInv
<1>11. AsIfInOrder'
  BY <1>1, <1>5, FixedRanges DEF AsIfInOrder, Failed, Fixed
<1> QED BY <1>7, <1>8, <1>9, <1>10, <1>11 DEF IInv

LEMMA StartLoopStep == ASSUME IInv, StartLoop PROVE IInv'
<1> USE DEF Pending, Nothing
<1>1. /\ phase = "cut" /\ phase' = "loop" /\ off >= config.len /\ Len(ranges) > 1
      /\ Fixed /\ UNCHANGED off /\ UNCHANGED result
      /\ UNCHANGED <<next, pc, job, done>> /\ UNCHANGED <<joined, parts, err>>
  BY DEF StartLoop, Fixed, cutting, workers, joining
<1>2. pc' = <<>> /\ job' = <<>> /\ done' = <<>> /\ parts' = <<>>
  BY <1>1 DEF IInv, PhaseInv
<1>3. DOMAIN pc' = {} /\ DOMAIN job' = {} /\ DOMAIN done' = {} /\ DOMAIN parts' = {}
  BY <1>2
<1>4. TypeOK'
  BY <1>1, <1>3, Zenon DEF IInv, TypeOK, Fixed
<1>5. Geometry'
  BY <1>1, GeometryKept DEF IInv
<1>6. PhaseInv'
  <2>1. off = config.len
    BY <1>1, ConfigType DEF IInv, TypeOK, Geometry, RangesTile
  <2>2. result = Pending
    BY <1>1 DEF IInv, PhaseInv
  <2> QED BY <2>1, <2>2, <1>1 DEF PhaseInv, Fixed
<1>7. LoopInv'
  <2>1. parts' \in Seq(FrameType) /\ Len(parts') = 0
    BY <1>2
  <2> QED BY <2>1, <1>1, ConfigType DEF LoopInv, Fixed, IInv
<1>8. Threading'
  BY <1>1, <1>3 DEF Threading, WorkInv, EachRangeOnce, JoinInv
<1>9. AsIfInOrder'
  BY <1>1 DEF AsIfInOrder, IInv, PhaseInv
<1> QED BY <1>4, <1>5, <1>6, <1>7, <1>8, <1>9 DEF IInv

LEMMA StartThreadsStep == ASSUME IInv, StartThreads PROVE IInv'
<1> USE DEF Pending, Nothing
<1>1. /\ phase = "cut" /\ phase' = "threads" /\ off >= config.len /\ Len(ranges) > 1
      /\ Fixed /\ UNCHANGED off /\ UNCHANGED result
      /\ UNCHANGED <<next, joined, err>>
      /\ pc' = [w \in 1..Threads |-> "claim"]
      /\ job' = [w \in 1..Threads |-> 0]
      /\ done' = [w \in 1..Threads |-> {}]
      /\ parts' = [j \in Jobs |-> Empty]
  BY DEF StartThreads, Fixed, cutting
<1>2. next = 1 /\ joined = 0 /\ err = Nothing /\ result = Pending
  BY <1>1 DEF IInv, PhaseInv
<1>3. DOMAIN pc' = 1..Threads /\ DOMAIN job' = 1..Threads /\ DOMAIN done' = 1..Threads
      /\ DOMAIN parts' = Jobs
  BY <1>1
<1>4. Empty \in FrameType
  BY DEF Empty, FrameType
<1>5. Jobs' = Jobs /\ Threads' = Threads
  BY <1>1, FixedRanges
<1>6. TypeOK'
  <2>1. \A w \in DOMAIN pc' : pc'[w] = "claim" /\ job'[w] = 0 /\ done'[w] = {}
    BY <1>1
  <2>2. \A j \in DOMAIN parts' : parts'[j] \in FrameType
    BY <1>1, <1>4
  <2>3. \A w \in DOMAIN pc' : /\ pc'[w] \in {"claim", "encode", "ok", "error", "panic"}
                              /\ job'[w] \in Nat /\ done'[w] \subseteq Jobs'
                              /\ pc'[w] = "encode" => job'[w] \in Jobs'
    BY <2>1
  <2> QED BY <2>2, <2>3, <1>1, <1>3, Zenon DEF IInv, TypeOK, Fixed
<1>7. Geometry'
  BY <1>1, GeometryKept DEF IInv
<1>8. PhaseInv'
  <2>1. off = config.len
    BY <1>1, ConfigType DEF IInv, TypeOK, Geometry, RangesTile
  <2> QED BY <2>1, <1>1, <1>2 DEF PhaseInv, Fixed
<1>9. LoopInv'
  BY <1>1 DEF LoopInv
<1>10. WorkInv'
  BY <1>1, <1>3, <1>5 DEF WorkInv, WorkerInv
<1>11. EachRangeOnce'
  <2>1. \A w \in DOMAIN pc' : Taken(w)' = {}
    BY <1>1 DEF Taken
  <2>2. \A j \in Jobs' : ~(j < next')
    BY <1>1, <1>2, <1>5, ConfigType DEF IInv
  <2> QED BY <2>1, <2>2 DEF EachRangeOnce
<1>12. JoinInv'
  <2>1. 1..joined' = {}
    BY <1>1, <1>2
  <2>2. joined' <= Threads'
    BY <1>1, <1>2, <1>5, ThreadsBound DEF IInv
  <2> QED BY <2>1, <2>2, <1>1, <1>2, <1>3, <1>5 DEF JoinInv
<1>13. AsIfInOrder'
  BY <1>1, <1>2 DEF AsIfInOrder
<1> QED BY <1>6, <1>7, <1>8, <1>9, <1>10, <1>11, <1>12, <1>13 DEF IInv, Threading

LEMMA LoopEncodeStep == ASSUME IInv, LoopEncode PROVE IInv'
<1> USE DEF Pending, Nothing
<1> DEFINE n == Len(parts)
           r == ranges[n + 1]
<1>1. /\ phase = "loop" /\ n < Len(ranges)
      /\ Fixed /\ UNCHANGED off /\ UNCHANGED <<joined, err>>
      /\ UNCHANGED <<next, pc, job, done>>
      /\ IF Outcome(r) = "ok"
         THEN parts' = Append(parts, Frame(r)) /\ UNCHANGED <<phase, result>>
         ELSE Returned(Failed(Outcome(r))) /\ UNCHANGED parts
  BY DEF LoopEncode, Fixed, cutting, workers
<1>2. /\ parts \in Seq(FrameType) /\ n \in Nat /\ result = Pending /\ Len(ranges) > 1
      /\ \A i \in 1..n : Outcome(ranges[i]) = "ok" /\ parts[i] = Frame(ranges[i])
  BY <1>1 DEF IInv, LoopInv, PhaseInv
<1>3. /\ n + 1 \in Jobs /\ r \in Range /\ Jobs = 1..Len(ranges) /\ Len(ranges) \in Nat
  BY <1>1, <1>2, ConfigType DEF IInv
<1>4. Frame(r) \in FrameType /\ Outcome(r) \in {"ok", "error", "panic"}
  BY <1>3, FrameIsFrame
<1>5. Jobs' = Jobs /\ Threads' = Threads
      /\ \A i \in Jobs : Frame(ranges[i])' = Frame(ranges[i])
                         /\ Outcome(ranges[i])' = Outcome(ranges[i])
  BY <1>1, FixedRanges
<1>6. Geometry'
  BY <1>1, GeometryKept DEF IInv
<1>7. CASE Outcome(r) = "ok"
  <2>1. /\ parts' = Append(parts, Frame(r)) /\ phase' = "loop" /\ result' = Pending
    BY <1>1, <1>2, <1>7
  <2>2. /\ parts' \in Seq(FrameType) /\ Len(parts') = n + 1 /\ parts'[n + 1] = Frame(r)
        /\ \A i \in 1..n : parts'[i] = parts[i]
    <3> HIDE DEF r
    <3> QED BY <2>1, <1>2, <1>4
  <2>3. \A j \in DOMAIN parts' : parts'[j] \in FrameType
    BY <2>2
  <2>4. TypeOK'
    BY <1>1, <1>5, <2>1, <2>3, Zenon DEF IInv, TypeOK, Fixed
  <2>5. PhaseInv'
    BY <1>1, <1>2, <2>1 DEF PhaseInv, IInv, Fixed
  <2>6. LoopInv'
    <3>1. \A i \in 1..(n + 1) : Outcome(ranges[i]) = "ok" /\ parts'[i] = Frame(ranges[i])
      BY <1>2, <1>7, <2>2
    <3>2. \A i \in 1..(n + 1) : i \in Jobs
      BY <1>1, <1>2, <1>3
    <3>3. \A i \in 1..Len(parts') : Outcome(ranges[i])' = "ok"
                                    /\ parts'[i] = Frame(ranges[i])'
      BY <3>1, <3>2, <1>5, <2>2
    <3>4. Len(parts') <= Len(ranges')
      BY <1>1, <1>2, <1>3, <2>2 DEF Fixed
    <3> QED BY <3>3, <3>4, <2>2 DEF LoopInv
  <2>7. Threading'
    BY <1>1, <2>1 DEF IInv, Threading, WorkInv, EachRangeOnce, JoinInv, Taken, Fixed
  <2>8. AsIfInOrder'
    BY <2>1 DEF AsIfInOrder
  <2> QED BY <1>6, <2>4, <2>5, <2>6, <2>7, <2>8 DEF IInv
<1>8. CASE Outcome(r) # "ok"
  <2>1. phase' = "returned" /\ result' = Failed(Outcome(r)) /\ parts' = parts
    BY <1>1, <1>8 DEF Returned
  <2>2. result'.kind \in {"pending", "ok", "err", "panic"}
    BY <2>1, <1>4, <1>8 DEF Failed
  <2>3. TypeOK'
    BY <1>1, <1>5, <2>1, <2>2, Zenon DEF IInv, TypeOK, Fixed
  <2>4. PhaseInv' /\ LoopInv'
    BY <1>1, <2>1 DEF PhaseInv, LoopInv, IInv, Fixed
  <2>5. Threading'
    BY <1>1, <2>1 DEF IInv, Threading, WorkInv, EachRangeOnce, JoinInv, Taken, Fixed
  <2>6. AsIfInOrder'
    <3>1. \E i \in Jobs' : Outcome(ranges[i])' = Outcome(r)
      BY <1>3, <1>5
    <3>2. ~(Len(ranges') <= 1)
      BY <1>1, <1>2, <1>3 DEF Fixed
    <3>3. \/ Outcome(r) = "error" /\ result' = [kind |-> "err", error |-> "error"]
          \/ Outcome(r) = "panic" /\ result' = [kind |-> "panic"]
      BY <2>1, <1>4, <1>8 DEF Failed
    <3> HIDE DEF r
    <3>4. CASE Outcome(r) = "error"
      <4>1. result'.kind = "err" /\ result'.error = "error"
        BY <3>3, <3>4
      <4> QED BY <3>1, <3>2, <3>4, <4>1 DEF AsIfInOrder
    <3>5. CASE Outcome(r) = "panic"
      <4>1. result'.kind = "panic"
        BY <3>3, <3>5
      <4> QED BY <3>1, <3>2, <3>5, <4>1 DEF AsIfInOrder
    <3> QED BY <3>3, <3>4, <3>5
  <2> QED BY <1>6, <2>3, <2>4, <2>5, <2>6 DEF IInv
<1> QED BY <1>7, <1>8

LEMMA LoopReturnStep == ASSUME IInv, LoopReturn PROVE IInv'
<1> USE DEF Pending, Nothing
<1>1. /\ phase = "loop" /\ phase' = "returned" /\ Len(parts) = Len(ranges)
      /\ Fixed /\ UNCHANGED off /\ UNCHANGED <<joined, parts, err>>
      /\ UNCHANGED <<next, pc, job, done>>
      /\ result' = [kind |-> "ok", frames |-> parts]
  BY DEF LoopReturn, Returned, Fixed, cutting, workers, joining
<1>2. /\ parts \in Seq(FrameType) /\ Len(ranges) > 1 /\ Len(ranges) \in Nat
      /\ \A i \in 1..Len(parts) : Outcome(ranges[i]) = "ok" /\ parts[i] = Frame(ranges[i])
  BY <1>1, ConfigType DEF IInv, LoopInv, PhaseInv
<1>3. Jobs' = Jobs /\ Jobs = 1..Len(ranges)
      /\ \A i \in Jobs : Frame(ranges[i])' = Frame(ranges[i])
                         /\ Outcome(ranges[i])' = Outcome(ranges[i])
  BY <1>1, FixedRanges, ConfigType DEF IInv
<1>4. TypeOK'
  BY <1>1, <1>3, Zenon DEF IInv, TypeOK, Fixed
<1>5. Geometry'
  BY <1>1, GeometryKept DEF IInv
<1>6. PhaseInv' /\ LoopInv'
  BY <1>1 DEF PhaseInv, LoopInv, IInv, Fixed
<1>7. Threading'
  BY <1>1 DEF IInv, Threading, WorkInv, EachRangeOnce, JoinInv, Taken, Fixed
<1>8. AsIfInOrder'
  <2>1. parts = [i \in Jobs |-> Frame(ranges[i])]
    BY <1>1, <1>2, <1>3
  <2>2. parts = [i \in Jobs' |-> Frame(ranges[i])']
    BY <2>1, <1>3
  <2>3. \A i \in Jobs' : Outcome(ranges[i])' = "ok"
    BY <1>1, <1>2, <1>3
  <2>4. ~(Len(ranges') <= 1)
    BY <1>1, <1>2 DEF Fixed
  <2> QED BY <2>2, <2>3, <2>4, <1>1 DEF AsIfInOrder
<1> QED BY <1>4, <1>5, <1>6, <1>7, <1>8 DEF IInv

\* What a step of a worker or a join leaves as it is.
LEMMA WorkerContext ==
  ASSUME IInv, phase = "threads", Fixed, UNCHANGED <<phase, off, result>>
  PROVE  /\ Geometry' /\ PhaseInv' /\ LoopInv' /\ AsIfInOrder'
         /\ Jobs' = Jobs /\ Threads' = Threads
         /\ \A i \in Jobs : Frame(ranges[i])' = Frame(ranges[i])
                            /\ Outcome(ranges[i])' = Outcome(ranges[i])
<1>1. result' = Pending
  BY DEF IInv, PhaseInv
<1>2. AsIfInOrder'
  BY <1>1 DEF AsIfInOrder, Pending
<1>3. PhaseInv' /\ LoopInv'
  BY DEF IInv, PhaseInv, LoopInv, Fixed
<1> QED BY <1>2, <1>3, GeometryKept, FixedRanges DEF IInv

LEMMA ClaimStep == ASSUME IInv, NEW w \in DOMAIN pc, Claim(w) PROVE IInv'
<1>1. /\ phase = "threads" /\ pc[w] = "claim" /\ next' = next + 1
      /\ Fixed /\ UNCHANGED <<phase, off, result>> /\ UNCHANGED <<done, joined, parts, err>>
      /\ IF next \in Jobs
         THEN pc' = [pc EXCEPT ![w] = "encode"] /\ job' = [job EXCEPT ![w] = next]
         ELSE pc' = [pc EXCEPT ![w] = "ok"] /\ UNCHANGED job
  BY DEF Claim, Fixed, cutting, joining
<1>2. /\ Geometry' /\ PhaseInv' /\ LoopInv' /\ AsIfInOrder'
      /\ Jobs' = Jobs /\ Threads' = Threads
      /\ \A i \in Jobs : Frame(ranges[i])' = Frame(ranges[i])
                         /\ Outcome(ranges[i])' = Outcome(ranges[i])
  BY <1>1, WorkerContext
<1>3. /\ next \in Nat \ {0} /\ Len(ranges) \in Nat /\ Jobs = 1..Len(ranges)
      /\ DOMAIN job = DOMAIN pc /\ DOMAIN done = DOMAIN pc
      /\ ranges' = ranges
  BY <1>1, ConfigType DEF IInv, TypeOK, Fixed
<1>4. /\ DOMAIN pc' = DOMAIN pc /\ DOMAIN job' = DOMAIN pc /\ DOMAIN done' = DOMAIN pc
      /\ \A v \in DOMAIN pc \ {w} : pc'[v] = pc[v] /\ job'[v] = job[v]
      /\ pc'[w] = IF next \in Jobs THEN "encode" ELSE "ok"
      /\ next \in Jobs => job'[w] = next
      /\ next \notin Jobs => job' = job
  BY <1>1, <1>3
<1>5. /\ \A v \in DOMAIN pc : /\ pc[v] \in {"claim", "encode", "ok", "error", "panic"}
                              /\ job[v] \in Nat /\ done[v] \subseteq Jobs
                              /\ pc[v] = "encode" => job[v] \in Jobs
  BY DEF IInv, TypeOK
<1>6. TypeOK'
  <2>1. \A v \in DOMAIN pc' : /\ pc'[v] \in {"claim", "encode", "ok", "error", "panic"}
                              /\ job'[v] \in Nat /\ done'[v] \subseteq Jobs'
                              /\ pc'[v] = "encode" => job'[v] \in Jobs'
    BY <1>1, <1>2, <1>3, <1>4, <1>5
  <2>2. next' \in Nat \ {0}
    BY <1>1, <1>3
  <2> QED BY <1>1, <1>2, <1>4, <2>1, <2>2, Zenon DEF IInv, TypeOK, Fixed
<1>7. WorkInv
  BY DEF IInv, Threading
<1>8. EachRangeOnce
  BY DEF IInv, Threading
<1>9. \A v \in DOMAIN pc : Taken(v) \subseteq Jobs /\ \A j \in Taken(v) : j < next
  <2> SUFFICES ASSUME NEW v \in DOMAIN pc
               PROVE  Taken(v) \subseteq Jobs /\ \A j \in Taken(v) : j < next
    OBVIOUS
  <2>1. Taken(v) \subseteq Jobs
    BY <1>1, <1>5, <1>7 DEF Taken, WorkInv, WorkerInv
  <2> QED BY <2>1, <1>1, <1>8 DEF EachRangeOnce
<1>10. \A v \in DOMAIN pc \ {w} : Taken(v)' = Taken(v)
  BY <1>1, <1>4 DEF Taken
<1>11. Taken(w)' = Taken(w) \union (IF next \in Jobs THEN {next} ELSE {})
  BY <1>1, <1>4 DEF Taken
<1>12. WorkInv'
  <2>1. DOMAIN pc' = 1..Threads'
    BY <1>1, <1>2, <1>4, <1>7 DEF WorkInv
  <2>2. ASSUME NEW v \in DOMAIN pc, v # w
        PROVE  WorkerInv(v)'
    <3>1. pc'[v] = pc[v] /\ job'[v] = job[v] /\ done'[v] = done[v]
      BY <1>1, <1>4, <2>2
    <3>2. WorkerInv(v)
      BY <1>1, <1>7 DEF WorkInv
    <3>3. UNCHANGED <<config, ranges>>
      BY <1>1 DEF Fixed
    <3>4. pc'[v] = "ok" => next' > Len(ranges')
      BY <3>1, <3>2, <1>1, <1>3 DEF WorkerInv
    <3> QED BY <3>1, <3>2, <3>3, <3>4, <1>2 DEF WorkerInv, Outcome
  <2>3. next \in Jobs => next \notin done[w]
    BY <1>9, <1>3 DEF Taken
  <2>4. \A j \in done'[w] : Outcome(ranges[j])' = "ok"
    <3>1. \A j \in done[w] : Outcome(ranges[j]) = "ok"
      BY <1>1, <1>7 DEF WorkInv, WorkerInv
    <3> QED BY <3>1, <1>1, <1>2, <1>5
  <2>5. pc'[w] = "ok" => next' > Len(ranges')
    BY <1>1, <1>3, <1>4
  <2>6. pc'[w] \notin {"claim", "ok"} => job'[w] \in Jobs' /\ job'[w] \notin done'[w]
    BY <1>1, <1>2, <1>4, <2>3
  <2>7. pc'[w] \notin {"error", "panic"}
    BY <1>4
  <2>8. WorkerInv(w)'
    BY <2>4, <2>5, <2>6, <2>7 DEF WorkerInv
  <2> QED BY <2>1, <2>2, <2>8, <1>4 DEF WorkInv
<1>13. EachRangeOnce'
  <2>1. \A u, v \in DOMAIN pc' : u # v => Taken(u)' \intersect Taken(v)' = {}
    <3> SUFFICES ASSUME NEW u \in DOMAIN pc, NEW v \in DOMAIN pc, u # v
                 PROVE  Taken(u)' \intersect Taken(v)' = {}
      BY <1>4
    <3>1. Taken(u) \intersect Taken(v) = {}
      BY <1>8 DEF EachRangeOnce
    <3>2. next \notin Taken(u) /\ next \notin Taken(v)
      BY <1>9, <1>3
    <3> QED BY <3>1, <3>2, <1>10, <1>11
  <2>2. \A j \in Jobs : j < next <=> \E v \in DOMAIN pc : j \in Taken(v)
    BY <1>1, <1>8 DEF EachRangeOnce
  <2>3. \A j \in Jobs' : j < next' <=> \E v \in DOMAIN pc' : j \in Taken(v)'
    <3> SUFFICES ASSUME NEW j \in Jobs
                 PROVE  j < next' <=> \E v \in DOMAIN pc : j \in Taken(v)'
      BY <1>2, <1>4
    <3>1. j < next' <=> j < next \/ j = next
      BY <1>1, <1>3
    <3>2. \A v \in DOMAIN pc : j \in Taken(v)' <=> j \in Taken(v) \/ (v = w /\ j = next)
      BY <1>10, <1>11
    <3> QED BY <3>1, <3>2, <2>2
  <2> QED BY <2>1, <2>3 DEF EachRangeOnce
<1>14. JoinInv'
  <2>1. JoinInv
    BY DEF IInv, Threading
  <2>2. w \notin 1..joined
    BY <1>1, <2>1 DEF JoinInv
  <2>3. \A v \in 1..joined : v \in DOMAIN pc /\ pc'[v] = pc[v]
    <3>1. joined \in Nat /\ Threads \in Nat
      BY ThreadsBound DEF IInv, TypeOK
    <3> QED BY <3>1, <1>1, <1>4, <1>7, <2>1, <2>2 DEF WorkInv, JoinInv
  <2>4. \A v \in 1..joined : done[v] \subseteq Jobs
    BY <2>3, <1>5
  <2> QED BY <1>1, <1>2, <2>1, <2>3, <2>4 DEF JoinInv
<1> QED BY <1>2, <1>6, <1>12, <1>13, <1>14 DEF IInv, Threading

LEMMA EncodeStep == ASSUME IInv, NEW w \in DOMAIN pc, Encode(w) PROVE IInv'
<1> DEFINE what == Outcome(ranges[job[w]])
<1>1. /\ phase = "threads" /\ pc[w] = "encode"
      /\ Fixed /\ UNCHANGED <<phase, off, result>> /\ UNCHANGED <<next, job, joined, parts, err>>
      /\ IF what = "ok"
         THEN done' = [done EXCEPT ![w] = @ \union {job[w]}] /\ pc' = [pc EXCEPT ![w] = "claim"]
         ELSE pc' = [pc EXCEPT ![w] = what] /\ UNCHANGED done
  BY DEF Encode, Fixed, cutting, joining
<1>2. /\ Geometry' /\ PhaseInv' /\ LoopInv' /\ AsIfInOrder'
      /\ Jobs' = Jobs /\ Threads' = Threads
      /\ \A i \in Jobs : Frame(ranges[i])' = Frame(ranges[i])
                         /\ Outcome(ranges[i])' = Outcome(ranges[i])
  BY <1>1, WorkerContext
<1>3. /\ next \in Nat \ {0} /\ Len(ranges) \in Nat /\ Jobs = 1..Len(ranges)
      /\ DOMAIN job = DOMAIN pc /\ DOMAIN done = DOMAIN pc
      /\ UNCHANGED <<config, ranges>>
  BY <1>1, ConfigType DEF IInv, TypeOK, Fixed
<1>4. \A v \in DOMAIN pc : /\ pc[v] \in {"claim", "encode", "ok", "error", "panic"}
                           /\ job[v] \in Nat /\ done[v] \subseteq Jobs
                           /\ pc[v] = "encode" => job[v] \in Jobs
  BY DEF IInv, TypeOK
<1>5. what \in {"ok", "error", "panic"}
  BY DEF Outcome
<1> HIDE DEF what
<1>6. /\ DOMAIN pc' = DOMAIN pc /\ DOMAIN job' = DOMAIN pc /\ DOMAIN done' = DOMAIN pc
      /\ \A v \in DOMAIN pc \ {w} : pc'[v] = pc[v] /\ job'[v] = job[v] /\ done'[v] = done[v]
      /\ job'[w] = job[w]
      /\ pc'[w] = IF what = "ok" THEN "claim" ELSE what
      /\ done'[w] = IF what = "ok" THEN done[w] \union {job[w]} ELSE done[w]
  BY <1>1, <1>3
<1>7. TypeOK'
  <2>1. \A v \in DOMAIN pc' : /\ pc'[v] \in {"claim", "encode", "ok", "error", "panic"}
                              /\ job'[v] \in Nat /\ done'[v] \subseteq Jobs'
                              /\ pc'[v] = "encode" => job'[v] \in Jobs'
    BY <1>1, <1>2, <1>4, <1>5, <1>6
  <2> QED BY <1>1, <1>2, <1>6, <2>1, Zenon DEF IInv, TypeOK, Fixed
<1>8. WorkInv /\ EachRangeOnce /\ JoinInv
  BY DEF IInv, Threading
<1>9. \A v \in DOMAIN pc : Taken(v)' = Taken(v)
  BY <1>1, <1>5, <1>6 DEF Taken
<1>10. WorkInv'
  <2>1. DOMAIN pc' = 1..Threads' /\ WorkerInv(w)
    BY <1>1, <1>2, <1>6, <1>8 DEF WorkInv
  <2>2. ASSUME NEW v \in DOMAIN pc, v # w
        PROVE  WorkerInv(v)'
    <3>1. pc'[v] = pc[v] /\ job'[v] = job[v] /\ done'[v] = done[v] /\ WorkerInv(v)
      BY <1>1, <1>6, <1>8, <2>2 DEF WorkInv
    <3> QED BY <3>1, <1>1, <1>2, <1>3 DEF WorkerInv, Outcome
  <2>3. \A j \in done'[w] : Outcome(ranges[j])' = "ok"
    <3>1. \A j \in done[w] : j \in Jobs /\ Outcome(ranges[j]) = "ok"
      BY <2>1, <1>4 DEF WorkerInv
    <3>2. job[w] \in Jobs
      BY <1>1, <1>4
    <3>3. \A j \in done'[w] : j \in Jobs /\ Outcome(ranges[j]) = "ok"
      BY <3>1, <3>2, <1>6 DEF what
    <3> QED BY <3>3, <1>2
  <2>4. pc'[w] \in {"error", "panic"} => Outcome(ranges[job[w]])' = pc'[w]
    <3>1. Outcome(ranges[job[w]])' = what
      BY <1>1, <1>3 DEF Outcome, what
    <3> QED BY <3>1, <1>6
  <2>5. pc'[w] # "ok"
    BY <1>5, <1>6
  <2>6. pc'[w] \notin {"claim", "ok"} => job'[w] \in Jobs' /\ job'[w] \notin done'[w]
    BY <1>1, <1>2, <1>4, <1>6, <2>1 DEF WorkerInv
  <2>7. WorkerInv(w)'
    BY <2>3, <2>4, <2>5, <2>6 DEF WorkerInv
  <2> QED BY <2>1, <2>2, <2>7, <1>6 DEF WorkInv
<1>11. EachRangeOnce'
  BY <1>1, <1>2, <1>6, <1>8, <1>9 DEF EachRangeOnce
<1>12. JoinInv'
  <2>1. w \notin 1..joined
    BY <1>1, <1>8 DEF JoinInv
  <2>2. joined \in Nat /\ Threads \in Nat
    BY ThreadsBound DEF IInv, TypeOK
  <2>3. \A v \in 1..joined : v \in DOMAIN pc /\ pc'[v] = pc[v] /\ done'[v] = done[v]
                             /\ done[v] \subseteq Jobs
    BY <2>1, <2>2, <1>1, <1>4, <1>6, <1>8 DEF WorkInv, JoinInv
  <2> QED BY <1>1, <1>2, <1>8, <2>3 DEF JoinInv
<1> QED BY <1>2, <1>7, <1>10, <1>11, <1>12 DEF IInv, Threading

LEMMA JoinStep == ASSUME IInv, Join PROVE IInv'
<1> DEFINE w == joined + 1
<1>1. /\ phase = "threads" /\ joined < Threads /\ joined' = w
      /\ pc[w] \in {"ok", "error", "panic"}
      /\ Fixed /\ UNCHANGED <<phase, off, result>> /\ UNCHANGED <<next, pc, job, done>>
      /\ parts' = IF pc[w] = "ok"
                  THEN [j \in Jobs |-> IF j \in done[w] THEN Frame(ranges[j]) ELSE parts[j]]
                  ELSE parts
      /\ err' = CASE pc[w] = "ok" -> err
                  [] pc[w] = "error" -> "error"
                  [] pc[w] = "panic" -> "corruption"
  BY DEF Join, Fixed, cutting, workers
<1>2. /\ Geometry' /\ PhaseInv' /\ LoopInv' /\ AsIfInOrder'
      /\ Jobs' = Jobs /\ Threads' = Threads
      /\ \A i \in Jobs : Frame(ranges[i])' = Frame(ranges[i])
                         /\ Outcome(ranges[i])' = Outcome(ranges[i])
  BY <1>1, WorkerContext
<1>3. WorkInv /\ EachRangeOnce /\ JoinInv
  BY DEF IInv, Threading
<1>4. joined \in Nat /\ Threads \in Nat /\ w \in Nat /\ w <= Threads /\ w \in DOMAIN pc
  <2>1. joined \in Nat /\ Threads \in Nat
    BY ThreadsBound DEF IInv, TypeOK
  <2>2. DOMAIN pc = 1..Threads
    BY <1>1, <1>3 DEF WorkInv
  <2> QED BY <2>1, <2>2, <1>1
<1>5. \A i \in Jobs : Frame(ranges[i]) \in FrameType
  BY ConfigType, FrameIsFrame DEF IInv
<1>6. DOMAIN parts' = Jobs /\ \A j \in Jobs : parts'[j] \in FrameType
  BY <1>1, <1>3, <1>5 DEF IInv, TypeOK, JoinInv
<1> HIDE DEF w
<1>7. TypeOK'
  <2>1. err' \in {Nothing, "error", "corruption"}
    BY <1>1 DEF IInv, TypeOK
  <2>2. joined' \in Nat /\ \A j \in DOMAIN parts' : parts'[j] \in FrameType
    BY <1>1, <1>4, <1>6
  <2> QED BY <1>1, <1>2, <2>1, <2>2, Zenon DEF IInv, TypeOK, Fixed
<1>8. WorkInv'
  <2>1. \A v \in DOMAIN pc : WorkerInv(v)
    BY <1>1, <1>3 DEF WorkInv
  <2>2. ASSUME NEW v \in DOMAIN pc
        PROVE  WorkerInv(v)'
    <3>1. WorkerInv(v)
      BY <2>1
    <3>2. UNCHANGED <<config, ranges>>
      BY <1>1 DEF Fixed
    <3> QED BY <3>1, <3>2, <1>1, <1>2 DEF WorkerInv, Outcome
  <2> QED BY <2>2, <1>1, <1>2, <1>3 DEF WorkInv
<1>9. EachRangeOnce'
  BY <1>1, <1>2, <1>3 DEF EachRangeOnce, Taken
<1>10. WorkerInv(w)
  BY <1>1, <1>3, <1>4 DEF WorkInv
<1>11. JoinInv'
  <2>1. \A v \in 1..joined' : v \in 1..joined \/ v = w
    BY <1>1, <1>4 DEF w
  <2>2. \A v \in 1..joined' : pc'[v] \in {"ok", "error", "panic"}
    BY <2>1, <1>1, <1>3 DEF JoinInv
  <2>3. err' = Nothing => \A v \in 1..joined' : pc'[v] = "ok"
    BY <2>1, <1>1, <1>3 DEF JoinInv, Nothing
  <2>4. /\ pc[w] = "error" => \E i \in Jobs : Outcome(ranges[i]) = "error"
        /\ pc[w] = "panic" => \E i \in Jobs : Outcome(ranges[i]) = "panic"
    BY <1>10 DEF WorkerInv
  <2>5. /\ err' = "error" => \E i \in Jobs' : Outcome(ranges[i])' = "error"
        /\ err' = "corruption" => \E i \in Jobs' : Outcome(ranges[i])' = "panic"
    <3>1. /\ err' = "error" => \E i \in Jobs : Outcome(ranges[i]) = "error"
          /\ err' = "corruption" => \E i \in Jobs : Outcome(ranges[i]) = "panic"
      BY <2>4, <1>1, <1>3 DEF JoinInv
    <3> QED BY <3>1, <1>2
  <2>6. \A v \in 1..joined' : pc'[v] = "ok" =>
          \A j \in done'[v] : parts'[j] = Frame(ranges[j])'
    <3> SUFFICES ASSUME NEW v \in 1..joined', pc[v] = "ok", NEW j \in done[v]
                 PROVE  parts'[j] = Frame(ranges[j])'
      BY <1>1
    <3>1. v \in DOMAIN pc
      BY <2>1, <1>1, <1>3, <1>4 DEF WorkInv, JoinInv
    <3>2. j \in Jobs
      BY <3>1 DEF IInv, TypeOK
    <3>3. parts'[j] = Frame(ranges[j])
      BY <2>1, <3>2, <1>1, <1>3 DEF JoinInv
    <3> QED BY <3>2, <3>3, <1>2
  <2>7. joined' <= Threads'
    BY <1>1, <1>2, <1>4
  <2>8. parts' = [j \in Jobs' |-> parts'[j]]
    <3>1. parts' = [j \in Jobs |-> parts'[j]]
      BY <1>1, <1>3 DEF JoinInv
    <3> QED BY <3>1, <1>2
  <2>9. DOMAIN parts' = Jobs'
    BY <1>2, <1>6
  <2> QED BY <2>2, <2>3, <2>5, <2>6, <2>7, <2>8, <2>9 DEF JoinInv
<1> QED BY <1>2, <1>7, <1>8, <1>9, <1>11 DEF IInv, Threading

\* A clean join of every worker has a frame for every range.
LEMMA JoinReturnStep == ASSUME IInv, JoinReturn PROVE IInv'
<1> USE DEF Pending, Nothing
<1>1. /\ phase = "threads" /\ phase' = "returned" /\ joined = Threads
      /\ Fixed /\ UNCHANGED off /\ UNCHANGED <<joined, parts, err>>
      /\ UNCHANGED <<next, pc, job, done>>
      /\ result' = IF err = Nothing THEN [kind |-> "ok", frames |-> parts]
                   ELSE [kind |-> "err", error |-> err]
  BY DEF JoinReturn, Returned, Fixed, cutting, workers, joining
<1>2. Jobs' = Jobs /\ Jobs = 1..Len(ranges) /\ Len(ranges) \in Nat /\ Len(ranges) > 1
      /\ \A i \in Jobs : Frame(ranges[i])' = Frame(ranges[i])
                         /\ Outcome(ranges[i])' = Outcome(ranges[i])
  BY <1>1, FixedRanges, ConfigType DEF IInv, PhaseInv
<1>3. WorkInv /\ EachRangeOnce /\ JoinInv
  BY DEF IInv, Threading
<1>4. TypeOK'
  <2>1. result'.kind \in {"pending", "ok", "err", "panic"}
    BY <1>1
  <2> QED BY <1>1, <1>2, <2>1, Zenon DEF IInv, TypeOK, Fixed
<1>5. Geometry'
  BY <1>1, GeometryKept DEF IInv
<1>6. PhaseInv' /\ LoopInv'
  BY <1>1 DEF PhaseInv, LoopInv, IInv, Fixed
<1>7. Threading'
  BY <1>1, <1>3 DEF Threading, WorkInv, EachRangeOnce, JoinInv, Taken, Fixed
<1>8. CASE err = Nothing
  <2>1. DOMAIN pc = 1..Threads /\ Threads \in Nat /\ Threads >= 1 /\ next \in Nat
    BY <1>1, <1>3, ThreadsBound DEF WorkInv, IInv, TypeOK
  <2>2. \A w \in DOMAIN pc : pc[w] = "ok" /\ WorkerInv(w) /\ Taken(w) = done[w]
    BY <2>1, <1>1, <1>3, <1>8 DEF JoinInv, WorkInv, Taken
  <2>3. next > Len(ranges)
    <3>1. 1 \in DOMAIN pc
      BY <2>1
    <3> QED BY <3>1, <2>2 DEF WorkerInv
  <2>4. \A j \in Jobs : \E w \in DOMAIN pc : j \in done[w]
    <3> SUFFICES ASSUME NEW j \in Jobs
                 PROVE  \E w \in DOMAIN pc : j \in done[w]
      OBVIOUS
    <3>1. j < next
      BY <2>1, <2>3, <1>2
    <3>2. PICK w \in DOMAIN pc : j \in Taken(w)
      BY <3>1, <1>1, <1>3 DEF EachRangeOnce
    <3> QED BY <3>2, <2>2
  <2>5. \A j \in Jobs : parts[j] = Frame(ranges[j]) /\ Outcome(ranges[j]) = "ok"
    BY <2>1, <2>2, <2>4, <1>1, <1>3 DEF JoinInv, WorkerInv
  <2>6. \A j \in Jobs' : parts[j] = Frame(ranges[j])' /\ Outcome(ranges[j])' = "ok"
    BY <2>5, <1>2
  <2>7. parts = [i \in Jobs' |-> Frame(ranges[i])']
    <3>1. DOMAIN parts = Jobs'
      BY <1>1, <1>2, <1>3 DEF JoinInv
    <3>2. parts = [i \in Jobs |-> parts[i]]
      BY <1>1, <1>3 DEF JoinInv
    <3>3. Jobs' = Jobs
      BY <1>2
    <3> QED BY <2>6, <3>2, <3>3
  <2>8. ~(Len(ranges') <= 1) /\ result' = [kind |-> "ok", frames |-> parts]
    BY <1>1, <1>2, <1>8 DEF Fixed
  <2>9. AsIfInOrder'
    BY <2>6, <2>7, <2>8 DEF AsIfInOrder
  <2> QED BY <2>9, <1>4, <1>5, <1>6, <1>7 DEF IInv
<1>9. CASE err # Nothing
  <2>1. result' = [kind |-> "err", error |-> err] /\ ~(Len(ranges') <= 1)
    BY <1>1, <1>2, <1>9 DEF Fixed
  <2>2. err \in {"error", "corruption"}
    BY <1>9 DEF IInv, TypeOK
  <2>3. /\ err = "error" => \E i \in Jobs' : Outcome(ranges[i])' = "error"
        /\ err = "corruption" => \E i \in Jobs' : Outcome(ranges[i])' = "panic"
    <3>1. /\ err = "error" => \E i \in Jobs : Outcome(ranges[i]) = "error"
          /\ err = "corruption" => \E i \in Jobs : Outcome(ranges[i]) = "panic"
      BY <1>1, <1>3 DEF JoinInv
    <3> QED BY <3>1, <1>2
  <2>4. AsIfInOrder'
    BY <2>1, <2>2, <2>3 DEF AsIfInOrder
  <2> QED BY <2>4, <1>4, <1>5, <1>6, <1>7 DEF IInv
<1> QED BY <1>8, <1>9

LEMMA StutterStep == ASSUME IInv, UNCHANGED vars PROVE IInv'
<1>1. /\ UNCHANGED <<config, ranges>> /\ UNCHANGED <<phase, off>>
      /\ UNCHANGED <<next, pc, job, done>>
      /\ UNCHANGED <<joined, parts, err>> /\ UNCHANGED result
  BY DEF vars, cutting, workers, joining
<1>2. TypeOK'
  BY <1>1 DEF IInv, TypeOK, Jobs
<1>3. Geometry'
  BY <1>1, GeometryKept DEF IInv, Fixed
<1>4. PhaseInv' /\ LoopInv'
  BY <1>1 DEF IInv, PhaseInv, LoopInv, Frame, Outcome, Prime, PrimeOnly, Overlap
<1>5. WorkInv' /\ EachRangeOnce'
  BY <1>1 DEF IInv, Threading, WorkInv, WorkerInv, EachRangeOnce, Taken, Jobs, Threads, Outcome
<1>6. JoinInv'
  <2> USE <1>1, FixedRanges DEF Fixed
  <2>1. JoinInv
    BY DEF IInv, Threading
  <2>2. \A w \in 1..joined : phase = "threads" /\ pc[w] = "ok" => done[w] \subseteq Jobs
    BY ThreadsBound DEF IInv, TypeOK, Threading, WorkInv, JoinInv
  <2> QED BY <2>1, <2>2 DEF JoinInv
<1>7. AsIfInOrder'
  BY <1>1, FixedRanges DEF IInv, AsIfInOrder, Fixed
<1> QED BY <1>2, <1>3, <1>4, <1>5, <1>6, <1>7 DEF IInv, Threading

-----------------------------------------------------------------------------
(* The theorems *)

\* Every reachable state of every call satisfies the inductive invariant.
THEOREM Invariant == Spec => []IInv
<1>1. Init => IInv
  BY InitInv
<1>2. IInv /\ [Next]_vars => IInv'
  <2> SUFFICES ASSUME IInv, [Next]_vars
               PROVE  IInv'
    OBVIOUS
  <2>1. CASE Main
    BY <2>1, CutStep, OneShotStep, StartLoopStep, StartThreadsStep, LoopEncodeStep,
       LoopReturnStep, JoinStep, JoinReturnStep DEF Main
  <2>2. ASSUME NEW w \in 1..NbWorkersMax, Work(w)
        PROVE  IInv'
    <3>1. w \in DOMAIN pc
      BY <2>2 DEF Work
    <3>2. CASE Claim(w)
      BY <3>1, <3>2, ClaimStep
    <3>3. CASE Encode(w)
      BY <3>1, <3>3, EncodeStep
    <3> QED BY <2>2, <3>2, <3>3 DEF Work
  <2>3. CASE UNCHANGED vars
    BY <2>3, StutterStep
  <2> QED BY <2>1, <2>2, <2>3 DEF Next, Finished
<1> QED BY <1>1, <1>2, PTL DEF Spec

\* Every variable of a call keeps its type (compress_mt, run_jobs).
THEOREM TypeCorrect == Spec => []TypeOK
<1>1. IInv => TypeOK
  BY DEF IInv
<1> QED BY <1>1, Invariant, PTL

\* The ranges compress_mt cuts, by job size or at sync points, lie end to end
\* and none is empty.
THEOREM RangesTileHolds == Spec => []RangesTile
<1>1. IInv => RangesTile
  BY DEF IInv, Geometry
<1> QED BY <1>1, Invariant, PTL

\* A range is at most a job long and at least the minimum, but for the last.
THEOREM RangeLengthsHolds == Spec => []RangeLengths
<1>1. IInv => RangeLengths
  BY DEF IInv, Geometry
<1> QED BY <1>1, Invariant, PTL

\* The shared cursor of run_jobs hands each range to exactly one worker, for any
\* number of workers and ranges.
THEOREM EachRangeOnceHolds == Spec => []EachRangeOnce
<1>1. IInv => EachRangeOnce
  BY DEF IInv, Threading
<1> QED BY <1>1, Invariant, PTL

\* No schedule of run_jobs' workers reaches the output: a success is the frames
\* of the ranges in order, a failure is one that some range met.
THEOREM AsIfInOrderHolds == Spec => []AsIfInOrder
<1>1. IInv => AsIfInOrder
  BY DEF IInv
<1> QED BY <1>1, Invariant, PTL

\* What a frame's decoder must hold does not include another range's output: the
\* overlap only primes the tables (prime_only in encode_oneshot).
LEMMA NeedsOfAFrame ==
  ASSUME config \in Call, NEW r
  PROVE  (Frame(r)).needs \in IF config.dict THEN {"dictionary"}
                              ELSE IF r.from = 0 /\ config.prefix THEN {"prefix"} ELSE {Nothing}
<1>1. config.dict \in BOOLEAN /\ config.prefix \in BOOLEAN
  BY DEF Call
<1>2. (Frame(r)).needs = IF PrimeOnly(r.from) THEN Nothing ELSE Prime(r.from)
  BY DEF Frame
<1>3. CASE config.dict
  BY <1>2, <1>3 DEF PrimeOnly, Prime
<1>4. CASE ~config.dict /\ r.from = 0
  BY <1>1, <1>2, <1>4 DEF PrimeOnly, Prime
<1>5. CASE ~config.dict /\ r.from # 0
  BY <1>2, <1>5 DEF PrimeOnly
<1> QED BY <1>1, <1>3, <1>4, <1>5

LEMMA StandAlone == IInv => FramesStandAlone
<1> SUFFICES ASSUME IInv, result.kind = "ok"
             PROVE  FramesStandAlone
  BY DEF FramesStandAlone
<1> DEFINE f == result.frames
<1>1. phase # "cut" /\ off = config.len
  BY DEF IInv, PhaseInv, Pending
<1>2. /\ config \in Call /\ config.len \in Nat /\ Len(ranges) \in Nat
      /\ Jobs = 1..Len(ranges) /\ RangesTile
  BY ConfigType DEF IInv, Geometry
<1>3. CASE Len(ranges) <= 1
  <2>1. f = <<Frame(Whole)>>
    BY <1>3 DEF IInv, AsIfInOrder
  <2>2. /\ Len(f) = 1 /\ f[1] = Frame(Whole)
    BY <2>1
  <2>3. f[1].from = 0 /\ f[1].to = config.len
    BY <2>2 DEF Frame, Whole
  <2>4. f[1].needs \in IF config.dict THEN {"dictionary"}
                       ELSE IF config.prefix THEN {"prefix"} ELSE {Nothing}
    BY <2>2, <1>2, NeedsOfAFrame DEF Whole
  <2> HIDE DEF f
  <2>5. \A i \in 1..Len(f) : i = 1
    BY <2>2
  <2>6. 2..Len(f) = {}
    BY <2>2
  <2> QED BY <2>2, <2>3, <2>4, <2>5, <2>6 DEF FramesStandAlone, f
<1>4. CASE Len(ranges) > 1
  <2>1. f = [i \in Jobs |-> Frame(ranges[i])]
    BY <1>2, <1>4 DEF IInv, AsIfInOrder
  <2>2. Len(f) = Len(ranges) /\ \A i \in Jobs : f[i] = Frame(ranges[i])
    BY <2>1, <1>2
  <2> HIDE DEF f
  <2>3. \A i \in Jobs : f[i].from = ranges[i].from /\ f[i].to = ranges[i].to
    <3>1. ASSUME NEW r
          PROVE  (Frame(r)).from = r.from /\ (Frame(r)).to = r.to
      BY DEF Frame
    <3> QED BY <2>2, <3>1, Zenon
  <2>4. 1 \in Jobs /\ Len(ranges) \in Jobs /\ ranges # <<>>
    <3>1. Len(<<>>) = 0
      OBVIOUS
    <3> QED BY <3>1, <1>2, <1>4
  <2>5. ranges[1].from = 0 /\ ranges[Len(ranges)].to = config.len
    BY <2>4, <1>1, <1>2 DEF RangesTile
  <2>6. f[1].from = 0 /\ f[Len(f)].to = config.len
    BY <2>2, <2>3, <2>4, <2>5
  <2>7. \A i \in 2..Len(f) : f[i].from = f[i-1].to
    <3> SUFFICES ASSUME NEW i \in 2..Len(f)
                 PROVE  f[i].from = f[i-1].to
      OBVIOUS
    <3>1. i \in Jobs /\ i - 1 \in Jobs /\ i # 1
      BY <1>2, <2>2
    <3> QED BY <3>1, <2>3, <1>2 DEF RangesTile
  <2>8. \A i \in 1..Len(f) :
           f[i].needs \in IF config.dict THEN {"dictionary"}
                          ELSE IF i = 1 /\ config.prefix THEN {"prefix"} ELSE {Nothing}
    <3> SUFFICES ASSUME NEW i \in Jobs
                 PROVE  f[i].needs \in IF config.dict THEN {"dictionary"}
                                       ELSE IF i = 1 /\ config.prefix THEN {"prefix"}
                                       ELSE {Nothing}
      BY <1>2, <2>2
    <3>1. ranges[i].from = 0 => i = 1
      <4> SUFFICES ASSUME i # 1
                   PROVE  ranges[i].from # 0
        OBVIOUS
      <4>1. i - 1 \in Jobs /\ ranges[i].from = ranges[i-1].to
        BY <1>2 DEF RangesTile
      <4>2. ranges[i-1].from < ranges[i-1].to /\ ranges[i-1] \in Range
        BY <4>1, <1>2, ConfigType DEF RangesTile, IInv
      <4> QED BY <4>1, <4>2 DEF Range
    <3>2. i = 1 => ranges[i].from = 0
      BY <2>5
    <3>3. f[i].needs \in IF config.dict THEN {"dictionary"}
                         ELSE IF ranges[i].from = 0 /\ config.prefix THEN {"prefix"}
                         ELSE {Nothing}
      BY <2>2, <1>2, NeedsOfAFrame
    <3> QED BY <3>1, <3>2, <3>3
  <2> QED BY <2>6, <2>7, <2>8 DEF FramesStandAlone, f
<1> QED BY <1>2, <1>3, <1>4

\* What compress_mt returns is frames that concatenate to the source and decode
\* one by one: none needs what another one holds.
THEOREM FramesStandAloneHolds == Spec => []FramesStandAlone
BY Invariant, StandAlone, PTL
=============================================================================
