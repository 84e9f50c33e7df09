------------------------------- MODULE MtJobs -------------------------------
(***************************************************************************)
(* compress_mt (mt.rs): the source is cut into ranges, each a frame of its *)
(* own, and run_jobs encodes them on worker threads that claim the next    *)
(* range from a shared cursor.  One call is modelled, from the cutting to  *)
(* the result it returns.                                                  *)
(*                                                                         *)
(* encode_oneshot is a function of its range: it makes a frame, fails or   *)
(* panics, as the call's sets errors and panics say.                 *)
(***************************************************************************)
EXTENDS Sections, Sequences

CONSTANTS Calls,        \* the calls made: their arguments, and what encoding does
          Window,       \* 1 << window_log
          NbWorkersMax  \* NB_WORKERS_MAX

\* A source of len units whose rolling hash hits at hits; encoding a range that
\* begins at one of errors or panics fails so.
Call ==
  [len : Nat, hits : SUBSET Nat, nb_workers : Nat, job_size : Nat,
   overlap_log : 0..9, optimal : BOOLEAN, rsyncable : BOOLEAN,
   dict : BOOLEAN, prefix : BOOLEAN, errors : SUBSET Nat, panics : SUBSET Nat]

ASSUME MtAssumption ==
  Calls \subseteq Call /\ Window \in Nat \ {0} /\ NbWorkersMax \in Nat \ {0}

VARIABLES config,   \* the call's arguments
          phase,    \* "cut" | "loop" | "threads" | "returned"
          off,      \* where the next range begins
          ranges,   \* the ranges so far
          next,     \* the shared cursor (one more than the code's: ranges count from 1)
          pc,       \* of each worker: "off" | "claim" | "encode" | "ok" | "error" | "panic"
          job,      \* the range each worker has claimed last
          done,     \* the ranges each worker has encoded
          joined,   \* handles joined so far
          parts,    \* a frame for each range placed by index
          err,      \* the error kept while joining
          result    \* what the call returns

cutting == <<off, ranges>>
workers == <<next, pc, job, done>>
joining == <<joined, parts, err>>
vars == <<config, phase, cutting, workers, joining, result>>

Pending == [kind |-> "pending"]
Nothing == "nothing"

Overlap == OverlapSize(Window, config.overlap_log, config.optimal)
JobSize == ResolveJobSize(config.job_size, Window, Overlap)
Jobs == 1..Len(ranges)
\* nthreads: never more than there are ranges.
Threads == Least(Least(Greatest(config.nb_workers, 1), NbWorkersMax),
                 Greatest(Len(ranges), 1))

\* What primes the match tables of a range's frame, and whether its matches may
\* reach there: never into the overlap (prime_only).
Prime(from) ==
  CASE config.dict -> "dictionary"
    [] ~config.dict /\ from = 0 -> IF config.prefix THEN "prefix" ELSE Nothing
    [] OTHER -> IF Least(from, Overlap) > 0 THEN "overlap" ELSE Nothing
\* Mutant: the overlap is taken for a prefix.
PrimeOnly_mut(from) == FALSE
PrimeOnly(from) == from # 0 /\ ~config.dict

\* encode_oneshot: the frame of a range, and the history its decoder must have.
Frame(r) ==
  [from |-> r.from, to |-> r.to,
   needs |-> IF PrimeOnly(r.from) THEN Nothing ELSE Prime(r.from)]
\* The Vec::new() that parts begins with.
Empty == [from |-> 0, to |-> 0, needs |-> Nothing]
Outcome(r) == IF r.from \in config.panics THEN "panic"
              ELSE IF r.from \in config.errors THEN "error" ELSE "ok"

Init ==
  /\ config \in Calls
  /\ phase = "cut" /\ off = 0 /\ ranges = <<>>
  /\ next = 1 /\ pc = <<>> /\ job = <<>> /\ done = <<>>
  /\ joined = 0 /\ parts = <<>> /\ err = Nothing
  /\ result = Pending

(***************************************************************************)
(* The cutting, one range a step.                                          *)
(***************************************************************************)
RangeEnd ==
  IF config.rsyncable THEN SectionEnd(config.hits, config.len, off, JobSize)
  ELSE JobEnd(config.len, off, JobSize)

Cut ==
  /\ phase = "cut" /\ off < config.len
  /\ ranges' = Append(ranges, [from |-> off, to |-> RangeEnd])
  /\ off' = RangeEnd
  /\ UNCHANGED <<config, phase, workers, joining, result>>

Returned(r) == phase' = "returned" /\ result' = r

\* encode_oneshot over the whole source, and what becomes of its outcome.
Whole == [from |-> 0, to |-> config.len]
Failed(what) ==
  IF what = "panic" THEN [kind |-> "panic"] ELSE [kind |-> "err", error |-> what]

OneShot ==
  /\ phase = "cut" /\ off >= config.len /\ Len(ranges) <= 1
  /\ Returned(IF Outcome(Whole) = "ok"
              THEN [kind |-> "ok", frames |-> <<Frame(Whole)>>]
              ELSE Failed(Outcome(Whole)))
  /\ UNCHANGED <<config, cutting, workers, joining>>

\* One worker: no thread is spawned.
StartLoop ==
  /\ phase = "cut" /\ off >= config.len /\ Len(ranges) > 1 /\ Threads = 1
  /\ phase' = "loop"
  /\ UNCHANGED <<config, cutting, workers, joining, result>>

StartThreads ==
  /\ phase = "cut" /\ off >= config.len /\ Len(ranges) > 1 /\ Threads > 1
  /\ phase' = "threads"
  /\ pc' = [w \in 1..Threads |-> "claim"]
  /\ job' = [w \in 1..Threads |-> 0]
  /\ done' = [w \in 1..Threads |-> {}]
  /\ parts' = [j \in Jobs |-> Empty]
  /\ UNCHANGED <<config, cutting, next, joined, err, result>>

(***************************************************************************)
(* The loop without threads: the first failure ends it.                    *)
(***************************************************************************)
LoopEncode ==
  /\ phase = "loop" /\ Len(parts) < Len(ranges)
  /\ LET r == ranges[Len(parts) + 1]
     IN IF Outcome(r) = "ok"
        THEN /\ parts' = Append(parts, Frame(r))
             /\ UNCHANGED <<phase, result>>
        ELSE /\ Returned(Failed(Outcome(r)))
             /\ UNCHANGED parts
  /\ UNCHANGED <<config, cutting, workers, joined, err>>

LoopReturn ==
  /\ phase = "loop" /\ Len(parts) = Len(ranges)
  /\ Returned([kind |-> "ok", frames |-> parts])
  /\ UNCHANGED <<config, cutting, workers, joining>>

(***************************************************************************)
(* A worker: claim the next range, encode it; return what it has encoded   *)
(* when there is no more, or the error of the first that fails.            *)
(***************************************************************************)
\* Mutant: the cursor is read and written back in two steps.
Claim_mut(w) ==
  /\ phase = "threads" /\ pc[w] = "claim"
  /\ \/ next' = next + 1
     \/ next' = next /\ \E v \in DOMAIN pc \ {w} : pc[v] = "claim"
  /\ IF next \in Jobs
     THEN pc' = [pc EXCEPT ![w] = "encode"] /\ job' = [job EXCEPT ![w] = next]
     ELSE pc' = [pc EXCEPT ![w] = "ok"] /\ UNCHANGED job
  /\ UNCHANGED <<config, phase, cutting, done, joining, result>>
Claim(w) ==
  /\ phase = "threads" /\ pc[w] = "claim"
  /\ next' = next + 1
  /\ IF next \in Jobs
     THEN pc' = [pc EXCEPT ![w] = "encode"] /\ job' = [job EXCEPT ![w] = next]
     ELSE pc' = [pc EXCEPT ![w] = "ok"] /\ UNCHANGED job
  /\ UNCHANGED <<config, phase, cutting, done, joining, result>>

\* Mutant: a range whose encoding fails is tried again.
Encode_mut(w) ==
  /\ phase = "threads" /\ pc[w] = "encode"
  /\ Outcome(ranges[job[w]]) = "ok"
  /\ done' = [done EXCEPT ![w] = @ \union {job[w]}]
  /\ pc' = [pc EXCEPT ![w] = "claim"]
  /\ UNCHANGED <<config, phase, cutting, next, job, joining, result>>
Encode(w) ==
  /\ phase = "threads" /\ pc[w] = "encode"
  /\ LET what == Outcome(ranges[job[w]])
     IN IF what = "ok"
        THEN /\ done' = [done EXCEPT ![w] = @ \union {job[w]}]
             /\ pc' = [pc EXCEPT ![w] = "claim"]
        ELSE /\ pc' = [pc EXCEPT ![w] = what]
             /\ UNCHANGED done
  /\ UNCHANGED <<config, phase, cutting, next, job, joining, result>>

(***************************************************************************)
(* The calling thread joins the handles in the order it spawned them, and  *)
(* goes on past a failed one; the last failure is the one it returns.      *)
(***************************************************************************)
\* Mutant: a later success clears the error kept.
Join_mut ==
  /\ phase = "threads" /\ joined < Threads
  /\ LET w == joined + 1
     IN /\ pc[w] \in {"ok", "error", "panic"}
        /\ joined' = w
        /\ parts' = IF pc[w] = "ok"
                    THEN [j \in Jobs |-> IF j \in done[w] THEN Frame(ranges[j]) ELSE parts[j]]
                    ELSE parts
        /\ err' = CASE pc[w] = "ok" -> Nothing
                    [] pc[w] = "error" -> "error"
                    [] pc[w] = "panic" -> "corruption"
  /\ UNCHANGED <<config, phase, cutting, workers, result>>
Join ==
  /\ phase = "threads" /\ joined < Threads
  /\ LET w == joined + 1
     IN /\ pc[w] \in {"ok", "error", "panic"}
        /\ joined' = w
        /\ parts' = IF pc[w] = "ok"
                    THEN [j \in Jobs |-> IF j \in done[w] THEN Frame(ranges[j]) ELSE parts[j]]
                    ELSE parts
        /\ err' = CASE pc[w] = "ok" -> err
                    [] pc[w] = "error" -> "error"
                    [] pc[w] = "panic" -> "corruption"
  /\ UNCHANGED <<config, phase, cutting, workers, result>>

JoinReturn ==
  /\ phase = "threads" /\ joined = Threads
  /\ Returned(IF err = Nothing THEN [kind |-> "ok", frames |-> parts]
              ELSE [kind |-> "err", error |-> err])
  /\ UNCHANGED <<config, cutting, workers, joining>>

Work(w) == w \in DOMAIN pc /\ (Claim(w) \/ Encode(w))
Main == Cut \/ OneShot \/ StartLoop \/ StartThreads \/ LoopEncode \/ LoopReturn
        \/ Join \/ JoinReturn
Finished == phase = "returned" /\ UNCHANGED vars

Next == Main \/ (\E w \in 1..NbWorkersMax : Work(w)) \/ Finished

Spec == Init /\ [][Next]_vars
FairSpec == Spec /\ WF_vars(Main) /\ \A w \in 1..NbWorkersMax : WF_vars(Work(w))

-----------------------------------------------------------------------------
(* Properties *)

Range == [from : Nat, to : Nat]
FrameType == [from : Nat, to : Nat, needs : {"dictionary", "prefix", "overlap", Nothing}]

\* Every variable has its type (compress_mt, run_jobs).
TypeOK ==
  /\ config \in Calls
  /\ phase \in {"cut", "loop", "threads", "returned"}
  /\ off \in Nat /\ ranges \in Seq(Range)
  /\ next \in Nat \ {0}
  /\ DOMAIN job = DOMAIN pc /\ DOMAIN done = DOMAIN pc
  /\ \A w \in DOMAIN pc : /\ pc[w] \in {"claim", "encode", "ok", "error", "panic"}
                          /\ job[w] \in Nat /\ done[w] \subseteq Jobs
                          /\ pc[w] = "encode" => job[w] \in Jobs
  /\ joined \in Nat
  /\ \A j \in DOMAIN parts : parts[j] \in FrameType
  /\ err \in {Nothing, "error", "corruption"}
  /\ result.kind \in {"pending", "ok", "err", "panic"}

\* The ranges lie end to end from the source's first unit to off, none of them
\* empty: the sections tile the source (the comment at rsync_sections).
RangesTile ==
  /\ \A i \in Jobs : ranges[i].from < ranges[i].to
  /\ \A i \in Jobs : ranges[i].from = IF i = 1 THEN 0 ELSE ranges[i-1].to
  /\ off = IF ranges = <<>> THEN 0 ELSE ranges[Len(ranges)].to
  /\ off <= config.len

\* A range is no longer than a job, and only the source's last may be shorter
\* than the least a job may be: no sync point is taken too soon, none is needed
\* for a section to end (rsync_sections, resolve_job_size).
RangeLengths ==
  \A i \in Jobs :
    /\ ranges[i].to - ranges[i].from <= Greatest(JobSize, RsyncMin)
    /\ \/ ranges[i].to = config.len
       \/ ranges[i].to - ranges[i].from >= IF config.rsyncable THEN RsyncMin ELSE JobSizeMin

Taken(w) ==
  done[w] \union (IF pc[w] \in {"encode", "error", "panic"} THEN {job[w]} ELSE {})

\* No range is encoded twice and none is passed over: every range below the
\* cursor is with exactly one worker (the shared cursor of run_jobs).
EachRangeOnce ==
  /\ \A v, w \in DOMAIN pc : v # w => Taken(v) \intersect Taken(w) = {}
  /\ phase = "threads" =>
       \A j \in Jobs : j < next <=> \E w \in DOMAIN pc : j \in Taken(w)

\* However the workers were scheduled, a success is what encoding the ranges
\* one after the other makes, in the source's order, and is returned only when
\* every range was encoded; a failure is one some range's encoding met (the
\* comment in run_jobs: "scheduling order cannot reach the output").
AsIfInOrder ==
  LET Met(what) == IF Len(ranges) <= 1 THEN Outcome(Whole) = what
                   ELSE \E i \in Jobs : Outcome(ranges[i]) = what
  IN /\ result.kind = "ok" =>
          /\ ~Met("error") /\ ~Met("panic")
          /\ result.frames = IF Len(ranges) <= 1 THEN <<Frame(Whole)>>
                             ELSE [i \in Jobs |-> Frame(ranges[i])]
     /\ result.kind = "err" => Met(IF result.error = "error" THEN "error" ELSE "panic")
     /\ result.kind = "panic" => Met("panic")

\* The frames returned hold the source's units in order, each once, and the
\* history a frame's decoder must have is the dictionary, or the caller's prefix
\* for the first frame, never the output of another frame (prime_only).
FramesStandAlone ==
  result.kind = "ok" =>
    LET f == result.frames
    IN /\ f[1].from = 0 /\ f[Len(f)].to = config.len
       /\ \A i \in 2..Len(f) : f[i].from = f[i-1].to
       /\ \A i \in 1..Len(f) :
            f[i].needs \in IF config.dict THEN {"dictionary"}
                           ELSE IF i = 1 /\ config.prefix THEN {"prefix"} ELSE {Nothing}

\* The call returns: no worker and no join waits for ever, whatever fails.
Returns == <>(phase = "returned")
=============================================================================
