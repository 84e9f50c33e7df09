------------------------------ MODULE Sections ------------------------------
(***************************************************************************)
(* How a source is cut into jobs (mt.rs, ldm.rs): every JobSize bytes, or, *)
(* for --rsyncable, at its sync points.  Of the source's bytes only the    *)
(* positions just behind which the rolling hash hits (hits) matter.        *)
(***************************************************************************)
EXTENDS Integers, FiniteSets

CONSTANTS RsyncMin,     \* RSYNC_MIN_BLOCK
          JobSizeMin    \* JOB_SIZE_MIN

ASSUME SectionsAssumption == RsyncMin \in Nat \ {0} /\ JobSizeMin \in Nat \ {0}

Least(a, b) == IF a <= b THEN a ELSE b
Greatest(a, b) == IF a >= b THEN a ELSE b

DefaultOverlapLog(optimal) == IF optimal THEN 9 ELSE 6

\* Overlap bytes reloaded from the previous job.
OverlapSize(window, overlap_log, optimal) ==
  LET ov == IF overlap_log = 0 THEN DefaultOverlapLog(optimal) ELSE Least(overlap_log, 9)
  IN IF ov <= 1 THEN 0 ELSE window \div 2^(9 - ov)

ResolveJobSize(requested, window, overlap) ==
  LET raw == IF requested = 0 THEN 4 * window ELSE requested
  IN Greatest(Greatest(raw, JobSizeMin), overlap)

\* The sync points in from + 1 .. to.
SyncPoints(hits, from, to) == {q \in hits : from < q /\ q <= to}

\* Mutant: sections are full at fixed places of the source.
SectionEnd_mut(hits, len, start, max_len) ==
  LET m    == Greatest(max_len, RsyncMin)
      cap  == Least((start \div m + 1) * m, len)
      sync == SyncPoints(hits, start + RsyncMin - 1, cap)
  IN IF sync = {} THEN cap ELSE CHOOSE q \in sync : \A r \in sync : q <= r

\* Where the section that begins at start ends: at its first sync point, not
\* sooner than RsyncMin on, or when it is full.
SectionEnd(hits, len, start, max_len) ==
  LET cap  == Least(start + Greatest(max_len, RsyncMin), len)
      sync == SyncPoints(hits, start + RsyncMin - 1, cap)
  IN IF sync = {} THEN cap ELSE CHOOSE q \in sync : \A r \in sync : q <= r

\* Mutant: the last job is not cut short.
JobEnd_mut(len, start, job) == start + job
JobEnd(len, start, job) == Least(start + job, len)
=============================================================================
