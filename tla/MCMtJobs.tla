------------------------------ MODULE MCMtJobs ------------------------------
(***************************************************************************)
(* Small calls for MtJobs.                                                 *)
(***************************************************************************)
EXTENDS MtJobs

Of(len, n, size) ==
  [len |-> len, hits |-> {}, nb_workers |-> n, job_size |-> size,
   overlap_log |-> 9, optimal |-> FALSE, rsyncable |-> FALSE, dict |-> FALSE,
   prefix |-> FALSE, errors |-> {}, panics |-> {}]

\* Four jobs in a loop or on three workers, each encoded, failing or panicking.
Schedules ==
  {[Of(8, w, 2) EXCEPT !.errors = o.errors, !.panics = o.panics] :
     w \in {0, 9},
     o \in {p \in [errors : SUBSET {0, 2, 4, 6}, panics : SUBSET {0, 2, 4, 6}] :
              p.errors \intersect p.panics = {}}}

\* Every way to cut: lengths about the minimum, sync points, overlaps, histories.
Cuttings ==
  {[Of(len, 2, size) EXCEPT !.hits = hits, !.overlap_log = log, !.optimal = opt,
                           !.rsyncable = rs, !.dict = d, !.prefix = p] :
     len \in {0, 2, 7}, size \in {0, 1, 3}, log \in {0, 1, 9},
     hits \in {{}, {2, 3, 5}, {1, 4}},
     opt \in BOOLEAN, rs \in BOOLEAN, d \in BOOLEAN, p \in BOOLEAN}

SomeCalls == Schedules \cup Cuttings
=============================================================================
