---------------------------- MODULE DigestCache ----------------------------
(***************************************************************************)
(* The digested dictionary of encode.rs: what threads that compress        *)
(* against dictionaries share and keep from call to call.  A dictionary    *)
(* owns at most DigestSlots snapshots of primed match tables, behind a     *)
(* lock; a thread owns one working set, whose tables equal the snapshot it *)
(* mirrors whenever the set is parked.                                     *)
(*                                                                         *)
(* A table state is the snapshot it was seated from and the slots a frame  *)
(* has overwritten since.  Which slots is data: the hashes of a message's  *)
(* positions are any set, and what a frame writes any of those it may.     *)
(***************************************************************************)
EXTENDS Naturals, FiniteSets, SequencesExt

CONSTANTS
    Threads,      \* threads that compress
    Addrs,        \* where the DictDigests of a dictionary can be allocated
    Contents,     \* what the dictionaries hold
    Params,       \* compression parameters a digest is kept for
    ClosedForm,   \* those of the Fast and DFast finders
    Strides,      \* values of the priming arm
    Slots,        \* slots of the match tables
    DigestSlots,  \* DIGEST_SLOTS
    SampleFirst, SampleEvery,  \* which dirty-slot restores are compared
    NoDict, NoDigest, NoWork

ASSUME ConstantsAreSane ==
    /\ DigestSlots \in Nat \ {0}
    /\ SampleFirst \in Nat
    /\ SampleEvery \in Nat \ {0}
    /\ NoDict \notin Contents
    /\ ClosedForm \subseteq Params

VARIABLES
    dicts,   \* per address, the dictionary living there and its slots
    work,    \* DICT_WORK of each thread
    call,    \* the call each thread is in
    stride,  \* PRIME_STRIDE_ARM
    broken,  \* DIGEST_DIRTY_BROKEN
    stray    \* whether finders store under a hash restore_dirty does not know

vars == <<dicts, work, call, stride, broken, stray>>

-----------------------------------------------------------------------------

Key == [params : Params, stride : Strides]

\* What prime_tables leaves in fresh tables.
Snapshot == [content : Contents, params : Params, stride : Strides]
Primed(c, k) == [content |-> c, params |-> k.params, stride |-> k.stride]

Digest == [key : Key, tables : Snapshot]

(***************************************************************************)
(* slots holds the keys seen, least recently looked up first: the order of *)
(* the ticks, which is all that matters of them.                           *)
(***************************************************************************)
DictDigests ==
    [content : Contents \cup {NoDict},
     slots : SeqOf([key : Key, digest : Digest \cup {NoDigest}], DigestSlots)]

DictWork ==
    [owner : Addrs, digest : Digest, tables : Snapshot, stale : SUBSET Slots,
     dirty_restores : Nat]

Call ==
    [at : {"lookup", "build", "encode"}, dict : Addrs, key : Key,
     work : DictWork \cup {NoWork}]

Idle == [at |-> "idle"]

TypeOK ==
    /\ dicts \in [Addrs -> DictDigests]
    /\ work \in [Threads -> DictWork \cup {NoWork}]
    /\ call \in [Threads -> Call \cup {Idle}]
    /\ stride \in Strides
    /\ broken \in BOOLEAN
    /\ stray \in BOOLEAN

Fresh(c) == [content |-> c, slots |-> <<>>]

Init ==
    /\ dicts = [a \in Addrs |-> Fresh(NoDict)]
    /\ work = [t \in Threads |-> NoWork]
    /\ call = [t \in Threads |-> Idle]
    /\ stride \in Strides
    /\ broken = FALSE
    /\ stray \in BOOLEAN

-----------------------------------------------------------------------------
(* Dictionaries come and go.  A Weak keeps its allocation from being reused,
   so no dictionary is born where a working set still points. *)

\* Every working set there is, parked or in a call.
Sets ==
    (({work[t] : t \in Threads}
        \cup {call[t].work : t \in {u \in Threads : call[u] # Idle}})
     \ {NoWork})

Free(a) ==
    /\ dicts[a].content = NoDict
    /\ \A w \in Sets : w.owner # a

NewDictionary(a, c) ==
    /\ Free(a)
    /\ dicts' = [dicts EXCEPT ![a] = Fresh(c)]
    /\ UNCHANGED <<work, call, stride, broken, stray>>

\* A call borrows its dictionary.
DropDictionary(a) ==
    /\ dicts[a].content # NoDict
    /\ \A t \in Threads : call[t] # Idle => call[t].dict # a
    /\ dicts' = [dicts EXCEPT ![a] = Fresh(NoDict)]
    /\ UNCHANGED <<work, call, stride, broken, stray>>

-----------------------------------------------------------------------------
(* One call of compress_using_dict.  Those that DIGEST_ARM or the parameters
   send to the legacy path at once change nothing here. *)

\* A parked set recognised by its key alone.
Mirrors_mut(w, a, k) == w # NoWork /\ w.digest.key = k

\* `acquire` serves the parked set as it is.
Mirrors(w, a, k) == w # NoWork /\ w.owner = a /\ w.digest.key = k

Begin(t, a, p) ==
    LET k == [params |-> p, stride |-> stride] IN
    /\ call[t] = Idle
    /\ dicts[a].content # NoDict
    /\ call' = [call EXCEPT ![t] =
                  [at |-> IF Mirrors(work[t], a, k) THEN "encode" ELSE "lookup",
                   dict |-> a, key |-> k, work |-> work[t]]]
    /\ work' = [work EXCEPT ![t] = NoWork]
    /\ UNCHANGED <<dicts, stride, broken, stray>>

\* The slot of key k in v, 0 when it has none.
Find(v, k) == SelectInSeq(v, LAMBDA s : s.key = k)

\* The slot moved to where the most recently looked-up one is.
Touch(v, i) == Append(RemoveAt(v, i), v[i])

\* A set seated on digest d: every table overwritten, whatever it held.
Seat(a, d) ==
    [owner |-> a, digest |-> d, tables |-> d.tables, stale |-> {},
     dirty_restores |-> 0]

LookupReady(t) ==
    LET c == call[t]
        v == dicts[c.dict].slots
        i == Find(v, c.key)
    IN  /\ c.at = "lookup"
        /\ i # 0
        /\ v[i].digest # NoDigest
        /\ dicts' = [dicts EXCEPT ![c.dict].slots = Touch(v, i)]
        /\ call' = [call EXCEPT ![t].at = "encode",
                                ![t].work = Seat(c.dict, v[i].digest)]
        /\ UNCHANGED <<work, stride, broken, stray>>

LookupBuild(t) ==
    LET c == call[t]
        v == dicts[c.dict].slots
        i == Find(v, c.key)
    IN  /\ c.at = "lookup"
        /\ i # 0
        /\ v[i].digest = NoDigest
        /\ dicts' = [dicts EXCEPT ![c.dict].slots = Touch(v, i)]
        /\ call' = [call EXCEPT ![t].at = "build"]
        /\ UNCHANGED <<work, stride, broken, stray>>

\* The key is remembered, the thread's set goes back where it was, and the
\* call takes the legacy path.
Evict(v) == IF Len(v) >= DigestSlots THEN Tail(v) ELSE v

LookupFirstSight(t) ==
    LET c == call[t]
        v == dicts[c.dict].slots
    IN  /\ c.at = "lookup"
        /\ Find(v, c.key) = 0
        /\ dicts' = [dicts EXCEPT ![c.dict].slots =
                        Append(Evict(v), [key |-> c.key, digest |-> NoDigest])]
        /\ work' = [work EXCEPT ![t] = c.work]
        /\ call' = [call EXCEPT ![t] = Idle]
        /\ UNCHANGED <<stride, broken, stray>>

\* Digest::build primes under the arm as it is now.
Build(c) ==
    [key |-> c.key,
     tables |-> Primed(dicts[c.dict].content, [c.key EXCEPT !.stride = stride])]

\* A publisher that trusts the place its key had when it looked it up.
Publish_mut(t) ==
    LET c == call[t]
        d == Build(c)
    IN  /\ c.at = "build"
        /\ dicts' = [dicts EXCEPT ![c.dict].slots =
                        [@ EXCEPT ![Len(@)].digest = d]]
        /\ call' = [call EXCEPT ![t].at = "encode", ![t].work = Seat(c.dict, d)]
        /\ UNCHANGED <<work, stride, broken, stray>>

\* `publish` : the first to arrive wins, and an evicted key stays evicted.
Publish(t) ==
    LET c == call[t]
        v == dicts[c.dict].slots
        i == Find(v, c.key)
        d == Build(c)
        won == i # 0 /\ v[i].digest = NoDigest
        use == IF i = 0 \/ won THEN d ELSE v[i].digest
    IN  /\ c.at = "build"
        /\ dicts' = IF won THEN [dicts EXCEPT ![c.dict].slots[i].digest = d]
                           ELSE dicts
        /\ call' = [call EXCEPT ![t].at = "encode", ![t].work = Seat(c.dict, use)]
        /\ UNCHANGED <<work, stride, broken, stray>>

(***************************************************************************)
(* What a frame may overwrite.  `short` : it is one block, and small       *)
(* enough for a dirty-slot restore to pay; `kept` : it ends in the         *)
(* representation it started in; `hashed` : the slots of its positions.    *)
(* Such a frame of a closed-form finder stores only in slots of its own    *)
(* positions, unless the finder has a store restore_dirty does not know.   *)
(***************************************************************************)
Frame == [short : BOOLEAN, kept : BOOLEAN, hashed : SUBSET Slots]

ClosedFormWrites(w, f) == f.short /\ f.kept /\ w.digest.key.params \in ClosedForm

Writes(w, f) ==
    IF ClosedFormWrites(w, f) /\ ~stray THEN SUBSET f.hashed ELSE SUBSET Slots

Used(w, written) == [w EXCEPT !.stale = @ \cup written]

RestoreFull(w) == [w EXCEPT !.tables = w.digest.tables, !.stale = {}]

\* dirty_restores, where only its first values and its residue are told apart.
Count(n) ==
    IF n < SampleFirst + SampleEvery THEN n + 1 ELSE n + 1 - SampleEvery

RestoreDirty(w, f) ==
    [w EXCEPT !.stale = @ \ f.hashed, !.dirty_restores = Count(@)]

Sampled(n) == n <= SampleFirst \/ n % SampleEvery = 0

AtRest(w) == w.tables = w.digest.tables /\ w.stale = {}

\* A comparison that turns the dirty path off and leaves the set as it is.
Serve_mut(t, f, arm) ==
    LET w == call[t].work
        dirty == arm /\ ClosedFormWrites(w, f) /\ ~broken
    IN  /\ call[t].at = "encode"
        /\ \E written \in Writes(w, f) :
             LET u == Used(w, written)
                 r == IF dirty THEN RestoreDirty(u, f) ELSE RestoreFull(u)
             IN  /\ work' = [work EXCEPT ![t] = r]
                 /\ broken' = (broken \/ (dirty /\ Sampled(r.dirty_restores) /\ ~AtRest(r)))
        /\ call' = [call EXCEPT ![t] = Idle]
        /\ UNCHANGED <<dicts, stride, stray>>

(***************************************************************************)
(* The frame, `restore` as a release build does it, and `release`.  Only   *)
(* `broken` is shared, and it is only ever set: reading and setting it in  *)
(* one step orders the restores by their reads.  DIGEST_ARM may be set at  *)
(* any time: what is read of it (`arm`) is a choice.                       *)
(***************************************************************************)
Serve(t, f, arm) ==
    LET w == call[t].work
        dirty == arm /\ ClosedFormWrites(w, f) /\ ~broken
    IN  /\ call[t].at = "encode"
        /\ \E written \in Writes(w, f) :
             LET u == Used(w, written)
                 r == IF dirty THEN RestoreDirty(u, f) ELSE RestoreFull(u)
                 fails == dirty /\ Sampled(r.dirty_restores) /\ ~AtRest(r)
             IN  /\ work' = [work EXCEPT ![t] = IF fails THEN RestoreFull(r) ELSE r]
                 /\ broken' = (broken \/ fails)
        /\ call' = [call EXCEPT ![t] = Idle]
        /\ UNCHANGED <<dicts, stride, stray>>

\* A set whose frame failed is dropped.
ServeError(t) ==
    /\ call[t].at = "encode"
    /\ call' = [call EXCEPT ![t] = Idle]
    /\ UNCHANGED <<dicts, work, stride, broken, stray>>

-----------------------------------------------------------------------------
(* The priming arm is process-global too.  Its setter is a bare store, which a
   bench makes between calls, as DigestKey says of the arms: no call is under way
   then, in which the key would be made under one value and the tables primed
   under another. *)

SetPrimeStride(s) ==
    /\ \A t \in Threads : call[t] = Idle
    /\ stride' = s
    /\ UNCHANGED <<dicts, work, call, broken, stray>>

Step(t) ==
    \/ LookupReady(t)
    \/ LookupBuild(t)
    \/ LookupFirstSight(t)
    \/ Publish(t)
    \/ \E f \in Frame, arm \in BOOLEAN : Serve(t, f, arm)
    \/ ServeError(t)

Next ==
    \/ \E a \in Addrs, c \in Contents : NewDictionary(a, c)
    \/ \E a \in Addrs : DropDictionary(a)
    \/ \E t \in Threads, a \in Addrs, p \in Params : Begin(t, a, p)
    \/ \E t \in Threads : Step(t)
    \/ \E s \in Strides : SetPrimeStride(s)

Spec == Init /\ [][Next]_vars

-----------------------------------------------------------------------------

(***************************************************************************)
(* A frame served from a digest starts from the tables that priming this   *)
(* dictionary under these parameters and arms would leave: its bytes are   *)
(* those of the legacy path.  (As long as the finders store where          *)
(* restore_dirty says they do.)                                            *)
(***************************************************************************)
StartsPrimed ==
    ~stray => \A t \in Threads : call[t].at = "encode" =>
        LET w == call[t].work IN
        /\ w.tables = Primed(dicts[call[t].dict].content, call[t].key)
        /\ w.stale = {}

(***************************************************************************)
(* Whoever builds it and whoever publishes it first, a snapshot kept under *)
(* a key is the one that key stands for, and a key has one slot.           *)
(***************************************************************************)
SnapshotsRight ==
    \A a \in Addrs :
        LET v == dicts[a].slots IN
        /\ \A i \in DOMAIN v : v[i].digest # NoDigest =>
              /\ v[i].digest.key = v[i].key
              /\ v[i].digest.tables = Primed(dicts[a].content, v[i].key)
        /\ \A i, j \in DOMAIN v : v[i].key = v[j].key => i = j

(***************************************************************************)
(* Even if a finder stores where restore_dirty does not look, a set whose  *)
(* last restore was compared is parked clean, and one parked dirty was     *)
(* not yet due: the comparison finds it at the latest SampleEvery restores *)
(* on.                                                                     *)
(***************************************************************************)
StaleOnlyUnsampled ==
    \A t \in Threads :
        LET w == work[t] IN
        (w # NoWork /\ ~AtRest(w)) => stray /\ ~Sampled(w.dirty_restores)
=============================================================================
