---------------------------- MODULE CommandLine ----------------------------
(***************************************************************************)
(* The files of the command line (rusty_zstd-cli/src/lib.rs): for each     *)
(* file of a command in turn, read it, transform it in memory, write the   *)
(* result beside it and, with --rm, remove it.  Reading and writing may    *)
(* fail and the process may be killed between any two steps; commands      *)
(* follow one another on the same files.                                   *)
(*                                                                         *)
(* A name is a stem and how many ".zst" follow it.  What a file holds is   *)
(* known by the data it comes from, how many times that is compressed, and *)
(* at which of these layers, if any, bytes are missing at the end.         *)
(***************************************************************************)
EXTENDS Integers, SequencesExt

CONSTANTS
    Stems,     \* names without ".zst"
    NoStem,    \* the empty one, of a file called ".zst"
    MaxZst,    \* how many ".zst" a name of the model may have
    Commands,  \* what may be asked: [mode, keep, force, stdout, recursive, output,
               \* files]
    Disks,     \* what the names may hold at first
    Dir,       \* in a command's files: the directory that holds all of them
    MaxRuns,   \* the model's bound on commands
    None

ASSUME NamesAssumption ==
    NoStem \notin Stems /\ IsFiniteSet(Stems \cup {NoStem}) /\ MaxZst \in Nat \ {0}

VARIABLES
    disk,      \* what each name holds, or None
    args,      \* the command that runs
    files,     \* its files, directories walked
    at,        \* the one that is being worked on
    pc,        \* what is done to it next
    buf,       \* the result, in memory
    status,    \* how the last command ended
    runs,      \* how many have begun
    given_up   \* data whose last copy a command with -f was told to write over

vars == <<disk, args, files, at, pc, buf, status, runs, given_up>>

Names == [stem : Stems \cup {NoStem}, zst : 0..MaxZst]
Present == {n \in Names : disk[n] # None}

Compressed(c) == [c EXCEPT !.layers = @ + 1]
\* The beginning of c, of any length.
Torn(c) == [c EXCEPT !.torn = @ \cup {c.layers}]
Whole(c) == c.torn = {}

\* What decompressing c may give: an error, unless c is whole; a part, when it
\* ends where a frame of several does.
Decompressed(c) ==
    LET inner == [c EXCEPT !.layers = @ - 1, !.torn = @ \ {c.layers}] IN
    IF c.layers = 0 THEN {None}
    ELSE IF c.layers \in c.torn THEN {None, Torn(inner)} ELSE {inner}

AllData(d) == {d[n].data : n \in {m \in Names : d[m] # None}}

\* What a file of the model may hold.
Content ==
    {c \in [data : UNION {AllData(d) : d \in Disks}, layers : Nat, torn : SUBSET Nat] :
        c.torn \subseteq 0..c.layers}

Holds(d, data) ==
    \E n \in Names : d[n] # None /\ d[n].data = data /\ Whole(d[n])

\* The files are whole at first.
ASSUME DisksAssumption ==
    /\ None \notin Content
    /\ \A d \in Disks :
          /\ d \in [Names -> Content \cup {None}]
          /\ \A n \in Names : d[n] # None => Whole(d[n])

\* No command's -o names its own source, by itself or in a directory it walks.
ASSUME CommandsAssumption ==
    \A c \in Commands :
        /\ c.files \in Seq(Names \cup {Dir})
        /\ c.output # None =>
              c.output \notin Range(c.files) /\ (c.recursive => Dir \notin Range(c.files))

-----------------------------------------------------------------------------

TypeOK ==
    /\ at \in 1..(Len(files) + 1)
    /\ pc \in {"idle", "read", "create", "fill", "remove"}
    /\ status \in {"none", "running", "ok", "error", "killed"}
    /\ \A n \in Present : disk[n].torn \subseteq 0..disk[n].layers

Init ==
    /\ disk \in Disks
    /\ args = None /\ files = <<>> /\ at = 1 /\ pc = "idle" /\ buf = None
    /\ status = "none" /\ runs = 0 /\ given_up = {}

File == files[at]

\* strip_zst: None is its error.
StripZst(n) ==
    IF n.zst = 0 \/ (n.zst = 1 /\ n.stem = NoStem) THEN None
    ELSE [n EXCEPT !.zst = @ - 1]

\* Where the result of the current file goes.
Out ==
    IF args.output # None THEN args.output
    ELSE IF args.mode = "compress" THEN [File EXCEPT !.zst = @ + 1]
    ELSE StripZst(File)

Exit(s) == pc' = "idle" /\ status' = s

\* collect_paths: a directory stands for its files, in the order it lists them.
Walked(p) == IF p = Dir THEN SetToSeqs(Present) ELSE {<<p>>}
Push(lists, p) == {l \o some : l \in lists, some \in Walked(p)}
CollectPaths(paths) == FoldLeft(Push, {<<>>}, paths)

\* run: refused before any file is touched; standard input and output if there
\* is no file.
Run ==
    /\ pc = "idle" /\ runs < MaxRuns
    /\ runs' = runs + 1
    /\ \E c \in Commands :
         /\ args' = c
         /\ IF ~c.recursive /\ Dir \in Range(c.files)
            THEN files' = <<>> /\ Exit("error")
            ELSE /\ files' \in CollectPaths(c.files)
                 /\ IF files' = <<>> THEN Exit("ok")
                    ELSE IF c.output # None /\ Len(files') > 1 THEN Exit("error")
                    ELSE pc' = "read" /\ status' = "running"
    /\ at' = 1
    /\ UNCHANGED <<disk, buf, given_up>>

\* The file is dealt with.
NextFile ==
    /\ at' = at + 1
    /\ IF at = Len(files) THEN Exit("ok") ELSE pc' = "read" /\ UNCHANGED status

Fails == Exit("error") /\ UNCHANGED at

\* run_file: read, and transform in memory; -t and -c end here.
ReadFile ==
    /\ pc = "read"
    /\ \/ disk[File] = None /\ Fails /\ UNCHANGED buf
       \/ /\ disk[File] # None
          /\ buf' \in {None} \cup IF args.mode = "compress" THEN {Compressed(disk[File])}
                                  ELSE Decompressed(disk[File])
          /\ IF buf' = None THEN Fails
             ELSE IF args.mode = "test" THEN NextFile
             ELSE IF args.stdout THEN NextFile \/ Fails
             ELSE IF Out = None THEN Fails
             ELSE pc' = "create" /\ UNCHANGED <<at, status>>
    /\ UNCHANGED <<disk, args, files, runs, given_up>>

\* write_out: File::create makes the file or empties it.  A name that is too
\* long is one of its errors.
Create ==
    /\ pc = "create"
    /\ \/ /\ Out \in Present /\ ~args.force
          /\ Fails /\ UNCHANGED <<disk, given_up>>
       \/ Fails /\ UNCHANGED <<disk, given_up>>
       \/ /\ Out \in Names /\ (Out \in Present => args.force)
          /\ disk' = [disk EXCEPT ![Out] = Torn(buf)]
          /\ given_up' = IF Out \in Present /\ ~Holds(disk', disk[Out].data)
                         THEN given_up \cup {disk[Out].data} ELSE given_up
          /\ pc' = "fill" /\ UNCHANGED <<at, status>>
    /\ UNCHANGED <<args, files, buf, runs>>

\* write_out: write_all.  What it managed to write stays when it fails.
AfterWrite == IF args.keep THEN NextFile ELSE pc' = "remove" /\ UNCHANGED <<at, status>>

\* Mutant: a write that fails goes on as one that succeeds.
Fill_mut ==
    /\ pc = "fill"
    /\ \/ UNCHANGED <<disk, given_up>>
       \/ /\ disk' = [disk EXCEPT ![Out] = buf]
          /\ given_up' = {d \in given_up : ~Holds(disk', d)}
    /\ AfterWrite
    /\ UNCHANGED <<args, files, buf, runs>>

\* Mutant: a write that fails is passed over, and the command goes on to its next file.
Fill_goes_on_mut ==
    /\ pc = "fill"
    /\ \/ NextFile /\ UNCHANGED <<disk, given_up>>
       \/ /\ disk' = [disk EXCEPT ![Out] = buf]
          /\ given_up' = {d \in given_up : ~Holds(disk', d)}
          /\ AfterWrite
    /\ UNCHANGED <<args, files, buf, runs>>

Fill ==
    /\ pc = "fill"
    /\ \/ Fails /\ UNCHANGED <<disk, given_up>>
       \/ /\ disk' = [disk EXCEPT ![Out] = buf]
          /\ given_up' = {d \in given_up : ~Holds(disk', d)}
          /\ AfterWrite
    /\ UNCHANGED <<args, files, buf, runs>>

\* --rm
RemoveSource ==
    /\ pc = "remove"
    /\ \/ Fails /\ UNCHANGED disk
       \/ disk' = [disk EXCEPT ![File] = None] /\ NextFile
    /\ UNCHANGED <<args, files, buf, runs, given_up>>

Killed ==
    /\ pc # "idle"
    /\ Exit("killed")
    /\ UNCHANGED <<disk, args, files, at, buf, runs, given_up>>

Next == Run \/ ReadFile \/ Create \/ Fill \/ RemoveSource \/ Killed

Spec == Init /\ [][Next]_vars

-----------------------------------------------------------------------------

\* No step, of a command that succeeds, fails or is killed, loses the last whole
\* copy of any data, unless -f told it to write over that copy: a source goes
\* only once its result is whole, and by then the result is somewhere else.
\* It is for commands whose -o does not name their own source.
NothingLost ==
    [][\A d \in AllData(disk) : Holds(disk, d) => Holds(disk', d) \/ d \in given_up']_vars

\* A command that ends well has left no file in part: what it wrote it wrote in
\* full, however many files it had.  (Of the first command: a later one may find
\* what a killed one left.)
OkLeavesNoPart ==
    runs = 1 /\ pc = "idle" /\ status = "ok" => \A n \in Present : Whole(disk[n])
=============================================================================
