--------------------------- MODULE MCCommandLine ---------------------------
(***************************************************************************)
(* Two stems, a file with nothing before its ".zst", and every combination *)
(* of the options that decide what happens to files.                       *)
(***************************************************************************)
EXTENDS CommandLine

CONSTANTS s, t

N(stem, zst) == [stem |-> stem, zst |-> zst]
C(data, layers) == [data |-> data, layers |-> layers, torn |-> {}]

With(held) == [n \in Names |-> IF n \in DOMAIN held THEN held[n] ELSE None]

SomeDisks ==
    {With((N(s, 0) :> C("d1", 0)) @@ (N(t, 0) :> C("d2", 0))),
     With((N(s, 0) :> C("d1", 0)) @@ (N(s, 1) :> C("d2", 1)) @@ (N(t, 1) :> C("d3", 0))),
     With((N(s, 1) :> C("d1", 1)) @@ (N(s, 2) :> C("d2", 2)) @@ (N(NoStem, 1) :> C("d3", 1))),
     With(<<>>)}

Lists == {<<>>, <<Dir>>, <<N(s, 0)>>, <<N(s, 1)>>, <<N(s, 0), N(t, 0)>>,
          <<N(s, 2), N(s, 1)>>, <<N(s, 0), N(s, 0)>>, <<N(NoStem, 1)>>, <<N(t, 1)>>}

Ask(mode, keep, force, stdout, recursive, output, list) ==
    [mode |-> mode, keep |-> keep, force |-> force, stdout |-> stdout,
     recursive |-> recursive, output |-> output, files |-> list]

\* No command's -o names its own source.
SomeCommands ==
    {Ask(mode, keep, force, FALSE, TRUE, None, list) :
       mode \in {"compress", "decompress"}, keep, force \in BOOLEAN, list \in Lists}
    \cup {Ask(mode, FALSE, force, FALSE, FALSE, N(t, 1), list) :
       mode \in {"compress", "decompress"}, force \in BOOLEAN,
       list \in {<<N(s, 0)>>, <<N(s, 1)>>, <<N(s, 0), N(t, 0)>>, <<Dir>>}}
    \cup {Ask(mode, FALSE, TRUE, TRUE, TRUE, None, list) :
       mode \in {"compress", "decompress"}, list \in {<<Dir>>, <<N(s, 2), N(s, 1)>>}}
    \cup {Ask("test", FALSE, TRUE, FALSE, TRUE, None, <<Dir>>)}
=============================================================================
