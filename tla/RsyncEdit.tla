----------------------------- MODULE RsyncEdit -----------------------------
(***************************************************************************)
(* rsync_sections (ldm.rs) over a source and over that source edited in    *)
(* one place: what --rsyncable is for.  A hit of the rolling hash depends  *)
(* on the RsyncLength units before it and on nothing else; the loop that   *)
(* makes sections of the hits runs over both sources.                      *)
(***************************************************************************)
EXTENDS Sections, Sequences

CONSTANTS Len0,         \* length of the source, in units
          RsyncLength,  \* RSYNC_LENGTH
          MaxLens,      \* max_len
          Edits         \* [at, cut, put]: cut units at `at` replaced by put others

ASSUME EditAssumption ==
  /\ Len0 \in Nat /\ RsyncLength \in Nat \ {0} /\ MaxLens \subseteq Nat \ {0}
  /\ Edits \subseteq [at : Nat, cut : Nat, put : Nat]
  /\ \A e \in Edits : e.at + e.cut <= Len0

VARIABLES max_len,
          edit,
          sync_hits,  \* of the source: old; of the edited source: new
          ends        \* the sections' ends so far, of each

editVars == <<max_len, edit, sync_hits, ends>>

Len1 == Len0 - edit.cut + edit.put
Shift == edit.put - edit.cut
Length == [old |-> Len0, new |-> Len1]

\* Where rsync_next may hit: it needs RsyncLength units before.
Places(len) == RsyncLength..len
Before == {q \in sync_hits.old : q <= edit.at}
Behind == {q \in sync_hits.old : q >= edit.at + edit.cut + RsyncLength}

EditInit ==
  /\ max_len \in MaxLens /\ edit \in Edits
  /\ sync_hits \in [old : SUBSET Places(Len0), new : SUBSET Places(Len1)]
  /\ {q \in sync_hits.new : q <= edit.at} = Before
  /\ {q \in sync_hits.new : q >= edit.at + edit.put + RsyncLength} = {q + Shift : q \in Behind}
  /\ ends = [old |-> <<>>, new |-> <<>>]

SectionStart(s) == IF ends[s] = <<>> THEN 0 ELSE ends[s][Len(ends[s])]

\* One turn of the loop over source s.
Cut(s) ==
  /\ SectionStart(s) < Length[s]
  /\ ends' = [ends EXCEPT ![s] =
                Append(@, SectionEnd(sync_hits[s], Length[s], SectionStart(s), max_len))]
  /\ UNCHANGED <<max_len, edit, sync_hits>>

Tiled(s) == SectionStart(s) = Length[s]
EditDone == Tiled("old") /\ Tiled("new") /\ UNCHANGED editVars
EditNext == (\E s \in {"old", "new"} : Cut(s)) \/ EditDone
EditSpec == EditInit /\ [][EditNext]_editVars

-----------------------------------------------------------------------------
(* Properties *)

Ends(s) == {ends[s][i] : i \in 1..Len(ends[s])}
\* Behind the edit and beyond the reach of what it changed.
Beyond(q) == q >= edit.at + edit.cut + RsyncLength

\* Once both loops have cut at the same place beyond the edit they cut at the
\* same places for good, and neither skips one (rsync_sections keeps nothing
\* but where the section began).
StayTogether ==
  \A p \in Ends("old") : Beyond(p) /\ p + Shift \in Ends("new") =>
    \A q \in Ends("old") : p <= q /\ q + Shift < SectionStart("new") => q + Shift \in Ends("new")
=============================================================================
