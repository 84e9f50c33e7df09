------------------------------ MODULE RepCodes ------------------------------
(***************************************************************************)
(* Repeat offsets: the code the encoder writes for a match's offset        *)
(* (rep_code_step) and the offset the decoder reads from it                *)
(* (resolve_offset).  Both move the three offsets remembered.              *)
(***************************************************************************)
EXTENDS Integers

CONSTANT U32Max  \* u32::MAX

ASSUME RepAssumption == U32Max \in Nat /\ U32Max > 11

\* The error: no offset is 0.
NoOffset == 0

\* The offset codes 1, 2 and 3 stand for; without literals they shift by one.
\* (No remembered offset is 0, so the wrapping subtraction never wraps.)
Candidates(reps, no_lit) ==
  IF no_lit THEN <<reps[2], reps[3], reps[1] - 1>> ELSE reps

\* The code of an offset: the lowest that stands for it, or 3 more than itself.
RepCode(off, no_lit, reps) ==
  LET c == Candidates(reps, no_lit)
  IN CASE off = c[1] -> 1
       [] off # c[1] /\ off = c[2] -> 2
       [] off \notin {c[1], c[2]} /\ off = c[3] /\ (no_lit => reps[1] > 1) -> 3
       [] OTHER -> IF off + 3 < U32Max THEN off + 3 ELSE U32Max

\* The encoder's three moves, without a look at the code.
RepMove(off, no_lit, reps) ==
  LET hold == ~no_lit /\ off = reps[1]
  IN <<off, IF hold THEN reps[2] ELSE reps[1],
       IF hold \/ off = reps[2] THEN reps[3] ELSE reps[2]>>

\* Where resolve_offset puts the offset it reads: the second swapped with the
\* first, anything else in front.
Swapped(reps) == <<reps[2], reps[1], reps[3]>>
InFront(off, reps) == <<off, reps[1], reps[2]>>

Resolved(off, reps) == [off |-> off, reps |-> reps]

\* The decoder's cases: the offset a code means, and the offsets remembered.
\* Without literals a code stands for the next one's offset.
ResolveOffset(code, no_lit, reps) ==
  LET which == IF no_lit THEN code + 1 ELSE code
  IN CASE code > 3 -> Resolved(code - 3, InFront(code - 3, reps))
       [] code <= 3 /\ which = 1 -> Resolved(reps[1], reps)
       [] code <= 3 /\ which = 2 -> Resolved(reps[2], Swapped(reps))
       [] code <= 3 /\ which = 3 -> Resolved(reps[3], InFront(reps[3], reps))
       [] code <= 3 /\ which = 4 /\ reps[1] > 1 ->
            Resolved(reps[1] - 1, InFront(reps[1] - 1, reps))
       [] OTHER -> Resolved(NoOffset, reps)
=============================================================================
