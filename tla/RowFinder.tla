----------------------------- MODULE RowFinder ------------------------------
(***************************************************************************)
(* The finder of larger sources (find_greedy_rows, find_lazy_rows): of     *)
(* each bucket a row of its last positions.  It has a match in hand, and   *)
(* looks for something better one byte on.  Its repeat offsets are the     *)
(* format's own, and it never asks again where they lead.                  *)
(***************************************************************************)
EXTENDS Finders

\* row_catch_up: of a long gap only the ends.
CatchUp(t, to) ==
  LET all(x, from, end) == FoldLeft(RowInsert, x, Positions(from, end - 1))
  IN CASE t.ntu >= to -> t
       [] to - t.ntu > RowGap -> all(all(t, t.ntu, t.ntu + RowHead), to - RowTail, to)
       [] OTHER -> all(t, t.ntu, to)

\* The search at p: the longest match of the newest positions of its row that agree
\* with it in the byte the row's tag keeps (link_tag).
RowSearch(p) ==
  LET t == IF piece.skipping THEN tables ELSE CatchUp(tables, p)
      tag(m) == At(m + MinMatch - 1)
      tagged == SelectSeq(t.rows[Hash(p, MinMatch, Buckets)], LAMBDA m : tag(m) = tag(p))
      looked == SubSeq(tagged, 1, Lower(Attempts, Len(tagged)))
  IN [found |-> {[start |-> p, len |-> best.len, off |-> p - best.at] :
                   best \in Longest(looked, p, Upper(piece.lowest1, Above(p, Window)))},
      table |-> [RowInsert(t, p) EXCEPT !.ntu = p + 1]]

\* rep1_len_w: nothing asks where the repeat offset leads.
Repeated(p, rep) == IF rep # 0 THEN MatchLength(p - rep, p, piece.to) ELSE 0
RepPick(p) ==
  IF Repeated(p, piece.rep1) >= RepMin
  THEN [start |-> p, len |-> Repeated(p, piece.rep1), off |-> 0] ELSE NoPick

SearchRows ==
  LET ip == piece.ip
      rep == RepPick(ip + 1)
      s == RowSearch(ip)
      longer == {pick \in s.found : pick.len > rep.len}
      picks == IF longer = {} THEN {rep} \ {NoPick} ELSE longer
      wider == Onward(1)
  IN /\ Searching /\ piece.finder = "rows"
     /\ \/ /\ rep # NoPick
           /\ piece' = [piece EXCEPT !.pick = rep]
           /\ pc' = "take" /\ UNCHANGED tables
        \/ /\ \E pick \in picks : piece' = [piece EXCEPT !.pick = pick]
           /\ pc' = "look" /\ tables' = s.table
        \/ /\ picks = {}
           /\ piece' = [wider EXCEPT !.skipping = wider.ip - ip > SkipStep]
           /\ UNCHANGED pc /\ tables' = s.table
     /\ UNCHANGED <<call, data, dropped, off, reps, ldm, block, hits, pos>>

LookAhead ==
  LET ip == piece.ip + 1
      s == RowSearch(ip)
  IN /\ pc = "look" /\ piece.ip < Limit
     /\ \E pick \in ({piece.pick, RepPick(ip)} \ {NoPick}) \union s.found :
          piece' = [piece EXCEPT !.ip = ip, !.pick = pick]
     /\ tables' = s.table
     /\ UNCHANGED <<call, data, dropped, off, reps, ldm, pc, block, hits, pos>>

\* A match is drawn back, a repeat offset not; after literals the same offset as
\* before moves nothing.
TakePick ==
  LET pick == piece.pick
      back == IF pick.off # 0 THEN Back(pick.start, pick.start - pick.off, piece.lowest) ELSE 0
      start == pick.start - back
      end == pick.start + pick.len
      moves == pick.off # 0 /\ (start = piece.anchor \/ pick.off # piece.rep1)
  IN /\ pc \in {"take", "look"}
     /\ piece' = [Emit(start, end - start, IF pick.off # 0 THEN pick.off ELSE piece.rep1) EXCEPT
                    !.ip = end, !.anchor = end, !.pick = NoPick, !.skipping = FALSE,
                    !.rep1 = IF moves THEN pick.off ELSE @,
                    !.rep2 = IF moves THEN piece.rep1 ELSE @]
     /\ tables' = [tables EXCEPT !.ntu = IF pick.off = 0 THEN end ELSE @]
     /\ pc' = "again"
     /\ UNCHANGED <<call, data, dropped, off, reps, ldm, block, hits, pos>>

\* Straight after a match the second repeat offset, which becomes the first.
RepAgain ==
  LET n == Repeated(piece.ip, piece.rep2)  end == piece.ip + n
  IN /\ pc = "again"
     /\ IF piece.ip <= Limit /\ n >= RepMin
        THEN /\ piece' = [Emit(piece.ip, n, piece.rep2) EXCEPT
                            !.ip = end, !.anchor = end,
                            !.rep1 = piece.rep2, !.rep2 = piece.rep1]
             /\ tables' = [tables EXCEPT !.ntu = end]
             /\ UNCHANGED pc
        ELSE pc' = "search" /\ UNCHANGED <<piece, tables>>
     /\ UNCHANGED <<call, data, dropped, off, reps, ldm, block, hits, pos>>
=============================================================================
