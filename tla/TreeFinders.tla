---------------------------- MODULE TreeFinders -----------------------------
(***************************************************************************)
(* The finders over a binary tree (encode/tree.rs): of each bucket the     *)
(* last position, and of each position two subtrees, of what sorts before  *)
(* and after it.  The tree lies in a ring: positions share a node,         *)
(* branches hang loose, what only primed is a head without a node; so      *)
(* every candidate is compared from its first byte.                        *)
(*                                                                         *)
(* find_bt_lazy takes the best of a few positions; find_opt collects the   *)
(* steps through the block and takes the cheapest way, here any.           *)
(***************************************************************************)
EXTENDS Finders

TreeSize == Upper(ChainSize \div 2, 2)
Side(p, k) == 2 * (p % TreeSize) + k
ByteAt(p) == IF p < End THEN At(p) ELSE 0

\* One node further down the tree, to m (0 and None: nothing there): what sorts before ip
\* is hung into one loose end, what sorts after it into the other.
Descend(d, ip) ==
  LET t == d.table  m == d.m
      n == MatchLength(m, ip, piece.to)
      before == ByteAt(m + n) < ByteAt(ip + n)
      t2 == [t EXCEPT !.chain[IF before THEN d.smaller ELSE d.larger] = m]
      \* Each child is read after the write, which may have been to it.
      child == t2.chain[Side(m, IF before THEN 1 ELSE 0)]
  IN CASE d.over -> d
       [] ~d.over /\ m \notin Above(ip, Window)..(ip - 1) ->
            [d EXCEPT !.over = TRUE,
                      !.table.chain = [@ EXCEPT ![d.smaller] = 0, ![d.larger] = 0]]
       [] ~d.over /\ m \in Above(ip, Window)..(ip - 1) /\ m < piece.lowest ->
            [d EXCEPT !.over = TRUE]
       [] OTHER -> [d EXCEPT !.table = t2, !.looked = Append(@, m),
                             !.m = IF child = 0 THEN None ELSE child,
                             !.smaller = IF before THEN Side(m, 1) ELSE @,
                             !.larger = IF before THEN @ ELSE Side(m, 0)]

\* The search at ip: a few nodes down from the root, which ip becomes.
TreeSearch(t, ip) ==
  LET h == Hash(ip, MinMatch, Buckets)
      root == [table |-> [t EXCEPT !.head[h] = ip], m |-> t.head[h], smaller |-> Side(ip, 0),
               larger |-> Side(ip, 1), looked |-> <<>>, over |-> FALSE]
      d == FoldLeft(LAMBDA x, k : Descend(x, ip), root, Positions(1, Attempts))
  IN [table |-> d.table, found |-> Longest(d.looked, ip, Low(ip))]

TreeInsertAll(t, from, to) ==
  FoldLeft(LAMBDA x, p : TreeSearch(x, p).table, t, Positions(from, to))

\* find_bt_lazy: the repeat offset leaves the tree alone (RepMatch).
SearchTree ==
  LET ip == piece.ip
      ahead == Lower(ip + Depth, Limit)
      found(p) == TreeSearch(TreeInsertAll(tables, ip, p - 1), p).found
  IN /\ Searching /\ RepLength < RepMin /\ piece.finder = "tree"
     /\ IF found(ip) # {}
        THEN \E p \in ip..ahead, fill \in BOOLEAN : \E best \in found(p) :
               /\ piece' = Taken(p, best)
               /\ LET covered == Upper(ahead, Lower(p + best.len - 1, Limit))
                  IN tables' = TreeInsertAll(tables, ip, IF fill THEN covered ELSE ahead)
        ELSE piece' = Onward(1) /\ tables' = TreeInsertAll(tables, ip, ip)
     /\ UNCHANGED <<call, data, dropped, off, reps, ldm, pc, block, hits, pos>>

\* find_opt, one position: a literal on; at the next one the repeat offset the block
\* began with; every length of the longest match.  A long match may be stepped over.
Edge(from, to, offset) == [from |-> from, to |-> to, off |-> offset]

SearchOptimal ==
  LET ip == piece.ip
      s == TreeSearch(tables, ip)
      repeat == IF RepLength < RepMin THEN {}
                ELSE {Edge(ip + 1, ip + 1 + RepLength, piece.rep1)}
      matches == UNION {{Edge(ip, ip + n, ip - best.at) : n \in MinMatch..best.len} :
                          best \in s.found}
  IN /\ Searching /\ piece.finder = "optimal"
     /\ \E to \in {ip + 1} \union {ip + best.len : best \in s.found} :
          /\ piece' = [piece EXCEPT !.ip = to,
                         !.edges = @ \union {Edge(ip, ip + 1, 0)} \union repeat \union matches]
          /\ tables' \in {s.table, TreeInsertAll(s.table, ip + 1, Lower(to - 1, Limit))}
     /\ UNCHANGED <<call, data, dropped, off, reps, ldm, pc, block, hits, pos>>

\* The steps back from the end of the piece to its beginning: the code takes the
\* cheapest to each position.
TurnBack ==
  /\ pc = "search" /\ ~Searching /\ piece.finder = "optimal"
  /\ piece' = [piece EXCEPT !.ip = piece.to, !.edges = @ \union
                 {Edge(p, p + 1, 0) : p \in piece.ip..(piece.to - 1)}]
  /\ pc' = "back"
  /\ UNCHANGED <<call, data, dropped, off, reps, tables, ldm, block, hits, pos>>

StepBack ==
  /\ pc = "back"
  /\ IF piece.ip = piece.anchor
     THEN piece' = [piece EXCEPT !.edges = {}] /\ pc' = "way"
     ELSE /\ \E e \in {x \in piece.edges : x.to = piece.ip} :
               piece' = [piece EXCEPT !.ip = e.from,
                                      !.way = IF e.off = 0 THEN @ ELSE <<e>> \o @]
          /\ UNCHANGED pc
  /\ UNCHANGED <<call, data, dropped, off, reps, tables, ldm, block, hits, pos>>

\* The matches of that way, from the beginning on.
TakeWay ==
  LET e == Head(piece.way)
  IN /\ pc = "way"
     /\ IF piece.way = <<>> THEN pc' = "tail" /\ UNCHANGED piece
        ELSE /\ piece' = [Emit(e.from, e.to - e.from, e.off) EXCEPT
                            !.way = Tail(@), !.anchor = e.to]
             /\ UNCHANGED pc
     /\ UNCHANGED <<call, data, dropped, off, reps, tables, ldm, block, hits, pos>>
=============================================================================
