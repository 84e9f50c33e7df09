---------------------------- MODULE ChainFinders ----------------------------
(***************************************************************************)
(* The greedy and the lazy finder (find_greedy, find_lazy): of each bucket *)
(* the last position, and of each position the one before it in its        *)
(* bucket, in a ring.                                                      *)
(***************************************************************************)
EXTENDS Finders

\* The bytes of a key: hash4_link_tag_b, or hash_wide_link_tag_b in a latched frame.
KeyBytes(t) == IF t.wide THEN MinMatch ELSE NarrowMatch
Bucket(t, p) == Hash(p, KeyBytes(t), Buckets)

\* lz_insert: the head moves into the chain; the chain's null link is position 0.
Link(t, p, h) == [t EXCEPT !.head[h] = p, !.chain[p % ChainSize] = Upper(t.head[h], 0)]

Insert(t, p) == Link(t, p, Bucket(t, p))

InsertAll(t, from, to) ==
  LET n == KeyBytes(t)
  IN FoldLeft(LAMBDA x, p : Link(x, p, Hash(p, n, Buckets)), t, Positions(from, to))

\* The positions that the chain from `first` leads a search for ip to.  It is over
\* with a match up to the end, or with a position that does not match.
Walk(t, ip, first) ==
  LET walk[left \in 0..Attempts, m \in Int] ==
        LET same == Equal(m, ip, MinMatch)
            next == t.chain[m % ChainSize]
            over == \/ same /\ ip + MatchLength(m, ip, piece.to) >= piece.to
                    \/ ~same /\ ~piece.walk_on
                    \/ next >= m
        IN IF left = 0 \/ m \notin Low(ip)..(ip - 1) THEN <<>>
           ELSE IF over THEN <<m>> ELSE <<m>> \o walk[left - 1, next]
  IN walk[Attempts, first]

\* The longest match at ip that the chain of its bucket leads to, the nearest of
\* several: the position is remembered first, which may cut the ring short.
ChainSearch(t, ip) ==
  Longest(Walk(Insert(t, ip), ip, t.head[Bucket(t, ip)]), ip, Low(ip))

\* The greedy finder takes what it finds, and remembers what it covers.
SearchGreedy ==
  LET ip == piece.ip
      found == ChainSearch(tables, ip)
  IN /\ Searching /\ RepLength < RepMin /\ piece.finder = "greedy"
     /\ \/ \E best \in found :
             /\ piece' = Taken(ip, best)
             /\ tables' = InsertAll(tables, ip, Lower(ip + best.len - 1, Limit))
        \/ found = {} /\ piece' = Onward(1) /\ tables' = Insert(tables, ip)
     /\ UNCHANGED <<call, data, dropped, off, reps, ldm, pc, block, hits, pos>>

\* The lazy finder looks at the next positions before it takes one, and remembers
\* them; the rest of what the match covers it may remember or not.
SearchLazy ==
  LET ip == piece.ip
      ahead == Lower(ip + Depth, Limit)
      found(p) == ChainSearch(InsertAll(tables, ip, p - 1), p)
  IN /\ Searching /\ RepLength < RepMin /\ piece.finder = "lazy"
     /\ IF found(ip) # {}
        THEN \E p \in ip..ahead, fill \in BOOLEAN : \E best \in found(p) :
               /\ piece' = Taken(p, best)
               /\ LET covered == Upper(ahead, Lower(p + best.len - 1, Limit))
                  IN tables' = InsertAll(tables, ip, IF fill THEN covered ELSE ahead)
        ELSE piece' = Onward(1) /\ tables' = Insert(tables, ip)
     /\ UNCHANGED <<call, data, dropped, off, reps, ldm, pc, block, hits, pos>>
=============================================================================
