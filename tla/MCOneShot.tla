----------------------------- MODULE MCOneShot -----------------------------
(***************************************************************************)
(* Two parts of a compression that share nothing, each on its own: the     *)
(* search for sequences in the blocks of a frame, over contents made of    *)
(* words that come again, near and far; and the sections of a source and   *)
(* of its edited copy.                                                     *)
(***************************************************************************)
EXTENDS MatchSearch, RsyncEdit

VARIABLE part
oneShotVars == <<part, searchVars, editVars>>

Words == {<<0, 1, 0, 0, 1>>, <<1, 1, 0, 1, 1>>, <<0, 0, 1, 0, 0>>}
Orders == {w \in Words \X Words \X Words : Cardinality({w[1], w[2], w[3]}) = 3}
SomePayloads == {w[1] \o w[2] \o w[1] \o w[3] : w \in Orders}

\* Each finder for a stream, for one with a dictionary whose first repeat offset is
\* beyond the window, or for a one-shot call with a history that only primes; two with
\* long-distance matches.
Call(finder, history, rep, prime_only, far, stream) ==
  [finder |-> finder, history |-> history, reps |-> <<rep, 4, 8>>, prime_only |-> prime_only,
   ldm |-> far, stream |-> stream]
Dict == <<0, 1, 0, 0, 1, 0, 0, 1, 1>>
Before1 == <<0, 1, 1, 0, 1>>
SomeSettings ==
  {Call("greedy", <<>>, 1, FALSE, FALSE, TRUE), Call("lazy", Dict, 8, FALSE, FALSE, TRUE),
   Call("dfast", Dict, 8, FALSE, FALSE, TRUE), Call("greedy", Before1, 1, FALSE, TRUE, FALSE),
   Call("lazy", Before1, 1, TRUE, FALSE, FALSE), Call("dfast", Before1, 1, TRUE, TRUE, FALSE),
   Call("fast", Dict, 8, FALSE, FALSE, TRUE), Call("fast", Before1, 1, TRUE, FALSE, FALSE),
   Call("rows", Dict, 8, FALSE, FALSE, TRUE), Call("rows", Before1, 1, TRUE, TRUE, FALSE),
   Call("tree", Dict, 8, FALSE, FALSE, TRUE), Call("optimal", Dict, 8, FALSE, FALSE, TRUE),
   Call("tree", Before1, 1, TRUE, TRUE, FALSE), Call("optimal", Before1, 1, TRUE, FALSE, FALSE)}

SomeEdits == {[at |-> 1, cut |-> 1, put |-> 1], [at |-> 2, cut |-> 0, put |-> 1],
              [at |-> 3, cut |-> 2, put |-> 0]}

NoSearch ==
  /\ pc = "idle" /\ call = <<>> /\ data = <<>> /\ dropped = 0 /\ off = 0 /\ reps = <<1, 4, 8>>
  /\ tables = Cleared /\ ldm = <<>> /\ block = NoBlock /\ hits = {} /\ pos = 0 /\ piece = NoPiece
NoEdit ==
  /\ max_len = 0 /\ edit = [at |-> 0, cut |-> 0, put |-> 0]
  /\ sync_hits = [old |-> {}, new |-> {}] /\ ends = [old |-> <<>>, new |-> <<>>]

OneShotInit ==
  \/ part = "search" /\ Init /\ NoEdit
  \/ part = "edits" /\ EditInit /\ NoSearch

OneShotNext ==
  \/ part = "search" /\ Next /\ UNCHANGED <<part, editVars>>
  \/ part = "edits" /\ EditNext /\ UNCHANGED <<part, searchVars>>

OneShotSpec == OneShotInit /\ [][OneShotNext]_oneShotVars
=============================================================================
