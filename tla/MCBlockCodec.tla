---------------------------- MODULE MCBlockCodec ----------------------------
(* Small instances of BlockCodec. *)
EXTENDS BlockCodec

NoDictionary == [len |-> 0, entropy |-> FALSE, reps |-> <<1, 4, 8>>]
\* One of its repeat offsets reaches beyond the window.
Trained == [len |-> 5, entropy |-> TRUE, reps |-> <<5, 2, 1>>]

MCDicts == {NoDictionary, Trained}
MCLitSets == {{}, {1}, {1, 2}}
MCDefaultCodes == [ll |-> 0..3, of |-> 0..1, ml |-> 0..3]
MCDictCodes == [huff |-> {1, 2}, ll |-> {0, 1}, of |-> {1, 2}, ml |-> {1, 2}]
=============================================================================
