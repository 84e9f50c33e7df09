--------------------------- MODULE MCDigestCache ---------------------------
EXTENDS DigestCache, TLC

\* Nothing tells two members of one of these sets apart.
Symmetry ==
    UNION {Permutations(S) : S \in {Threads, Addrs, Contents, Params, Strides}}
=============================================================================
