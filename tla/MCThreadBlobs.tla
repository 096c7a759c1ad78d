--------------------------- MODULE MCThreadBlobs ---------------------------
(* TLC instances of ThreadBlobs.                                           *)
EXTENDS ThreadBlobs, TLC

CONSTANTS a1, a2

\* A regular channel and one whose index is fixed.
MCBatches == {<<0, -1>>}

Symmetry == Permutations({a1, a2})

=============================================================================
