--------------------------- MODULE MCTableRunLock ---------------------------
(* TLC instances of TableRunLock.                                          *)
EXTENDS TableRunLock, TLC

Symmetry ==
    Permutations(Threads) \union Permutations(Workers)
        \union Permutations(Assistants) \union Permutations(Sweepers)

=============================================================================
