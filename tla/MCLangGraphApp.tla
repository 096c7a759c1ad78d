--------------------------- MODULE MCLangGraphApp ---------------------------
(* TLC instances of LangGraphApp.                                          *)
EXTENDS LangGraphApp, TLC

Symmetry == Permutations(Workers) \union Permutations(Keys)

=============================================================================
