------------------------- MODULE MCBlobCheckpointer -------------------------
(* TLC instances of BlobCheckpointer.                                      *)
EXTENDS BlobCheckpointer, TLC

=============================================================================
