---------------------------- MODULE MCSseStream ----------------------------
(* TLC instances of SseStream.                                             *)
EXTENDS SseStream, TLC

=============================================================================
