--------------------------- MODULE MCSpeechQueue ---------------------------
(* Small instances of SpeechQueue for TLC.                                 *)
EXTENDS SpeechQueueTickets
=============================================================================
