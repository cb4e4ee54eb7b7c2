--------------------------- MODULE MCSpeechStore ---------------------------
(* Small instances of SpeechStore for TLC.                                 *)
EXTENDS SpeechStore

(* One stage whose payload a release removes, one whose payload it keeps.  *)
MCPlan == <<"decode", "transcript">>
=============================================================================
