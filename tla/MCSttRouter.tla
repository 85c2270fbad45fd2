---------------------------- MODULE MCSttRouter ----------------------------
(* SttRouter for TLC.                                                       *)
EXTENDS SttRouter

MCAll       == {"speech_started", "partial", "chunk", "end"}
MCAudio     == {"partial", "end"}

=============================================================================
