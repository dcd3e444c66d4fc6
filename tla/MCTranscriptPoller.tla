------------------------- MODULE MCTranscriptPoller -------------------------
(* Small instances of TranscriptPoller for TLC. *)
EXTENDS TranscriptPoller
CONSTANTS f1, f2
=============================================================================
