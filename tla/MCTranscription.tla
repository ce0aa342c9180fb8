--------------------------- MODULE MCTranscription ---------------------------
(* TranscriptionServer with few requests at a time. *)
EXTENDS TranscriptionServer, TLC

CONSTANTS u1, u2, s1

Together ==
  {{u1, u2, "health"}, {u1, u2, "probe"}, {u1, s1, "health"}, {s1, "events"}}
=============================================================================
