-------------------------- MODULE MCTranscriptCache --------------------------
(* TranscriptCache for TLC: the last version is larger than the whole cache. *)
EXTENDS TranscriptCache

MCSizeOf == [v \in 1 .. MaxClock |-> IF v = MaxClock THEN MaxBytes + 1 ELSE 1 + (v % 2)]
=============================================================================
