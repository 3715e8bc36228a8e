------------------------ MODULE MCRecordingLifecycle ------------------------
(* RecordingLifecycle for TLC, and the codes its numbers are written as, in *)
(* base two: widths, zeros and the longest code in few texts.               *)
EXTENDS RecordingLifecycle, RecordingCodes

ASSUME CodesHold == RoundTrips /\ NoCrossTenant /\ ResolvesToOne
=============================================================================
