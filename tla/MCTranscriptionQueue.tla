------------------------- MODULE MCTranscriptionQueue -------------------------
(* Instances of TranscriptionQueue for TLC.                                *)
EXTENDS TranscriptionQueue

CONSTANT j1

MCOne == {j1}
MCNoTeam == {}
=============================================================================
