----------------------------- MODULE MCStitchQueue -----------------------------
(* An instance of StitchQueue for TLC: two rows of one video.              *)
EXTENDS StitchQueue

CONSTANTS r1, r2, f1

MCRows   == {r1, r2}
MCFiles  == {f1}
MCSource == [r \in MCRows |-> f1]
=============================================================================
