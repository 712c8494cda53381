----------------------------- MODULE MCPlayback -----------------------------
(* Playback on small instances.  The workers of the executor are            *)
(* interchangeable; the safety runs use that, the liveness runs do not.     *)
EXTENDS Playback, TLC

WorkerSymmetry == Permutations(Workers)
=============================================================================
