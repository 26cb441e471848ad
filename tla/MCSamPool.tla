----------------------------- MODULE MCSamPool ------------------------------
(* Small instances of the SAM worker pool for TLC. *)
EXTENDS SamPool, TLC

CONSTANTS e1, e2, e3

TwoEpisodes == <<e1, e2>>
ThreeEpisodes == <<e1, e2, e3>>
OneEpisode == <<e1>>

\* The GPUs are interchangeable; no liveness property is checked with it.
WorkerSymmetry == Permutations(Worker)

=============================================================================
