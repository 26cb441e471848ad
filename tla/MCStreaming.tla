---------------------------- MODULE MCStreaming -----------------------------
(* Small instances of the source-to-URDF stream for TLC. *)
EXTENDS Streaming

CONSTANTS e1, e2, e3

TwoEpisodes == <<e1, e2>>
ThreeEpisodes == <<e1, e2, e3>>

=============================================================================
