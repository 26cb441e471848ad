--------------------------- MODULE MCUmiPipeline ----------------------------
(* The UMI pipeline is instantiated by numbers alone. *)
EXTENDS UmiPipeline

=============================================================================
