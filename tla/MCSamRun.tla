------------------------------ MODULE MCSamRun ------------------------------
(* The SAM run is instantiated by numbers alone. *)
EXTENDS SamRun

=============================================================================
