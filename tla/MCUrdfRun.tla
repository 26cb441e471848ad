------------------------------ MODULE MCUrdfRun ------------------------------
(* Two episodes, two configurations. *)
EXTENDS UrdfRun
=============================================================================
