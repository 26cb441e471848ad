---- MODULE MCGripperStage ----
EXTENDS GripperStage, MCMaskStage
====
