--------------------------- MODULE MCArtifactStore ----------------------------
(***************************************************************************)
(* Values of ArtifactStore's constants for TLC.                            *)
(***************************************************************************)
EXTENDS ArtifactStore
==============================================================================
