-------------------------- MODULE MCPromptDocuments --------------------------
(***************************************************************************)
(* The documents the prompt tools pass on: one measurement, or one history *)
(* of activations.  Nothing is shared but the run.                         *)
(***************************************************************************)
EXTENDS PromptMeasurement, PromptActivation, TLC

Alike == Permutations(Paths)

NoLineage == files = [p \in Paths |-> Absent] /\ written = <<>> /\ measured = <<>> /\ mishaps = 0
NoMeasurement ==
  /\ family = 0 /\ task = CHOOSE t \in TaskSpace : TRUE
  /\ place = "none" /\ m = Fresh /\ ran = "none" /\ left = FALSE
  /\ doc = NoDocument /\ altered = "none" /\ verdict = "none"

DocumentsInit == (MeasurementInit /\ NoLineage) \/ (LineageInit /\ NoMeasurement)
DocumentsNext ==
  \/ MeasurementNext /\ UNCHANGED lineage
  \/ place = "none" /\ LineageNext /\ UNCHANGED measurement
DocumentsSpec == DocumentsInit /\ [][DocumentsNext]_<<measurement, lineage>>
=============================================================================
