------------------------- MODULE MCExperimentRunner -------------------------
(* Several runs of the script, one after the other. *)
EXTENDS ExperimentRunner
=============================================================================
