------------------------- MODULE MCTemporalRecorder -------------------------
(* The recorder's instance: every constant is given in the configuration.  *)
EXTENDS TemporalRecorder
=============================================================================
