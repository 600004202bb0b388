------------------------- MODULE MCAlertEvaluation -------------------------
(* Values for the configurations that check AlertEvaluation.               *)
EXTENDS AlertEvaluation

LoweringDeltas == {0, -1}
=============================================================================
