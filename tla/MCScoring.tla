------------------------------ MODULE MCScoring ------------------------------
(* Module Scoring with a signed weight, which a cfg cannot write. *)
EXTENDS Scoring

LostFlagCosts == -1
=============================================================================
