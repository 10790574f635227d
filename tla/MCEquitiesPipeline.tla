-------------------------- MODULE MCEquitiesPipeline --------------------------
(* Model-checking definitions for EquitiesPipeline.  A model gives one       *)
(* answer; a call that fails or meets the cap gives the neutral one, and the *)
(* rankings order the stocks each way or not at all.                         *)
EXTENDS EquitiesPipeline

OneAnswer == {[score |-> 9, conf |-> 8]}
=============================================================================
