-------------------------- MODULE MCSignRefinement --------------------------
(* The instance of MCSignOp, with inputs in the default mode only.         *)
EXTENDS MCSignOp, SignRefinement
=============================================================================
