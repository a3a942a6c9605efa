----------------------------- MODULE MCInference -----------------------------
(* Instances of Inference. *)
EXTENDS Inference, TLC

CONSTANTS c1, c2
MCCalls == {c1, c2}
==============================================================================
