----------------------------- MODULE MCCompute -----------------------------
(* Compute on small instances. *)
EXTENDS Compute
=============================================================================
