----------------------------- MODULE MCFactory -----------------------------
(* Factory on small instances. *)
EXTENDS Factory
=============================================================================
