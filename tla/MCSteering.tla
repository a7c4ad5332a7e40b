----------------------------- MODULE MCSteering -----------------------------
(* Steering on small instances: up to three messages, three sessions and two *)
(* invocations of route_message, which are interchangeable.                  *)
EXTENDS Steering

Symmetry == Permutations(Routers)
=============================================================================
