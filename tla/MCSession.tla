----------------------------- MODULE MCSession -----------------------------
(* Session on instances small enough for TLC; the cfg files give the bounds. *)
EXTENDS Session
=============================================================================
