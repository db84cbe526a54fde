----------------------------- MODULE MCReadPool -----------------------------
(* The read pool for TLC; the readers come from the configurations. *)
EXTENDS ReadPool
=============================================================================
