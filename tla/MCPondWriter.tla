---------------------------- MODULE MCPondWriter ----------------------------
(* The write path for TLC; the requests and tiers come from the configurations. *)
EXTENDS PondWriter
=============================================================================
