-------------------------- MODULE MCPondLifecycle --------------------------
(* Model-checking instances of PondLifecycle; the sets come from the .cfg. *)
EXTENDS PondLifecycle

=============================================================================
