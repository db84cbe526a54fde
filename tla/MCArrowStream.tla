--------------------------- MODULE MCArrowStream ---------------------------
(* The streamed read for TLC; every parameter is given by the configurations. *)
EXTENDS ArrowStream
=============================================================================
