----------------------------- MODULE MCLineage -----------------------------
(* Model-checking instance of Lineage. *)
EXTENDS Lineage

CONSTANTS q1, q2, q3
MCErrorOf == [q \in Queries |-> IF q = q2 THEN "timeout" ELSE "none"]

\* The files and the mirror share nothing but the events: a behaviour with a backend
\* has one millisecond, no client paging through the files and no crash.
Scenes == backend => walk.at = "idle" /\ crashes = 0 /\ now = 0

\* One mishap in a behaviour, a step that fails or a crash.
OneMishap == fails + crashes <= 1
=============================================================================
