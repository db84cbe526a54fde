---------------------------- MODULE MCQueryPath ----------------------------
(* Model-checking instance of QueryPath. *)
EXTENDS QueryPath

CONSTANTS n1, n2, r1, r2

\* n1 owns the pond.  Its row is in order, its address is unknown, stale or another
\* node's, its owner is not named, or there is no row.
MCRows == { None, [ id |-> n1, at |-> n1 ], [ id |-> n1, at |-> None ],
            [ id |-> None, at |-> None ], [ id |-> n1, at |-> n2 ] }

MCAuths == { {}, {n1}, {n1, n2} }

\* A second request, so that two wait for one map of channels: both gRPC writes to a
\* pond in order, greeted by n2, nobody verifying.
Plain(r) == client[r] # "idle" => ask[r] = Asked("grpc", "write_query", None, 0)
\* A node on its own is n1 and asks no row but whether there is one.
SecondIsPlain ==
  /\ conf.clustered \/ (up = {n1} /\ row[r1] \in { None, [ id |-> n1, at |-> n1 ] })
  /\ client[r1] # "absent" /\ row[r2] = [ id |-> n1, at |-> n1 ]
  /\ client[r2] # "absent" =>
       /\ Plain(r1) /\ Plain(r2) /\ row[r1] = row[r2] /\ faults <= 1
       /\ conf = [ auth |-> {}, clustered |-> TRUE ]

MCFailures == { "Unsupported" }
=============================================================================
