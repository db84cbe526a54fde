------------------------------ MODULE QueryPath ------------------------------
(***************************************************************************)
(* One request's way through a Latiq cluster: the surface it arrives on    *)
(* (MCP or gRPC), the node that greets it, the pond's owner it is          *)
(* forwarded to, the engine call with its deadline, the access record, and *)
(* the answer that travels back (latiq-agent-core ops.rs, deadline.rs,     *)
(* inflight.rs; latiq-pond-node data_service.rs, stream_service.rs,        *)
(* forward_client.rs; latiq-mcp server.rs).                                *)
(*                                                                         *)
(* frames[r] is the stack of handler futures working for request r: the    *)
(* greeter's first, the one now working last.  A handler that forwards     *)
(* waits below the owner's.  The engine call is not on the stack: it is    *)
(* detached on the blocking pool and outlives a handler that is dropped.   *)
(***************************************************************************)
EXTENDS Errors, Integers, Sequences, FiniteSets, SequencesExt

CONSTANTS
  Nodes,      \* the pond nodes
  Requests,   \* the requests of a behaviour
  Rows,       \* what the registry may say of the pond: None, or its owner's id and address
  Auths,      \* the sets of nodes that may have a verifier configured
  Timeouts,   \* the timeouts a caller may ask for, in ms, zero among them
  Failures,   \* the EngineErrors a statement may fail with
  Tables,     \* tables of the dataset load_dataset copies
  MaxFaults   \* bound on faults: hang-ups, cancels, crashes, panics, moved ponds

(* What there is to an error, with the trace and the span it was given.    *)
Envelope ==
  [ kind : ErrorKind, advice : Advice, see : Pages, audience : Audience, retryable : Retryable,
    facts : SUBSET Facts, trace : Requests \cup { None }, span : Nodes \cup { None } ]

(* EngineError::Timeout is in the enum, and no engine returns it.          *)
ASSUME PathAssumption ==
  /\ None \notin Nodes \cup Requests \cup Nat \cup Envelope \cup [ node : Nodes, by : Nodes, env : Envelope ]
  /\ None \notin [ id : Nodes \cup { None }, at : Nodes \cup { None } ]
  /\ None \notin [ ok : BOOLEAN, by : Nodes \cup { None }, env : Envelope \cup { None } ]
  /\ None \notin { "timer", "caller", "drop", "dropped" }
  /\ None \notin { "read_query", "read_arrow", "write_query", "load_dataset" }
  /\ Rows \subseteq { None } \cup [ id : Nodes \cup { None }, at : Nodes \cup { None } ]
  /\ Auths \subseteq SUBSET Nodes
  /\ Failures \subseteq EngineError \ { "Timeout" }
  /\ Timeouts \subseteq Nat /\ Tables \in Nat /\ MaxFaults \in Nat

VARIABLES
  conf,     \* which nodes verify tokens, and whether this is a cluster at all
  row,      \* the registry's answer about each request's pond
  up,       \* the nodes that are running
  chans,    \* <<node, peer, kind>>: channels GrpcForwarder has cached
  dialing,  \* the request holding each node's client map, per kind of client
  client,   \* what the caller is doing: "idle", "waiting", "gone", or "absent", never to call
  ask,      \* the request: surface, operation, token, asked timeout, cancel
  frames,   \* the handlers at work
  call,     \* the engine call of the request
  tail,     \* how the request's Arrow stream ended
  inflight, \* the in-flight registry of each node
  gauge,    \* latiq_pond_inflight_queries of each node
  trail,    \* the access records made for the request
  answer,   \* what the caller was told
  ran,      \* history: the engine calls started, where, as whom, and who owned the pond
  cause,    \* history: the failure the request met: the node it arose on, the node that
            \* first put it in an envelope, and that envelope
  faults    \* the number of faults so far

vars == << conf, row, up, chans, dialing, client, ask, frames, call, tail, inflight,
           gauge, trail, answer, ran, cause, faults >>

world == << conf, row, up, chans, dialing >>

engine == << call, tail, inflight, gauge, ran >>

Streamed == { "read_query", "read_arrow" }
Registry == { "allocate_pond", "list_ponds", "list_datasets", "list_catalogs" }
Kinds    == { "data", "stream" }

(***************************************************************************)
(* Execution controls.  Every deadline is finite (QueryTimeouts::effective *)
(* gives the default for a zero and caps the rest), so its length is left  *)
(* out.                                                                    *)
(***************************************************************************)
NoCall == [ node |-> None, op |-> None, st |-> "none", out |-> None, cut |-> FALSE, first |-> None,
            expired |-> FALSE, timer |-> "off", watched |-> FALSE, heard |-> TRUE,
            flowed |-> FALSE ]

(* Deadline::arm: one watcher for the timer and the caller's cancel.       *)
arm(c, watched) == [ c EXCEPT !.timer = "armed", !.watched = watched ]

(* The abort token fires; `first' remembers who pulled it.                 *)
Fire(c, who) == [ c EXCEPT !.cut = TRUE, !.first = IF @ = None THEN who ELSE @ ]

(* Mutant: the guard stops its watcher and leaves the statement running.   *)
drop_guard_watcher_only(c) == [ c EXCEPT !.timer = "off" ]

(* Drop for Deadline: the watcher stops, and the token fires.              *)
drop_guard(c) == [ Fire(c, "dropped") EXCEPT !.timer = "off" ]

(* Mutant: what the engine says, whoever cut it.                           *)
classify_by_engine(c) == from_engine(c.out)

(* Deadline::classify: a cut is reported as a timeout when the timer was   *)
(* the one that cut it.                                                    *)
classify(c) ==
  IF c.out = "Cancelled" /\ c.expired THEN query_timeout ELSE from_engine(c.out)

(***************************************************************************)
(* Results, records, and the hop between two nodes.                        *)
(***************************************************************************)
Ok(n)    == [ ok |-> TRUE, by |-> n, env |-> None ]
Err(env) == [ ok |-> FALSE, by |-> None, env |-> env ]

outcome(res) == res.ok

Record(n, op, who, ok) == [ node |-> n, op |-> op, who |-> who, ok |-> ok ]

(* access::record, the one emitter of the trail.                           *)
audit(r, n, op, who, ok) == trail' = [ trail EXCEPT ![r] = Append(@, Record(n, op, who, ok)) ]

(* An error leaves a node as a status with the envelope in its details,    *)
(* stamped with the trace and, if it names none yet, this node's span.     *)
Relayed(r, res, from) ==
  IF res.ok THEN res ELSE Err(status_to_error(to_status(res.env, r, from)))

(* encode.rs err_envelope and data_service.rs to_status: the last edge.    *)
err_envelope(r, res, n) ==
  IF res.ok THEN res ELSE Err(to_status(res.env, r, n).details)

Top(r)   == Last(frames[r])
Depth(r) == Len(frames[r])

Handler(n, op, at, who, bearer) ==
  [ node |-> n, op |-> op, at |-> at, who |-> who, bearer |-> bearer, info |-> None,
    to |-> None, left |-> 0, res |-> None ]

Move(r, at) == frames' = [ frames EXCEPT ![r][Depth(r)].at = at ]

(* The failure a result carries, the first time it is made: it arose on    *)
(* node n, and node m was the first to put it in an envelope.              *)
BlameVia(r, n, m, res) ==
  cause' = [ cause EXCEPT ![r] =
               IF ~ res.ok /\ @ = None THEN [ node |-> n, by |-> m, env |-> res.env ] ELSE @ ]

Blame(r, n, res) == BlameVia(r, n, n, res)

(* The working handler returns `res': to the caller, or to the handler     *)
(* that waits for it, over the wire when that one is on another node.      *)
Return(r, res) ==
  LET n == Top(r).node
      d == Depth(r)
      back == IF d > 1 /\ frames[r][d - 1].node # n THEN Relayed(r, res, n) ELSE res
  IN /\ frames' = [ frames EXCEPT ![r] =
                      IF d = 1 THEN << >>
                      ELSE [ SubSeq(@, 1, d - 1) EXCEPT ![d - 1].at = "relaying", ![d - 1].res = back ] ]
     /\ answer' = [ answer EXCEPT ![r] =
                      IF d = 1 /\ client[r] = "waiting" THEN err_envelope(r, res, n) ELSE @ ]
     /\ Blame(r, n, res)

(***************************************************************************)
(* The door: who the caller is.                                            *)
(***************************************************************************)
(* With a verifier, a good token and nothing else; without one the caller  *)
(* is believed and its token is not kept.                                  *)
identity_of(n, token) ==
  IF n \notin conf.auth THEN [ ok |-> TRUE, who |-> "claimed", bearer |-> None ]
  ELSE IF token = "good" THEN [ ok |-> TRUE, who |-> "verified", bearer |-> token ]
  ELSE [ ok |-> FALSE, who |-> "claimed", bearer |-> None ]

(* forward_client.rs with_identity: the ORIGINAL token is replayed.        *)
with_identity(f) == f.bearer

FirstStep(op) ==
  IF op \in Registry THEN "asking" ELSE IF op = "load_dataset" THEN "loading" ELSE "resolving"

Fresh(r, n) == client[r] = "idle" /\ n \in up

Asked(surface, op, token, ms) ==
  [ surface |-> surface, op |-> op, token |-> token, ms |-> ms, cancel |-> FALSE ]

Enter(r, n, surface, op, token, ms, id) ==
  /\ client' = [ client EXCEPT ![r] = "waiting" ]
  /\ ask' = [ ask EXCEPT ![r] = Asked(surface, op, token, ms) ]
  /\ frames' = [ frames EXCEPT ![r] = << Handler(n, op, FirstStep(op), id.who, id.bearer) >> ]

(* The answer to a caller without a good token: a 401 with no body, or a   *)
(* gRPC status with no details.  There is no envelope in it.               *)
Unauthorized == Err(None)

(* A caller turned away before AgentOps is answered and nothing else.      *)
TurnedAway(r, n, surface, op, token, ms, env, res) ==
  /\ client' = [ client EXCEPT ![r] = "waiting" ]
  /\ ask' = [ ask EXCEPT ![r] = Asked(surface, op, token, ms) ]
  /\ answer' = [ answer EXCEPT ![r] = res ]
  /\ Blame(r, n, Err(env))

(* A Data or Stream RPC: a rejection is on the access trail.               *)
Rpc(r, n, op, token, ms) ==
  LET id == identity_of(n, token)
  IN /\ Fresh(r, n)
     /\ IF id.ok
        THEN Enter(r, n, "grpc", op, token, ms, id) /\ UNCHANGED << trail, answer, cause >>
        ELSE /\ TurnedAway(r, n, "grpc", op, token, ms, for_kind("Unauthenticated"), Unauthorized)
             /\ audit(r, n, op, "claimed", FALSE)
             /\ UNCHANGED frames
     /\ UNCHANGED << world, engine, faults >>

(* An MCP tool: the layer in front of the router answers 401 and records   *)
(* nothing; arguments the tool itself refuses never reach AgentOps.        *)
Tool(r, n, op, token, ms, valid) ==
  LET id == identity_of(n, token)
      refusal == rendered_with("InvalidValue", { "field" }, "guidance")
  IN /\ Fresh(r, n)
     /\ IF id.ok /\ valid
        THEN Enter(r, n, "mcp", op, token, ms, id) /\ UNCHANGED << answer, cause >>
        ELSE /\ IF id.ok THEN TurnedAway(r, n, "mcp", op, token, ms, refusal, err_envelope(r, Err(refusal), n))
                ELSE TurnedAway(r, n, "mcp", op, token, ms, for_kind("Unauthenticated"), Unauthorized)
             /\ UNCHANGED frames
     /\ UNCHANGED << world, engine, trail, faults >>

(* reject_zero: on this surface a zero is a value the caller chose.        *)
reject_zero(ms) == ms = 0

(* The RPCs of the Data and Stream services ...                            *)
allocate_pond(r, n, t)    == Rpc(r, n, "allocate_pond", t, None)
describe_pond(r, n, t)    == Rpc(r, n, "describe_pond", t, None)
read_query(r, n, t, ms)   == Rpc(r, n, "read_query", t, ms)
write_query(r, n, t, ms)  == Rpc(r, n, "write_query", t, ms)
read_arrow(r, n, t, ms)   == Rpc(r, n, "read_arrow", t, ms)
explain_query(r, n, t)    == Rpc(r, n, "explain_query", t, None)
load_dataset(r, n, t)     == Rpc(r, n, "load_dataset", t, None)
catalog_pull(r, n, t)     == Rpc(r, n, "catalog_pull", t, None)
catalog_describe(r, n, t) == Rpc(r, n, "catalog_describe", t, None)
get_lineage(r, n, t)      == Rpc(r, n, "get_lineage", t, None)

(* ... and the tools of the MCP server.                                    *)
tool_allocate_pond(r, n, t, valid) == Tool(r, n, "allocate_pond", t, None, valid)
tool_describe_pond(r, n, t)    == Tool(r, n, "describe_pond", t, None, TRUE)
tool_list_ponds(r, n, t)       == Tool(r, n, "list_ponds", t, None, TRUE)
tool_read_query(r, n, t, ms)   == Tool(r, n, "read_query", t, ms, ~ reject_zero(ms))
tool_write_query(r, n, t, ms)  == Tool(r, n, "write_query", t, ms, ~ reject_zero(ms))
tool_explain_query(r, n, t)    == Tool(r, n, "explain_query", t, None, TRUE)
tool_list_datasets(r, n, t)    == Tool(r, n, "list_datasets", t, None, TRUE)
tool_list_catalogs(r, n, t)    == Tool(r, n, "list_catalogs", t, None, TRUE)
tool_load_dataset(r, n, t)     == Tool(r, n, "load_dataset", t, None, TRUE)
tool_describe_catalog(r, n, t) == Tool(r, n, "catalog_describe", t, None, TRUE)
tool_pull_catalog(r, n, t)     == Tool(r, n, "catalog_pull", t, None, TRUE)
tool_get_lineage(r, n, t)      == Tool(r, n, "get_lineage", t, None, TRUE)

ToolCall(r, n, t) ==
  \/ \E ms \in Timeouts : tool_read_query(r, n, t, ms) \/ tool_write_query(r, n, t, ms)
  \/ \E valid \in BOOLEAN : tool_allocate_pond(r, n, t, valid)
  \/ tool_describe_pond(r, n, t) \/ tool_list_ponds(r, n, t) \/ tool_explain_query(r, n, t)
  \/ tool_list_datasets(r, n, t) \/ tool_list_catalogs(r, n, t) \/ tool_load_dataset(r, n, t)
  \/ tool_describe_catalog(r, n, t) \/ tool_pull_catalog(r, n, t) \/ tool_get_lineage(r, n, t)

(***************************************************************************)
(* The gRPC clients.  Both choose the RPC by what the statement looks      *)
(* like: its first word, and whether a modifying word stands in it.        *)
(***************************************************************************)
Statements == [ first : { "read", "non_read", "unknown" }, modifies : BOOLEAN ]

leads_with_a_non_read_keyword(stmt) == stmt.first = "non_read"

SqlShape(stmt) ==
  CASE stmt.first = "read" /\ ~ stmt.modifies    -> "Read"
    [] stmt.first = "read" /\ stmt.modifies      -> "Write"
    [] leads_with_a_non_read_keyword(stmt)       -> "Write"
    [] OTHER                                     -> "Unrecognized"

is_read_only(stmt) == SqlShape(stmt) = "Read"

(* The SDK sends everything to its front door, with no timeout of its own. *)
sdk_query_ipc(r, n, t) ==
  \E stmt \in Statements :
    IF is_read_only(stmt) THEN read_arrow(r, n, t, 0) ELSE write_query(r, n, t, 0)

sdk_describe_pond(r, n, t)    == describe_pond(r, n, t)
sdk_explain(r, n, t)          == explain_query(r, n, t)
sdk_load_dataset(r, n, t)     == load_dataset(r, n, t)
sdk_describe_catalog(r, n, t) == catalog_describe(r, n, t)
sdk_pull_catalog(r, n, t)     == catalog_pull(r, n, t)

(* The CLI asks the control plane for the owner's address and goes there;  *)
(* with a gateway set, whichever node that picks greets it.  A pond        *)
(* without an address is reported and nothing is sent.                     *)
resolve_node(r) == IF row[r] = None THEN {} ELSE { row[r].at }

data_target(r, gateway) == IF gateway THEN Nodes ELSE resolve_node(r)

run_query(r, n, t) ==
  \E stmt \in Statements, ms \in Timeouts :
    IF is_read_only(stmt) THEN read_query(r, n, t, ms) ELSE write_query(r, n, t, ms)

cli_describe(r, n, t)         == describe_pond(r, n, t)
cli_dataset_load(r, n, t)     == load_dataset(r, n, t)
cli_catalog_describe(r, n, t) == catalog_describe(r, n, t)
cli_catalog_pull(r, n, t)     == catalog_pull(r, n, t)

SdkCall(r, n, t) ==
  \/ sdk_query_ipc(r, n, t) \/ sdk_describe_pond(r, n, t) \/ sdk_explain(r, n, t)
  \/ sdk_load_dataset(r, n, t) \/ sdk_describe_catalog(r, n, t) \/ sdk_pull_catalog(r, n, t)

CliCall(r, n, t) ==
  /\ \E gateway \in BOOLEAN : n \in data_target(r, gateway)
  /\ \/ run_query(r, n, t) \/ cli_describe(r, n, t) \/ cli_dataset_load(r, n, t)
     \/ cli_catalog_describe(r, n, t) \/ cli_catalog_pull(r, n, t)

(* The RPCs neither of them sends.                                         *)
OtherCall(r, n, t) ==
  \/ allocate_pond(r, n, t) \/ get_lineage(r, n, t)
  \/ \E ms \in Timeouts : read_arrow(r, n, t, ms)

Arrives(r) ==
  \E n \in Nodes, t \in { None, "good" } :
    ToolCall(r, n, t) \/ SdkCall(r, n, t) \/ CliCall(r, n, t) \/ OtherCall(r, n, t)

(***************************************************************************)
(* Operations the control plane alone answers.  An allocation and a list   *)
(* of ponds are recorded, a list of datasets or catalogs is not.           *)
(***************************************************************************)
FromControlPlane(r, e) == Err(status_err(to_status_traced(e, r)))

Asking(r, op) == frames[r] # << >> /\ Top(r).at = "asking" /\ Top(r).op = op /\ Top(r).node \in up

(* Two calls: the pond is created, then looked up, and a drop may come     *)
(* between them.                                                           *)
AllocatePond(r) ==
  LET f == Top(r)
  IN /\ Asking(r, "allocate_pond")
     /\ \E res \in { Ok(f.node) } \cup
          { FromControlPlane(r, e) : e \in { "NameConflict", "NoNodeAvailable", "PondNotFound" } } :
          audit(r, f.node, f.op, f.who, outcome(res)) /\ Return(r, res)
     /\ UNCHANGED << world, client, ask, engine, faults >>

ListPonds(r) ==
  LET f == Top(r)
  IN /\ Asking(r, "list_ponds")
     /\ \E res \in { Ok(f.node), FromControlPlane(r, "Storage") } :
          audit(r, f.node, f.op, f.who, outcome(res)) /\ Return(r, res)
     /\ UNCHANGED << world, client, ask, engine, faults >>

ListDatasets(r) ==
  /\ Asking(r, "list_datasets")
  /\ \E res \in { Ok(Top(r).node), FromControlPlane(r, "Storage") } : Return(r, res)
  /\ UNCHANGED << world, client, ask, engine, trail, faults >>

ListCatalogs(r) ==
  /\ Asking(r, "list_catalogs")
  /\ \E res \in { Ok(Top(r).node), FromControlPlane(r, "Storage") } : Return(r, res)
  /\ UNCHANGED << world, client, ask, engine, trail, faults >>

(***************************************************************************)
(* Where the pond is.                                                      *)
(***************************************************************************)
(* Mutant: ownership read off the address, and the check that no node      *)
(* dials itself gone with it.                                              *)
placement_by_endpoint(n, info) ==
  IF ~ conf.clustered \/ info.at = n THEN "Local"
  ELSE IF info.at = None THEN "NoOwner" ELSE "Forward"

placement(n, info) ==
  IF ~ conf.clustered THEN "Local"
  ELSE IF info.id = None THEN "NoOwner"
  ELSE IF info.id = n THEN "Local"
  ELSE IF info.at \in { None, n } THEN "NoOwner"
  ELSE "Forward"

(* What starts here: the gauge goes up first, so a pond whose storage      *)
(* cannot be had leaves it up.  The deadline is armed before the engine is *)
(* called, and a read begins by waiting for a pooled connection.           *)
Counted(op) == op \in Streamed \cup { "write_query" }

with_read(op) == op \in Streamed \cup { "describe_pond", "explain_query" }

Launch(r, f) ==
  LET bare == [ NoCall EXCEPT !.node = f.node, !.op = f.op,
                              !.st = IF with_read(f.op) THEN "queued" ELSE "running" ]
      deadline == arm(bare, Depth(r) = 1 /\ ask[r].surface = "mcp")
  IN /\ call' = [ call EXCEPT ![r] = IF Counted(f.op) THEN deadline ELSE bare ]
     /\ tail' = [ tail EXCEPT ![r] = None ]
     /\ inflight' = IF Counted(f.op) THEN [ inflight EXCEPT ![f.node] = @ \cup { r } ] ELSE inflight
     /\ gauge' = IF Counted(f.op) THEN [ gauge EXCEPT ![f.node] = @ + 1 ] ELSE gauge
     /\ ran' = [ ran EXCEPT ![r] =
                   Append(@, [ node |-> f.node, who |-> f.who,
                               owner |-> IF ~ conf.clustered THEN f.node
                                         ELSE IF row[r] = None THEN None ELSE row[r].id ]) ]
     /\ Move(r, "running")
     /\ UNCHANGED << trail, answer, cause, faults >>

(* ensure_pond fails: the `?' of the local half returns past the decrement.*)
StorageFails(r, f) ==
  /\ faults < MaxFaults /\ faults' = faults + 1
  /\ gauge' = IF Counted(f.op) THEN [ gauge EXCEPT ![f.node] = @ + 1 ] ELSE gauge
  /\ audit(r, f.node, f.op, f.who, FALSE)
  /\ Return(r, Err(for_kind("Storage")))
  /\ UNCHANGED << call, tail, inflight, ran >>

Refused(r, f, env) ==
  /\ audit(r, f.node, f.op, f.who, FALSE)
  /\ Return(r, Err(env))
  /\ UNCHANGED << engine, faults >>

(* prepare_pull: the catalog is resolved first.                            *)
prepare_pull(r, f) ==
  /\ f.op \in { "catalog_pull", "catalog_describe" }
  /\ Refused(r, f, status_err(to_status_traced("CatalogNotFound", r)))

(* get_lineage_local: a pond that does not record lineage, or one this     *)
(* node holds no directory for, is an error and not an empty page.         *)
NoLineage(r, f) ==
  /\ f.op = "get_lineage"
  /\ \E kind \in { "InvalidValue", "Storage" } :
       Refused(r, f, rendered_with(kind, { "pond" }, "lineage"))

(* get_lineage: a page of no events is refused before it is routed.        *)
ZeroLimit(r, f) ==
  /\ f.op = "get_lineage"
  /\ Refused(r, f, rendered_with("InvalidValue", { "max_limit" }, "lineage"))

(* pond_info_audited: the control plane is asked, and what it said comes   *)
(* back as a copy, behind which the row may change; an unreachable control *)
(* plane is an error like any other.                                       *)
pond_info_audited(r) ==
  LET f == Top(r)
  IN /\ frames[r] # << >> /\ f.at = "resolving" /\ f.node \in up
     /\ \/ row[r] = None /\ Refused(r, f, status_err(to_status_traced("PondNotFound", r)))
        \/ Refused(r, f, status_err(Status("Unavailable", None)))
        \/ /\ row[r] # None
           /\ frames' = [ frames EXCEPT ![r][Depth(r)].at = "routing",
                                        ![r][Depth(r)].info = row[r] ]
           /\ UNCHANGED << engine, trail, answer, cause, faults >>
     /\ UNCHANGED << world, client, ask >>

(* route: the copy decides between serving, forwarding and refusing.       *)
Route(r) ==
  LET f == Top(r)
  IN /\ frames[r] # << >> /\ f.at = "routing" /\ f.node \in up
     /\ CASE placement(f.node, f.info) = "NoOwner" -> Refused(r, f, pond_unavailable)
          [] placement(f.node, f.info) = "Local" -> Launch(r, f) \/ StorageFails(r, f)
          [] OTHER ->
               /\ frames' = [ frames EXCEPT ![r][Depth(r)].at = "dialling",
                                            ![r][Depth(r)].to = f.info.at ]
               /\ UNCHANGED << engine, trail, answer, cause, faults >>
     /\ UNCHANGED << world, client, ask >>

(* The same, when the operation refuses its own arguments.                 *)
RefusesArguments(r) ==
  LET f == Top(r)
  IN /\ frames[r] # << >> /\ f.at = "routing" /\ f.node \in up
     /\ \/ ZeroLimit(r, f)
        \/ placement(f.node, f.info) = "Local" /\ (prepare_pull(r, f) \/ NoLineage(r, f))
     /\ UNCHANGED << world, client, ask >>

(***************************************************************************)
(* GrpcForwarder.  One map of channels per kind of client, and the map's   *)
(* lock is held while a peer is dialled.                                   *)
(***************************************************************************)
Kind(op) == IF op \in Streamed THEN "stream" ELSE "data"

(* read_collected rides the Arrow hop.                                     *)
OnTheWire(op) == IF op = "read_query" THEN "read_arrow" ELSE op

(* The owner's door and handler, reached over an open channel.  A peer     *)
(* that does not answer is `Unavailable' and recorded nowhere; one that    *)
(* turns the call away says so in a status without an envelope, which is   *)
(* this node's to write.                                                   *)
Send(r, f) ==
  LET id == identity_of(f.to, with_identity(f))
      op == OnTheWire(f.op)
      told(env) == [ frames EXCEPT ![r][Depth(r)].at = "relaying", ![r][Depth(r)].res = Err(env) ]
  IN IF f.to \notin up
     THEN /\ frames' = told(status_to_error(Status("Unavailable", None)))
          /\ Blame(r, f.node, Err(unreachable_owner))
          /\ UNCHANGED trail
     ELSE IF id.ok
     THEN /\ frames' = [ frames EXCEPT ![r] =
                           Append([ @ EXCEPT ![Depth(r)].at = "waiting" ],
                                  Handler(f.to, op, "resolving", id.who, id.bearer)) ]
          /\ UNCHANGED << trail, cause >>
     ELSE /\ frames' = told(status_to_error(unauthenticated))
          /\ BlameVia(r, f.to, f.node, Err(for_kind("Unauthenticated")))
          /\ audit(r, f.to, op, "claimed", FALSE)

Dialling(r) == frames[r] # << >> /\ Top(r).at = "dialling" /\ Top(r).node \in up

(* The lock is free and the channel is cached.                             *)
CachedClient(r) ==
  LET f == Top(r)
  IN /\ Dialling(r) /\ dialing[f.node][Kind(f.op)] = None
     /\ << f.node, f.to, Kind(f.op) >> \in chans
     /\ Send(r, f)
     /\ UNCHANGED << world, client, ask, engine, answer, faults >>

Connect(r) ==
  LET f == Top(r)
  IN /\ Dialling(r) /\ dialing[f.node][Kind(f.op)] = None
     /\ << f.node, f.to, Kind(f.op) >> \notin chans
     /\ dialing' = [ dialing EXCEPT ![f.node][Kind(f.op)] = r ]
     /\ UNCHANGED << conf, row, up, chans, client, ask, frames, engine, trail, answer, cause, faults >>

(* The dial ends, one way or the other, and the lock with it.              *)
Connected(r) ==
  LET f == Top(r)
  IN /\ Dialling(r) /\ dialing[f.node][Kind(f.op)] = r
     /\ dialing' = [ dialing EXCEPT ![f.node][Kind(f.op)] = None ]
     /\ chans' = IF f.to \in up THEN chans \cup { << f.node, f.to, Kind(f.op) >> } ELSE chans
     /\ Send(r, f)
     /\ UNCHANGED << conf, row, up, client, ask, engine, answer, faults >>

(* Mutant: the greeter records the relayed answer too.                     *)
RelayRecorded(r) ==
  LET f == Top(r)
  IN /\ frames[r] # << >> /\ f.at = "relaying" /\ f.op # "load_dataset" /\ f.node \in up
     /\ audit(r, f.node, f.op, f.who, f.res.ok) /\ Return(r, f.res)
     /\ UNCHANGED << world, client, ask, engine, faults >>

(* A handler whose peer has answered relays the owner's result as it is    *)
(* and records nothing; a read it must collect it goes on collecting.      *)
Relay(r) ==
  LET f == Top(r)
  IN /\ frames[r] # << >> /\ f.at = "relaying" /\ f.op # "load_dataset" /\ f.node \in up
     /\ IF f.op = "read_query" /\ f.res.ok
        THEN Move(r, "collecting") /\ UNCHANGED << answer, cause >>
        ELSE Return(r, f.res)
     /\ UNCHANGED << world, client, ask, engine, trail, faults >>

(***************************************************************************)
(* load_dataset: the schema and then each table, one write_query apiece,   *)
(* and one record for the whole.                                           *)
(***************************************************************************)
LoadBegins(r) ==
  LET f == Top(r)
      missing == Err(status_err(to_status_traced("DatasetNotFound", r)))
  IN /\ frames[r] # << >> /\ f.at = "loading" /\ f.node \in up
     /\ \/ /\ frames' = [ frames EXCEPT ![r] =
                           Append([ @ EXCEPT ![1].at = "waiting", ![1].left = Tables + 1 ],
                                  Handler(f.node, "write_query", "resolving", f.who, f.bearer)) ]
           /\ UNCHANGED << trail, answer, cause >>
        \/ audit(r, f.node, f.op, f.who, FALSE) /\ Return(r, missing)
     /\ UNCHANGED << world, client, ask, engine, faults >>

LoadGoesOn(r) ==
  LET f == Top(r)
  IN /\ frames[r] # << >> /\ f.at = "relaying" /\ f.op = "load_dataset" /\ f.node \in up
     /\ IF f.res.ok /\ f.left > 1
        THEN /\ frames' = [ frames EXCEPT ![r] =
                              Append([ @ EXCEPT ![1].at = "waiting", ![1].left = f.left - 1 ],
                                     Handler(f.node, "write_query", "resolving", f.who, f.bearer)) ]
             /\ UNCHANGED << trail, answer, cause >>
        ELSE /\ audit(r, f.node, f.op, f.who, outcome(f.res))
             /\ Return(r, IF f.res.ok THEN Ok(f.node) ELSE f.res)
     /\ UNCHANGED << world, client, ask, engine, faults >>

(***************************************************************************)
(* The engine call, on a thread of the blocking pool (external: what it    *)
(* may return is the engine's; an interrupted statement may still win).    *)
(***************************************************************************)
Live(r) == call[r].st \in { "queued", "running", "flowing" }

(* checkout_read: a connection of the pond's pool comes free.  The wait    *)
(* has no deadline and does not look at the abort token.                   *)
checkout_read(r) ==
  /\ call[r].st = "queued" /\ call[r].node \in up
  /\ call' = [ call EXCEPT ![r].st = "running" ]
  /\ UNCHANGED << world, client, ask, frames, tail, inflight, gauge, trail, answer, ran, cause, faults >>

(* The schema is known and the first batch can go.                         *)
Flows(r) ==
  /\ call[r].st = "running" /\ call[r].op \in Streamed /\ call[r].node \in up
  /\ call' = [ call EXCEPT ![r].st = "flowing", ![r].flowed = TRUE ]
  /\ UNCHANGED << world, client, ask, frames, tail, inflight, gauge, trail, answer, ran, cause, faults >>

EngineEnds(r, out) ==
  /\ Live(r) /\ call[r].node \in up
  /\ call[r].st = "queued" => out \in Failures
  /\ out = "Cancelled" => call[r].cut
  /\ out = "ok" /\ call[r].op \in Streamed => call[r].st = "flowing" \/ ~ call[r].heard
  /\ IF out = "panic" THEN faults < MaxFaults /\ faults' = faults + 1 ELSE UNCHANGED faults
  /\ call' = [ call EXCEPT ![r].st = "ended", ![r].out = out ]
  /\ UNCHANGED << world, client, ask, frames, tail, inflight, gauge, trail, answer, ran, cause >>

(* The handler at work is the one that waits for the call.                 *)
Waits(r) == frames[r] # << >> /\ Top(r).at \in { "running", "collecting" } /\ Top(r).node = call[r].node

Result(r, n, fate) ==
  IF call[r].out = "ok" THEN Ok(n)
  ELSE Err(IF call[r].out = "panic" THEN for_kind("Internal") ELSE fate)

Completed(r) ==
  /\ inflight' = [ inflight EXCEPT ![call[r].node] = @ \ { r } ]
  /\ gauge' = [ gauge EXCEPT ![call[r].node] = @ - 1 ]

(* run_query_local after the join: out of the registry, off the gauge,     *)
(* classified, recorded; the guard is dropped on return.                   *)
Joins(r) ==
  LET f == Top(r)
      res == Result(r, f.node, classify(call[r]))
  IN /\ Waits(r) /\ f.op = "write_query" /\ call[r].st = "ended" /\ f.node \in up
     /\ Completed(r)
     /\ call' = [ call EXCEPT ![r] = [ drop_guard(@) EXCEPT !.st = "closed" ] ]
     /\ audit(r, f.node, f.op, f.who, outcome(res))
     /\ Return(r, res)
     /\ UNCHANGED << world, client, ask, tail, ran, faults >>

(* The local halves with no deadline and no in-flight entry.               *)
JoinsBare(r, op) ==
  LET f == Top(r)
      res == Result(r, f.node, from_engine(call[r].out))
  IN /\ Waits(r) /\ f.op = op /\ call[r].st = "ended" /\ f.node \in up
     /\ call' = [ call EXCEPT ![r].st = "closed" ]
     /\ audit(r, f.node, f.op, f.who, outcome(res))
     /\ Return(r, res)
     /\ UNCHANGED << world, client, ask, tail, inflight, gauge, ran, faults >>

describe_pond_local(r)    == JoinsBare(r, "describe_pond")
explain_query_local(r)    == JoinsBare(r, "explain_query")
catalog_describe_local(r) == JoinsBare(r, "catalog_describe")
catalog_pull_local(r)     == JoinsBare(r, "catalog_pull")
get_lineage_local(r)      == JoinsBare(r, "get_lineage")

(* Mutant: the entry is completed on the Ok arm only.                      *)
ProducerEndsEarly(r) ==
  LET n == call[r].node
      res == Result(r, n, classify(call[r]))
  IN /\ call[r].st = "ended" /\ call[r].op \in Streamed /\ n \in up
     /\ call' = [ call EXCEPT ![r] = [ drop_guard(@) EXCEPT !.st = "closed" ] ]
     /\ IF call[r].out # "ok"
        THEN /\ tail' = [ tail EXCEPT ![r] = res ]
             /\ UNCHANGED << inflight, gauge >>
        ELSE tail' = [ tail EXCEPT ![r] = res ] /\ Completed(r)
     /\ Blame(r, n, res)
     /\ UNCHANGED << world, client, ask, frames, trail, answer, ran, faults >>

(* The end of the blocking producer of a streamed read.  A panic unwinds   *)
(* past inflight.complete and the gauge, and the stream just stops.        *)
ProducerEnds(r) ==
  LET n == call[r].node
      stops == call[r].out = "panic" /\ call[r].flowed
      res == IF stops THEN Ok(n) ELSE Result(r, n, classify(call[r]))
  IN /\ call[r].st = "ended" /\ call[r].op \in Streamed /\ n \in up
     /\ call' = [ call EXCEPT ![r] = [ drop_guard(@) EXCEPT !.st = "closed" ] ]
     /\ IF call[r].out = "panic" THEN UNCHANGED << inflight, gauge >> ELSE Completed(r)
     /\ tail' = [ tail EXCEPT ![r] = res ]
     /\ Blame(r, n, res)
     /\ UNCHANGED << world, client, ask, frames, trail, answer, ran, faults >>

(* The schema, or the error in its place, reaches the handler.             *)
Established(r) ==
  LET f == Top(r)
      failed == call[r].st = "closed" /\ ~ call[r].flowed
      res == IF failed THEN tail[r] ELSE Ok(f.node)
  IN /\ Waits(r) /\ f.at = "running" /\ f.op \in Streamed /\ f.node \in up
     /\ call[r].flowed \/ failed
     /\ IF f.op = "read_query" /\ ~ failed
        THEN Move(r, "collecting") /\ UNCHANGED << trail, answer, cause >>
        ELSE audit(r, f.node, f.op, f.who, outcome(res)) /\ Return(r, res)
     /\ UNCHANGED << world, client, ask, engine, faults >>

(* collect_stream, on the owner itself or over the hop: the end of the     *)
(* stream, or the inline cap, whichever comes first.                       *)
Collected(r, capped) ==
  LET f == Top(r)
      local == f.to = None
      whole == CASE local -> tail[r]
                 [] ~ local /\ call[r].st = "dead" -> Err(unreachable_owner)
                 [] OTHER -> Relayed(r, tail[r], call[r].node)
      res == IF capped THEN Err(result_cap_exceeded_unknown) ELSE whole
  IN /\ frames[r] # << >> /\ f.at = "collecting" /\ f.node \in up
     /\ IF capped THEN call[r].st = "flowing" ELSE tail[r] # None \/ call[r].st = "dead"
     /\ call' = IF capped THEN [ call EXCEPT ![r].heard = FALSE ] ELSE call
     /\ IF local THEN audit(r, f.node, f.op, f.who, outcome(res)) ELSE UNCHANGED trail
     /\ Return(r, res)
     /\ UNCHANGED << world, client, ask, tail, inflight, gauge, ran, faults >>

(***************************************************************************)
(* What cuts a call: its deadline, its caller, a drop of its pond.         *)
(***************************************************************************)
Fault == faults < MaxFaults /\ faults' = faults + 1

(* Until the guard is dropped, the statement ended or not.                 *)
Expire(r) ==
  /\ call[r].timer = "armed" /\ (Live(r) \/ call[r].st = "ended") /\ call[r].node \in up
  /\ call' = [ call EXCEPT ![r] = [ Fire(@, "timer") EXCEPT !.expired = TRUE, !.timer = "spent" ] ]
  /\ UNCHANGED << world, client, ask, frames, tail, inflight, gauge, trail, answer, ran, cause, faults >>

(* notifications/cancelled of an MCP client, and the watcher that sees it: *)
(* only on the node the client speaks to.                                  *)
CallerCancels(r) ==
  /\ client[r] = "waiting" /\ answer[r] = None /\ ask[r].surface = "mcp" /\ ~ ask[r].cancel
  /\ ask' = [ ask EXCEPT ![r].cancel = TRUE ]
  /\ Fault
  /\ UNCHANGED << world, client, frames, engine, trail, answer, cause >>

CancelSeen(r) ==
  /\ call[r].timer = "armed" /\ call[r].watched /\ ask[r].cancel
  /\ (Live(r) \/ call[r].st = "ended") /\ call[r].node \in up
  /\ call' = [ call EXCEPT ![r] = [ Fire(@, "caller") EXCEPT !.timer = "spent" ] ]
  /\ UNCHANGED << world, client, ask, frames, tail, inflight, gauge, trail, answer, ran, cause, faults >>

(* InFlight::cancel_pond, by a drop of the pond.                           *)
DropCancels(r) ==
  /\ Live(r) /\ call[r].node \in up /\ r \in inflight[call[r].node]
  /\ call' = [ call EXCEPT ![r] = Fire(@, "drop") ]
  /\ Fault
  /\ UNCHANGED << world, client, ask, frames, tail, inflight, gauge, trail, answer, ran, cause >>

(***************************************************************************)
(* Dropped futures.  A gRPC client that hangs up, or a peer whose stream   *)
(* is reset, takes with it the handlers of one node; those of the next     *)
(* node learn of it when the reset arrives.                                *)
(***************************************************************************)
SameNode(s) == CHOOSE k \in 1 .. Len(s) :
  /\ \A i \in 1 .. k : s[i].node = s[1].node
  /\ k < Len(s) => s[k + 1].node # s[1].node

(* A write's guard is dropped with its handler, a stream's is with the     *)
(* producer and only its receiver goes; a bare call does not notice.       *)
Abandoned(c) ==
  CASE c.op = "write_query" -> drop_guard(c)
    [] c.op \in Streamed    -> [ c EXCEPT !.heard = FALSE ]
    [] OTHER                -> c

DropFutures(r) ==
  LET k == SameNode(frames[r])
      f == Top(r)
      last == k = Depth(r)
  IN /\ frames' = [ frames EXCEPT ![r] = SubSeq(@, k + 1, Depth(r)) ]
     /\ call' = IF last /\ f.at \in { "running", "collecting" }
                THEN [ call EXCEPT ![r] = Abandoned(@) ] ELSE call
     /\ dialing' = IF last /\ f.at = "dialling" /\ dialing[f.node][Kind(f.op)] = r
                   THEN [ dialing EXCEPT ![f.node][Kind(f.op)] = None ] ELSE dialing
     /\ UNCHANGED << conf, row, up, chans, ask, tail, inflight, gauge, trail, answer, ran, cause >>

Hangup(r) ==
  /\ client[r] = "waiting" /\ ask[r].surface = "grpc" /\ frames[r] # << >>
  /\ client' = [ client EXCEPT ![r] = "gone" ]
  /\ Fault
  /\ DropFutures(r)

Reset(r) ==
  /\ client[r] = "gone" /\ frames[r] # << >> /\ frames[r][1].node \in up
  /\ DropFutures(r)
  /\ UNCHANGED << client, faults >>

(* The consumer of an Arrow stream goes away in the middle of it.          *)
StreamDropped(r) ==
  /\ client[r] = "waiting" /\ answer[r] # None /\ Live(r) /\ call[r].heard
  /\ client' = [ client EXCEPT ![r] = "gone" ]
  /\ call' = [ call EXCEPT ![r].heard = FALSE ]
  /\ Fault
  /\ UNCHANGED << world, ask, frames, tail, inflight, gauge, trail, answer, ran, cause >>

(* A detached call ends with nobody to join it: nothing is completed,      *)
(* nothing recorded.                                                       *)
OrphanEnds(r) ==
  /\ call[r].st = "ended" /\ call[r].op \notin Streamed /\ ~ Waits(r) /\ call[r].node \in up
  /\ call' = [ call EXCEPT ![r].st = "closed" ]
  /\ UNCHANGED << world, client, ask, frames, tail, inflight, gauge, trail, answer, ran, cause, faults >>

(***************************************************************************)
(* A node crashes: its handlers, its calls and its maps are gone, and the  *)
(* handler that waited on it, if any, has a status without an envelope.    *)
(* Left out is a crash in the middle of a chain of forwards, which an      *)
(* owner that moves can build: the handlers of a request are one stack.    *)
(***************************************************************************)
At(r, n) == { i \in 1 .. Depth(r) : frames[r][i].node = n }

LostHop(s, n) ==
  LET k == CHOOSE i \in 1 .. Len(s) : s[i].node # n /\ s[i + 1].node = n
  IN [ SubSeq(s, 1, k) EXCEPT ![k].at = "relaying",
                              ![k].res = Err(status_to_error(Status("Unavailable", None))) ]

Crash(n) ==
  LET base == { r \in Requests : frames[r] # << >> /\ frames[r][1].node = n }
      hop  == { r \in Requests \ base : At(r, n) # {} }
  IN /\ n \in up /\ conf.clustered
     /\ \A r \in base \cup hop : \A i, j \in At(r, n) : i <= j => i .. j \subseteq At(r, n)
     /\ \A r \in hop : Depth(r) \in At(r, n)
     /\ up' = up \ { n }
     /\ frames' = [ r \in Requests |->
                      IF r \in base THEN SubSeq(frames[r], SameNode(frames[r]) + 1, Depth(r))
                      ELSE IF r \in hop THEN LostHop(frames[r], n) ELSE frames[r] ]
     /\ client' = [ r \in Requests |-> IF r \in base THEN "gone" ELSE client[r] ]
     /\ cause' = [ r \in Requests |->
                     IF r \in hop
                     THEN LET m == Last(LostHop(frames[r], n)).node
                          IN [ node |-> m, by |-> m, env |-> unreachable_owner ]
                     ELSE cause[r] ]
     /\ call' = [ r \in Requests |->
                    IF call[r].node = n /\ call[r].st # "closed" THEN [ call[r] EXCEPT !.st = "dead" ]
                    ELSE IF r \in base /\ frames[r] # << >> /\ Top(r).node = n /\ Top(r).at = "collecting"
                    THEN Abandoned(call[r]) ELSE call[r] ]
     /\ inflight' = [ inflight EXCEPT ![n] = {} ]
     /\ gauge' = [ gauge EXCEPT ![n] = 0 ]
     /\ dialing' = [ dialing EXCEPT ![n] = [ k \in Kinds |-> None ] ]
     /\ chans' = { c \in chans : n \notin { c[1], c[2] } }
     /\ Fault
     /\ UNCHANGED << conf, row, ask, tail, trail, answer, ran >>

(* The row is dropped or forgotten; or its owner registers anew, from      *)
(* another address.  Nothing gives a pond another owner.                   *)
RowGoes(r) ==
  /\ conf.clustered /\ frames[r] # << >> /\ row[r] # None
  /\ row' = [ row EXCEPT ![r] = None ]
  /\ Fault
  /\ UNCHANGED << conf, up, chans, dialing, client, ask, frames, engine, trail, answer, cause >>

OwnerMoves(r) ==
  /\ conf.clustered /\ frames[r] # << >> /\ row[r] # None /\ row[r].id # None
  /\ \E n \in Nodes \ { row[r].at } :
       /\ [ row[r] EXCEPT !.at = n ] \in Rows
       /\ row' = [ row EXCEPT ![r].at = n ]
  /\ Fault
  /\ UNCHANGED << conf, up, chans, dialing, client, ask, frames, engine, trail, answer, cause >>

(***************************************************************************)
(* The specification.                                                      *)
(***************************************************************************)
Init ==
  /\ conf \in [ auth : Auths, clustered : BOOLEAN ]
  /\ row \in [ Requests -> Rows ]
  /\ up \in IF conf.clustered THEN { Nodes } ELSE { { n } : n \in Nodes }
  /\ chans = {}
  /\ dialing = [ n \in Nodes |-> [ k \in Kinds |-> None ] ]
  /\ client \in [ Requests -> { "idle", "absent" } ]
  /\ ask = [ r \in Requests |-> Asked("grpc", None, None, None) ]
  /\ frames = [ r \in Requests |-> << >> ]
  /\ call = [ r \in Requests |-> NoCall ]
  /\ tail = [ r \in Requests |-> None ]
  /\ inflight = [ n \in Nodes |-> {} ]
  /\ gauge = [ n \in Nodes |-> 0 ]
  /\ trail = [ r \in Requests |-> << >> ]
  /\ answer = [ r \in Requests |-> None ]
  /\ ran = [ r \in Requests |-> << >> ]
  /\ cause = [ r \in Requests |-> None ]
  /\ faults = 0

Outcomes == { "ok", "Cancelled", "panic" } \cup Failures

(* What the control plane answers, and what the node does by itself.       *)
ControlStep(r) ==
  \/ AllocatePond(r) \/ ListPonds(r) \/ ListDatasets(r) \/ ListCatalogs(r)
  \/ pond_info_audited(r) \/ LoadBegins(r)

NodeStep(r) ==
  \/ Route(r) \/ RefusesArguments(r) \/ CachedClient(r) \/ Connect(r) \/ Connected(r) \/ Relay(r)
  \/ LoadGoesOn(r) \/ Joins(r) \/ Established(r)
  \/ describe_pond_local(r) \/ explain_query_local(r) \/ catalog_describe_local(r)
  \/ catalog_pull_local(r) \/ get_lineage_local(r)
  \/ \E capped \in BOOLEAN : Collected(r, capped)

HandlerStep(r) == ControlStep(r) \/ NodeStep(r)

EngineStep(r) ==
  \/ checkout_read(r) \/ Flows(r) \/ ProducerEnds(r) \/ OrphanEnds(r)
  \/ \E out \in Outcomes : EngineEnds(r, out)

Next ==
  \/ \E r \in Requests :
       \/ Arrives(r) \/ HandlerStep(r) \/ EngineStep(r) \/ Expire(r) \/ CallerCancels(r)
       \/ CancelSeen(r) \/ DropCancels(r) \/ Hangup(r) \/ Reset(r) \/ StreamDropped(r)
       \/ RowGoes(r) \/ OwnerMoves(r)
  \/ \E n \in Nodes : Crash(n)

(* A statement that has its connection ends once it is cut or has nobody   *)
(* to send to; how long one runs otherwise is not bounded.  Handlers are   *)
(* polled, timers fire, a dial ends, a reset arrives.  Nothing is assumed  *)
(* of the control plane, whose calls have no timeout, or of the pool.      *)
CutEnds(r) ==
  /\ call[r].st # "queued" /\ (call[r].cut \/ ~ call[r].heard)
  /\ \E out \in Outcomes : EngineEnds(r, out)

Fairness ==
  \A r \in Requests :
    /\ WF_vars(NodeStep(r)) /\ WF_vars(ProducerEnds(r)) /\ WF_vars(OrphanEnds(r))
    /\ WF_vars(CutEnds(r)) /\ WF_vars(Expire(r)) /\ WF_vars(CancelSeen(r)) /\ WF_vars(Reset(r))

Spec == Init /\ [][Next]_vars /\ Fairness

(***************************************************************************)
(* Properties.                                                             *)
(***************************************************************************)
(* Where in the trail the records made for the request itself are, not     *)
(* those for the writes inside a load_dataset.                             *)
Recorded(r, ok) ==
  { i \in DOMAIN trail[r] :
      trail[r][i].ok = ok /\ trail[r][i].op \in { ask[r].op, OnTheWire(ask[r].op) } }

(* Refused by the MCP layer, cut off from the owner in mid-hop, or broken  *)
(* after a forwarded read was recorded as established.                     *)
Unrecorded(r) ==
  \/ ask[r].surface = "mcp" /\ cause[r].env.kind = "Unauthenticated"
  \/ ask[r].surface = "mcp" /\ cause[r].env.kind = "InvalidValue" /\ "field" \in cause[r].env.facts
  \/ "detail" \in cause[r].env.facts /\ ask[r].op # "load_dataset"
  \/ Recorded(r, TRUE) # {}

(* The access trail and the callers agree (ops.rs audit, audit_err): an    *)
(* operation a caller is told succeeded has exactly one ok record, on the  *)
(* node that served it and on no other; one it is told failed has exactly  *)
(* one error record wherever it failed, a relayed error being nobody's     *)
(* second record.  The exceptions the code makes are named in Unrecorded.  *)
OneRecordPerAnswer ==
  \A r \in Requests : answer[r] # None /\ ask[r].op \notin { "list_datasets", "list_catalogs" } =>
    IF answer[r].ok
    THEN /\ \E i \in DOMAIN trail[r] : Recorded(r, TRUE) = { i } /\ trail[r][i].node = answer[r].by
         /\ Recorded(r, FALSE) = {}
    ELSE ~ Unrecorded(r) => \E i \in DOMAIN trail[r] : Recorded(r, FALSE) = { i }

(* What went wrong is what the caller hears (forward_client.rs             *)
(* status_to_error, error.rs with_traceparent): through every hop the      *)
(* kind, advice, page, facts and retry class are those of the failure      *)
(* where it arose, and the span named is the one of the node it arose on.  *)
(* A door gives no envelope, so its refusal names nothing to the caller    *)
(* that met it, and the span of the forwarding node to the caller of that. *)
CauseSurvives ==
  \A r \in Requests : answer[r] # None /\ ~ answer[r].ok =>
    LET door == cause[r].env = for_kind("Unauthenticated")
        span == IF door THEN cause[r].by ELSE cause[r].node
    IN \/ answer[r] = Unauthorized /\ door
       \/ answer[r].env = with_traceparent(with_trace_id(cause[r].env, r), span)

(* Ownership (ops.rs placement, route): however the row goes stale while   *)
(* the lookup travels back and the request is forwarded, a statement runs  *)
(* only on the node its pond's row names at that moment, if the row is     *)
(* still there: a drop may overtake the lookup, nothing else may.  It runs *)
(* as a verified caller wherever callers are verified, and a request whose *)
(* caller is told it succeeded ran once, a load_dataset once for the       *)
(* schema and each table.                                                  *)
OnceAndByTheOwner ==
  \A r \in Requests :
    /\ \A i \in DOMAIN ran[r] : /\ ran[r][i].owner \in { ran[r][i].node, None }
                                /\ ran[r][i].node \in conf.auth => ran[r][i].who = "verified"
    /\ Len(ran[r]) <= IF ask[r].op = "load_dataset" THEN Tables + 1 ELSE 1
    /\ answer[r] # None /\ answer[r].ok /\ ask[r].op \notin Registry =>
         Len(ran[r]) = IF ask[r].op = "load_dataset" THEN Tables + 1 ELSE 1

(* Who cut it (deadline.rs classify): a caller is told QueryTimeout only   *)
(* of a statement whose deadline passed, and QueryCancelled only of one    *)
(* cut by its own cancel or a drop of the pond before the deadline passed. *)
CutIsNamed ==
  \A r \in Requests : answer[r] # None /\ ~ answer[r].ok /\ answer[r] # Unauthorized =>
    /\ answer[r].env.kind = "QueryTimeout" => call[r].expired /\ call[r].first \in { "timer", "drop" }
    /\ answer[r].env.kind = "QueryCancelled" => ~ call[r].expired /\ call[r].first \in { "caller", "drop" }

Quiet(n) == \A r \in Requests : At(r, n) = {} /\ (call[r].node = n => call[r].st \in { "none", "closed", "dead" })

(* The in-flight registry and the gauge (ops.rs run_query_local,           *)
(* read_arrow_local) come back to zero on a quiet node: with no fault      *)
(* always, whatever was timed out, capped, forwarded or refused.           *)
BalancedUnlessFaulty ==
  faults = 0 => \A n \in Nodes : Quiet(n) => inflight[n] = {} /\ gauge[n] = 0

Bounded == Streamed \cup Registry \cup { "write_query", "load_dataset" }

(* Waiting for what no deadline covers: an answer of the control plane, or *)
(* a connection of the read pool.                                          *)
Held(r) ==
  \/ frames[r] # << >> /\ Top(r).at \in { "asking", "resolving", "loading" }
  \/ call[r].st = "queued"

(* Every operation with a deadline comes back to its caller, and the       *)
(* statement of a caller that left does not run on (deadline.rs arm and    *)
(* Drop): whoever holds the dial lock, wherever the handlers were dropped. *)
(* The two waits no deadline covers are the condition: a request stuck in  *)
(* one (ControlPlane::pond_info, Pond::checkout_read) may wait for ever.   *)
EveryCallSettles ==
  \A r \in Requests : []<> ~ Held(r) =>
    /\ (client[r] = "waiting" /\ ask[r].op \in Bounded) ~> (answer[r] # None \/ client[r] = "gone")
    /\ (client[r] = "gone" /\ call[r].op \in Streamed \cup { "write_query" } /\ Live(r)) ~> ~ Live(r)

(* What read_collected's comment says of its record (ops.rs:1390-1396):    *)
(* "nothing about the record depends on the client still being there".     *)
RecordOutlivesCaller ==
  \A r \in Requests :
    call[r].st = "closed" /\ call[r].op = "read_query" /\ call[r].out # "panic" /\ frames[r] = << >> =>
      \E i \in DOMAIN trail[r] : trail[r][i].op = "read_query"
=============================================================================
