-------------------------- MODULE QueryPathProofs --------------------------
(***************************************************************************)
(* Proofs about QueryPath for every number of nodes, requests, tables and  *)
(* faults, every registry row and every way of configuring verifiers.      *)
(*                                                                         *)
(* What the caller is told in the end depends on what the handlers carried *)
(* at every step before, so each property needs an invariant of requests   *)
(* under way.  ReqInv has one per concern: StackInv, the handlers and the  *)
(* order they wait in; CallInv and JoinInv, the engine call and the        *)
(* handler that waits for it; RanInv, the statements started so far, which *)
(* at a load_dataset are counted against the writes still to come;         *)
(* CauseInv, that a failure under way, once stamped, is its cause stamped  *)
(* where it arose; CutInv, that one that names a cut is true of a call     *)
(* that is closed, and so stays true; TrailInv, which records there are at *)
(* each place of the working handler.  They lean on each other and are     *)
(* inductive together.  LookupInv is about the gap between a lookup and    *)
(* the route it decides: the row may go in it, but gets no other owner.    *)
(*                                                                         *)
(* A step of one request leaves the others as they were (Same), so a step  *)
(* is judged by its own request (Kept); only a crash touches many.         *)
(*                                                                         *)
(* BooksInv, that the in-flight registry of a node holds the requests with *)
(* a statement open there and its gauge counts them, stands on top, and    *)
(* only as long as nothing fails.                                          *)
(***************************************************************************)
EXTENDS QueryPath, FiniteSetTheorems, SequenceTheorems, WellFoundedInduction, TLAPS

(* The operations without a deadline or an in-flight entry, and all of     *)
(* them.                                                                   *)
Bare == { "describe_pond", "explain_query", "catalog_describe", "catalog_pull", "get_lineage" }

Operations == Streamed \cup Registry \cup Bare \cup { "write_query", "load_dataset" }

(* Where a handler may be, and what it may have been told.                 *)
Places ==
  { "asking", "loading", "resolving", "routing", "dialling", "waiting", "relaying", "running",
    "collecting" }

Result0 == [ ok : BOOLEAN, by : Nodes \cup { None }, env : Envelope \cup { None } ]

(* A failure has an envelope.                                              *)
Results == { res \in Result0 : ~ res.ok => res.env \in Envelope }

(* A handler, an engine call and a request.                                *)
Frames ==
  [ node : Nodes, op : Operations, at : Places, who : { "claimed", "verified" },
    bearer : { None, "good" }, info : Rows \cup { None },
    to : Nodes \cup { None }, left : Int, res : Results \cup { None } ]

Whos == { "timer", "caller", "drop", "dropped" }

EngineCalls ==
  [ node : Nodes \cup { None }, op : Operations \cup { None },
    st : { "none", "queued", "running", "flowing", "ended", "closed", "dead" }, out : Outcomes \cup { None },
    cut : BOOLEAN, first : Whos \cup { None }, expired : BOOLEAN,
    timer : { "off", "armed", "spent" }, watched : BOOLEAN, heard : BOOLEAN, flowed : BOOLEAN ]

Requested ==
  [ surface : { "grpc", "mcp" }, op : Operations \cup { None }, token : { None, "good" },
    ms : Nat \cup { None }, cancel : BOOLEAN ]

(* A failure: where it arose, who first put it in an envelope, and which.  *)
Causes == [ node : Nodes, by : Nodes, env : Envelope ]

TypeOK ==
  /\ conf \in [ auth : SUBSET Nodes, clustered : BOOLEAN ]
  /\ row \in [ Requests -> Rows \cup { None } ]
  /\ up \subseteq Nodes
  /\ client \in [ Requests -> { "idle", "absent", "waiting", "gone" } ]
  /\ ask \in [ Requests -> Requested ]
  /\ frames \in [ Requests -> Seq(Frames) ]
  /\ call \in [ Requests -> EngineCalls ]
  /\ tail \in [ Requests -> Results \cup { None } ]
  /\ inflight \in [ Nodes -> SUBSET Requests ]
  /\ gauge \in [ Nodes -> Int ]
  /\ trail \in [ Requests ->
       Seq([ node : Nodes, op : Operations, who : { "claimed", "verified" }, ok : BOOLEAN ]) ]
  /\ answer \in [ Requests -> Results \cup { None, Unauthorized } ]
  /\ ran \in [ Requests ->
       Seq([ node : Nodes, who : { "claimed", "verified" }, owner : Nodes \cup { None } ]) ]
  /\ cause \in [ Requests -> Causes \cup { None } ]
  /\ faults \in Nat

Busy(r) == frames[r] # << >>

(* The load_dataset at the bottom of the stack.                            *)
Loads(r) == Busy(r) /\ frames[r][1].op = "load_dataset"

(* A request whose statements have a deadline.                             *)
Timed(r) == ask[r].op \in Streamed \cup { "write_query", "load_dataset" }

(* One handler: which operation it works for, who the caller is to it, and *)
(* what it knows where it is.                                              *)
FrameInv(r, i) ==
  LET f == frames[r][i]
  IN /\ f.node \in conf.auth => f.who = "verified"
     /\ IF ask[r].op = "load_dataset"
        THEN f.op = "write_query" \/ (f.op = "load_dataset" /\ i = 1)
        ELSE f.op \in { ask[r].op, OnTheWire(ask[r].op) }
     /\ f.op = "read_query" => i = 1
     /\ f.op \in Registry <=> f.at = "asking"
     /\ f.op = "load_dataset" => f.at \in { "loading", "waiting", "relaying" }
     /\ f.at = "loading" => f.op = "load_dataset"
     /\ f.at = "collecting" => f.op = "read_query"
     /\ f.at = "relaying" => f.res \in Results
     /\ f.op = "load_dataset" /\ f.at # "loading" => f.left \in 1 .. Tables + 1
     /\ f.at \in { "resolving", "routing", "running" } => f.to = None
     /\ f.at \in { "dialling", "waiting", "relaying" } /\ f.op # "load_dataset" => f.to \in Nodes

(* The handlers of a request: all but the working one wait, and a request  *)
(* that has not come, or is answered, has none.                            *)
StackInv(r) ==
  /\ \A i \in 1 .. Depth(r) - 1 : frames[r][i].at = "waiting"
  /\ Busy(r) => Top(r).at # "waiting"
  /\ \A i \in 1 .. Depth(r) : FrameInv(r, i)
  /\ Loads(r) /\ Depth(r) > 1 => frames[r][2].node = frames[r][1].node
  /\ Busy(r) => client[r] \in { "waiting", "gone" } /\ answer[r] = None
  /\ Busy(r) /\ client[r] = "waiting" => frames[r][1].op = ask[r].op
  /\ client[r] \in { "idle", "absent" } =>
       /\ ~ Busy(r) /\ answer[r] = None /\ cause[r] = None /\ trail[r] = << >> /\ ran[r] = << >>
       /\ call[r].st = "none" /\ tail[r] = None /\ ~ Timed(r)

(* Before its statement is started, and while it runs.                     *)
Early == { "asking", "loading", "resolving", "routing", "dialling" }
Serving == { "running", "collecting" }

(* The writes of a load_dataset that are done.                             *)
Sofar(r) == Tables + 1 - frames[r][1].left

Need(r) == IF ask[r].op = "load_dataset" THEN Tables + 1 ELSE 1

(* The statement of the working handler, or of the one it forwarded to,    *)
(* has been started.                                                       *)
Ran(r) == Top(r).at \in Serving \/ (Top(r).at = "relaying" /\ Top(r).res.ok)

(* The statements started so far.                                          *)
RanInv(r) ==
  /\ \A i \in DOMAIN ran[r] : /\ ran[r][i].owner \in { ran[r][i].node, None }
                              /\ ran[r][i].node \in conf.auth => ran[r][i].who = "verified"
  /\ Len(ran[r]) <= Need(r)
  /\ Busy(r) /\ Top(r).at \in Early => Len(ran[r]) < Need(r)
  /\ Busy(r) /\ ask[r].op # "load_dataset" /\ Ran(r) => Len(ran[r]) = 1
  /\ Loads(r) =>
       /\ Top(r).at = "loading" => ran[r] = << >>
       /\ Top(r).at \in { "resolving", "routing", "dialling" } => Len(ran[r]) = Sofar(r)
       /\ Ran(r) => Len(ran[r]) = Sofar(r) + 1
  /\ answer[r] # None /\ answer[r].ok /\ ask[r].op \notin Registry => Len(ran[r]) = Need(r)

Stamped(r, env, n) == with_traceparent(with_trace_id(env, r), n)

(* A failure of node n's own, and the node whose span names a failure: a   *)
(* door's refusal has the one that first put it in an envelope.            *)
Blamed(n, env) == [ node |-> n, by |-> n, env |-> env ]

Span(c) == IF c.env = for_kind("Unauthenticated") THEN c.by ELSE c.node

(* An envelope on node n that is, once stamped, the failure's.             *)
Traces(r, c, env, n) == c # None /\ Stamped(r, env, n) = Stamped(r, c.env, Span(c))

Rooted(r, env, n) == Traces(r, cause[r], env, n)

(* The failure under way, which a stream may meet after its statement was  *)
(* answered, and the one the caller read.                                  *)
CauseInv(r) ==
  /\ Busy(r) /\ Top(r).at \in Early => cause[r] = None
  /\ Busy(r) /\ Ran(r) => IF tail[r] # None /\ ~ tail[r].ok THEN Rooted(r, tail[r].env, call[r].node)
                          ELSE cause[r] = None
  /\ Busy(r) /\ Top(r).at = "relaying" /\ ~ Top(r).res.ok => Rooted(r, Top(r).res.env, Top(r).node)
  /\ answer[r] # None /\ ~ answer[r].ok =>
       /\ cause[r] # None
       /\ \/ answer[r] = Unauthorized /\ cause[r].env = for_kind("Unauthenticated")
          \/ answer[r].env = Stamped(r, cause[r].env, Span(cause[r]))

(* A failure that says who cut the statement says so of the last one.      *)
Named(r, res) ==
  /\ ~ res.ok /\ res.env.kind = "QueryTimeout" =>
       call[r].st = "closed" /\ call[r].expired /\ call[r].first \in { "timer", "drop" }
  /\ ~ res.ok /\ res.env.kind = "QueryCancelled" =>
       call[r].st = "closed" /\ ~ call[r].expired /\ call[r].first \in { "caller", "drop" }

(* The engine call, its token and its timer.                               *)
CallInv(r) ==
  LET c == call[r]
  IN /\ c.cut <=> c.first # None
     /\ c.timer = "armed" => ~ c.expired /\ c.first \in { None, "drop" }
     /\ c.expired => c.first \in { "timer", "drop" }
     /\ c.first = "timer" => c.expired
     /\ c.first = "dropped" /\ c.st \in { "queued", "running", "flowing", "ended" } =>
          ~ Busy(r) /\ c.op \notin Streamed
     /\ c.st \in { "ended", "closed" } /\ c.out = "Cancelled" => c.cut
     /\ c.st # "none" => c.node \in Nodes /\ c.op \in Operations /\ (Counted(c.op) <=> Timed(r))
     /\ c.st # "none" => c.op \notin Registry \cup { "load_dataset" }
     /\ c.st # "none" => IF ask[r].op = "load_dataset" THEN c.op = "write_query"
                         ELSE c.op \in { ask[r].op, OnTheWire(ask[r].op) }
     /\ c.st = "none" => c.node = None /\ c.op = None
     /\ c.st \in { "none", "queued", "running", "flowing" } => c.out = None
     /\ c.st \in { "ended", "closed" } => c.out \in Outcomes
     /\ ~ Timed(r) => ~ c.cut /\ c.timer = "off"
     /\ \A n \in Nodes : r \in inflight[n] => Timed(r)

(* The handler that waits for the call, and what the call left for it.     *)
JoinInv(r) ==
  LET c == call[r]
  IN /\ Busy(r) /\ Top(r).at = "running" =>
          c.node = Top(r).node /\ c.op = Top(r).op /\ c.st \notin { "none", "dead" }
     /\ Busy(r) /\ Top(r).at = "collecting" =>
          c.op \in Streamed /\ c.st # "none" /\ (Top(r).to = None => c.node = Top(r).node /\ c.st # "dead")
     /\ tail[r] # None => c.st = "closed" /\ c.op \in Streamed /\ (tail[r].ok => tail[r].by = c.node)
     /\ Busy(r) /\ Top(r).at \in Early => c.op \notin Streamed
     /\ c.st = "closed" /\ c.op \in Streamed => tail[r] # None

(* Every failure on its way tells the truth of who cut the statement.      *)
CutInv(r) ==
  /\ tail[r] # None => Named(r, tail[r])
  /\ Busy(r) /\ Top(r).at = "relaying" => Named(r, Top(r).res)
  /\ answer[r] # None /\ answer[r] # Unauthorized => Named(r, answer[r])

Silent(r) == Recorded(r, TRUE) = {} /\ Recorded(r, FALSE) = {}

OnlyOk(r, n) ==
  /\ \E i \in DOMAIN trail[r] : Recorded(r, TRUE) = { i } /\ trail[r][i].node = n
  /\ Recorded(r, FALSE) = {}

OnlyError(r) == \E i \in DOMAIN trail[r] : Recorded(r, FALSE) = { i }

Listing(r) == ask[r].op \in { "list_datasets", "list_catalogs" }

(* The records made for the request so far.                                *)
TrailInv(r) ==
  /\ Busy(r) /\ Top(r).at \in Early \cup { "running" } => Silent(r) \/ (ask[r].op = "load_dataset" /\ ~ Loads(r))
  /\ Loads(r) => Silent(r)
  /\ Busy(r) /\ Top(r).at = "collecting" =>
       IF Top(r).to = None THEN Silent(r) ELSE OnlyOk(r, call[r].node)
  /\ Busy(r) /\ Top(r).at = "relaying" /\ ask[r].op # "load_dataset" =>
       IF Top(r).res.ok THEN OnlyOk(r, Top(r).res.by) /\ Top(r).res.by = call[r].node
       ELSE OnlyError(r) \/ "detail" \in cause[r].env.facts \/ Recorded(r, TRUE) # {}
  /\ answer[r] # None /\ ~ Listing(r) =>
       IF answer[r].ok THEN OnlyOk(r, answer[r].by) ELSE ~ Unrecorded(r) => OnlyError(r)

(* The copy a lookup brought back: the row it was made from may be gone,   *)
(* and does not name another owner.                                        *)
LookupInv(r) ==
  Busy(r) /\ Top(r).at = "routing" =>
    Top(r).info # None /\ (row[r] = None \/ row[r].id = Top(r).info.id)

(* What holds of each request.                                             *)
ReqInv(r) ==
  /\ StackInv(r) /\ CallInv(r) /\ JoinInv(r) /\ RanInv(r)
  /\ CauseInv(r) /\ CutInv(r) /\ TrailInv(r)

(* Whose statement is on the node's books: on a cluster without faults, of *)
(* the requests that have a call with a deadline there.                    *)
OnBooks(r, n) ==
  call[r].node = n /\ Counted(call[r].op) /\ call[r].st \in { "queued", "running", "flowing", "ended" }

WaitedFor(r) ==
  /\ call[r].st \in { "queued", "running", "flowing", "ended" } /\ call[r].op \notin Streamed =>
       Busy(r) /\ Top(r).at = "running"
  /\ call[r].st # "dead" /\ (call[r].st = "ended" => call[r].out # "panic")
  /\ Busy(r) /\ Top(r).at \in Early => call[r].st \in { "none", "closed" }

BooksInv ==
  faults = 0 =>
    /\ \A r \in Requests : client[r] # "gone" /\ WaitedFor(r)
    /\ \A n \in Nodes : /\ IsFiniteSet(inflight[n]) /\ gauge[n] = Cardinality(inflight[n])
                        /\ \A r \in Requests : r \in inflight[n] <=> OnBooks(r, n)
-----------------------------------------------------------------------------
(* Envelopes. *)

\* The kinds that say who cut a statement.
CutKinds == { "QueryTimeout", "QueryCancelled" }

\* Every constructor makes an envelope of the kind it was asked for.
LEMMA NewIsEnvelope ==
  ASSUME NEW kind \in ErrorKind, NEW advice \in Advice, NEW see \in Pages, NEW facts \in SUBSET Facts
  PROVE  /\ new(kind, advice, see, facts) \in Envelope
         /\ new(kind, advice, see, facts).kind = kind
         /\ new(kind, advice, see, facts).facts = facts
<1>1. audience(kind) \in Audience
  BY DEF audience, Audience
<1>2. retryable(kind) \in Retryable
  BY DEF retryable, Retryable
<1> QED
  BY <1>1, <1>2 DEF new, Envelope

\* An error made for a kind alone is one, of that kind.
LEMMA ForKindIsEnvelope ==
  ASSUME NEW kind \in ErrorKind
  PROVE  for_kind(kind) \in Envelope /\ for_kind(kind).kind = kind /\ for_kind(kind).facts = {}
<1>1. default_see(kind) \in Pages
  BY DEF default_see, Pages
<1> QED
  BY <1>1, NewIsEnvelope DEF for_kind, default_suggest, Advice

\* So is one rendered with what the operation knows.
LEMMA RenderedIsEnvelope ==
  ASSUME NEW kind \in ErrorKind, NEW facts \in SUBSET Facts
  PROVE  /\ rendered(kind, facts) \in Envelope
         /\ rendered(kind, facts).kind = kind /\ rendered(kind, facts).facts = facts
<1>1. default_see(kind) \in Pages
  BY DEF default_see, Pages
<1> QED
  BY <1>1, NewIsEnvelope DEF rendered, default_suggest, Advice

\* And one with a page of its own.
LEMMA RenderedWithIsEnvelope ==
  ASSUME NEW kind \in ErrorKind, NEW facts \in SUBSET Facts, NEW see \in Pages
  PROVE  /\ rendered_with(kind, facts, see) \in Envelope
         /\ rendered_with(kind, facts, see).kind = kind
         /\ rendered_with(kind, facts, see).facts = facts
  BY NewIsEnvelope DEF rendered_with, Advice

\* What the engine's error becomes.
LEMMA FromEngine ==
  ASSUME NEW e
  PROVE  /\ from_engine(e) \in Envelope
         /\ e # "Timeout" => from_engine(e).kind # "QueryTimeout"
         /\ e # "Cancelled" => from_engine(e).kind # "QueryCancelled"
<1>1. \A k \in ErrorKind : for_kind(k) \in Envelope /\ for_kind(k).kind = k
  BY ForKindIsEnvelope
<1>2. /\ rendered_with("InvalidValue", {}, "dialect") \in Envelope
      /\ rendered_with("InvalidValue", {}, "dialect").kind = "InvalidValue"
  BY RenderedWithIsEnvelope DEF ErrorKind, Facts, Pages
<1>3. /\ rendered_with("UnsupportedFeature", { "feature" }, "dialect") \in Envelope
      /\ rendered_with("UnsupportedFeature", { "feature" }, "dialect").kind = "UnsupportedFeature"
  BY RenderedWithIsEnvelope DEF ErrorKind, Facts, Pages
<1>4. /\ rendered("CapabilityUnavailable", { "capability" }) \in Envelope
      /\ rendered("CapabilityUnavailable", { "capability" }).kind = "CapabilityUnavailable"
  BY RenderedIsEnvelope DEF ErrorKind, Facts
<1>5. /\ rendered_with("UnsupportedFeature", {}, "dialect") \in Envelope
      /\ rendered_with("UnsupportedFeature", {}, "dialect").kind = "UnsupportedFeature"
  BY RenderedWithIsEnvelope DEF ErrorKind, Facts, Pages
<1> QED
  BY <1>1, <1>2, <1>3, <1>4, <1>5 DEF from_engine, ErrorKind

\* The errors a node makes itself.
LEMMA OwnErrors ==
  /\ { pond_not_found, pond_unavailable, name_conflict, result_cap_exceeded_unknown,
       query_timeout, unreachable_owner } \subseteq Envelope
  /\ pond_not_found.kind \notin CutKinds /\ pond_unavailable.kind \notin CutKinds
  /\ name_conflict.kind \notin CutKinds /\ result_cap_exceeded_unknown.kind \notin CutKinds
  /\ unreachable_owner.kind \notin CutKinds /\ query_timeout.kind = "QueryTimeout"
  /\ "detail" \in unreachable_owner.facts
<1>1. /\ pond_not_found \in Envelope /\ pond_not_found.kind = "PondNotFound"
      /\ pond_unavailable \in Envelope /\ pond_unavailable.kind = "PondUnavailable"
      /\ name_conflict \in Envelope /\ name_conflict.kind = "NameConflict"
  BY RenderedIsEnvelope DEF ErrorKind, Facts, pond_not_found, pond_unavailable, name_conflict
<1>2. /\ result_cap_exceeded_unknown \in Envelope
      /\ result_cap_exceeded_unknown.kind = "ResultCapExceeded"
  BY RenderedIsEnvelope DEF ErrorKind, Facts, result_cap_exceeded_unknown
<1>3. query_timeout \in Envelope /\ query_timeout.kind = "QueryTimeout"
  BY RenderedWithIsEnvelope DEF ErrorKind, Facts, Pages, query_timeout
<1>4. /\ unreachable_owner \in Envelope /\ unreachable_owner.kind = "PondUnavailable"
      /\ "detail" \in unreachable_owner.facts
  BY RenderedIsEnvelope DEF ErrorKind, Facts, unreachable_owner
<1> QED
  BY <1>1, <1>2, <1>3, <1>4 DEF CutKinds

\* The control plane's errors, as the node that asked takes them.
LEMMA ControlErrors ==
  ASSUME NEW e, NEW r \in Requests
  PROVE  /\ status_err(to_status_traced(e, r)) \in Envelope
         /\ status_err(to_status_traced(e, r)).kind \notin CutKinds
<1>1. envelope(e) \in Envelope /\ envelope(e).kind \notin CutKinds
  <2>1. \A k \in ErrorKind : for_kind(k) \in Envelope /\ for_kind(k).kind = k
    BY ForKindIsEnvelope
  <2>2. \A k \in ErrorKind, s \in SUBSET Facts : rendered(k, s) \in Envelope /\ rendered(k, s).kind = k
    BY RenderedIsEnvelope
  <2>3. \A k \in ErrorKind, s \in SUBSET Facts, p \in Pages :
           rendered_with(k, s, p) \in Envelope /\ rendered_with(k, s, p).kind = k
    BY RenderedWithIsEnvelope
  <2>4. /\ rendered_with("InvalidValue", { "node_id" }, "guidance") \in Envelope
        /\ rendered_with("InvalidValue", { "node_id" }, "guidance").kind = "InvalidValue"
        /\ rendered_with("DatasetNotFound", { "catalog" }, "guidance") \in Envelope
        /\ rendered_with("DatasetNotFound", { "catalog" }, "guidance").kind = "DatasetNotFound"
        /\ rendered_with("InvalidValue", { "pond", "node_id" }, "guidance") \in Envelope
        /\ rendered_with("InvalidValue", { "pond", "node_id" }, "guidance").kind = "InvalidValue"
    BY <2>3 DEF ErrorKind, Facts, Pages
  <2>5. LET c == rendered_with("PondUnavailable", { "name", "node_endpoint", "cause", "compensated" },
                               "PondUnavailable")
        IN  c \in Envelope /\ c.kind = "PondUnavailable"
    BY <2>3 DEF ErrorKind, Facts, Pages
  <2>6. /\ rendered("DatasetNotFound", { "dataset" }) \in Envelope
        /\ rendered("DatasetNotFound", { "dataset" }).kind = "DatasetNotFound"
    BY <2>2 DEF ErrorKind, Facts
  <2> QED
    BY <2>1, <2>4, <2>5, <2>6, OwnErrors DEF envelope, CutKinds, ErrorKind
<1>2. with_trace_id(envelope(e), r) \in Envelope
      /\ with_trace_id(envelope(e), r).kind = envelope(e).kind
  BY <1>1 DEF with_trace_id, Envelope
<1>3. with_trace_id(envelope(e), r) # None
  BY <1>2, PathAssumption
<1> QED
  BY <1>1, <1>2, <1>3 DEF status_err, to_status_traced, Status

\* Stamping an envelope keeps what it says, and a stamp is not stamped over.
LEMMA StampedOnce ==
  ASSUME NEW r \in Requests, NEW n \in Nodes, NEW env \in Envelope
  PROVE  /\ Stamped(r, env, n) \in Envelope
         /\ Stamped(r, env, n).kind = env.kind /\ Stamped(r, env, n).facts = env.facts
         /\ \A m \in Nodes : Stamped(r, Stamped(r, env, n), m) = Stamped(r, env, n)
<1> DEFINE t == [ env EXCEPT !.trace = r ]
<1>1. t \in Envelope /\ t.kind = env.kind /\ t.facts = env.facts /\ t.trace = r /\ t.span = env.span
  BY DEF Envelope
<1> DEFINE s == Stamped(r, env, n)
<1>2. s = IF t.span = None THEN [ t EXCEPT !.span = n ] ELSE t
  BY DEF Stamped, with_trace_id, with_traceparent
<1> HIDE DEF t, s
<1>3. /\ s \in Envelope /\ s.kind = env.kind /\ s.facts = env.facts /\ s.trace = r
      /\ s.span # None
  BY <1>1, <1>2, PathAssumption DEF Envelope
<1>4. [ s EXCEPT !.trace = r ] = s
  BY <1>3 DEF Envelope
<1>5. \A m \in Nodes : Stamped(r, s, m) = s
  BY <1>3, <1>4 DEF Stamped, with_trace_id, with_traceparent
<1> QED
  BY <1>3, <1>5 DEF s

\* Between nodes and at the last edge a failure is stamped and otherwise kept.
LEMMA StatusCarries ==
  ASSUME NEW r \in Requests, NEW n \in Nodes, NEW res \in Results
  PROVE  /\ Relayed(r, res, n) = IF res.ok THEN res ELSE Err(Stamped(r, res.env, n))
         /\ err_envelope(r, res, n) = IF res.ok THEN res ELSE Err(Stamped(r, res.env, n))
<1>1. CASE res.ok
  BY <1>1 DEF Relayed, err_envelope
<1>2. CASE ~ res.ok
  <2>1. res.env \in Envelope
    BY <1>2 DEF Results
  <2>2. to_status(res.env, r, n).details = Stamped(r, res.env, n)
    BY DEF to_status, Status, Stamped
  <2>3. Stamped(r, res.env, n) # None
    BY <2>1, StampedOnce, PathAssumption
  <2>4. status_to_error(to_status(res.env, r, n)) = Stamped(r, res.env, n)
    BY <2>2, <2>3 DEF status_to_error
  <2> QED
    BY <1>2, <2>2, <2>4 DEF Relayed, err_envelope
<1> QED
  BY <1>1, <1>2 DEF Results, Result0

\* A transport's status without an envelope.
LEMMA BareStatuses ==
  /\ status_to_error(Status("Unavailable", None)) = unreachable_owner
  /\ status_to_error(unauthenticated) = for_kind("Unauthenticated")
  BY DEF status_to_error, Status, unauthenticated

\* A failure that is blamed on a node is named by its span.
LEMMA BlamedIs ==
  ASSUME NEW n \in Nodes, NEW env \in Envelope
  PROVE  /\ Blamed(n, env) \in Causes /\ Blamed(n, env) # None
         /\ Blamed(n, env).env = env /\ Span(Blamed(n, env)) = n
<1>1. Blamed(n, env) \in Causes /\ Blamed(n, env).env = env /\ Span(Blamed(n, env)) = n
  BY DEF Blamed, Causes, Span
<1> QED
  BY <1>1, PathAssumption DEF Causes

\* The results that are made.
LEMMA MadeResults ==
  /\ \A n \in Nodes : Ok(n) \in Results /\ Ok(n).ok = TRUE /\ Ok(n).by = n
  /\ \A env \in Envelope : Err(env) \in Results /\ Err(env).ok = FALSE /\ Err(env).env = env
  BY DEF Ok, Err, Results, Result0

-----------------------------------------------------------------------------
(* Stacks of handlers. *)

\* The working handler is the last of a stack.
LEMMA StackParts ==
  ASSUME NEW s \in Seq(Frames)
  PROVE  /\ Len(s) \in Nat /\ (\A i \in 1 .. Len(s) : s[i] \in Frames) /\ Last(s) = s[Len(s)]
         /\ s # << >> <=> Len(s) > 0
         /\ s # << >> => Len(s) \in 1 .. Len(s) /\ 1 \in 1 .. Len(s) /\ Last(s) \in Frames
<1>1. Len(s) \in Nat /\ (\A i \in 1 .. Len(s) : s[i] \in Frames) /\ (s # << >> <=> Len(s) > 0)
  OBVIOUS
<1> QED
  BY <1>1 DEF Last

\* The top is changed, the rest is not.
LEMMA TopChanged ==
  ASSUME NEW s \in Seq(Frames), s # << >>, NEW g \in Frames
  PROVE  LET t == [ s EXCEPT ![Len(s)] = g ]
         IN  /\ t \in Seq(Frames) /\ Len(t) = Len(s) /\ Last(t) = g
             /\ \A i \in 1 .. Len(s) - 1 : t[i] = s[i]
<1> DEFINE t == [ s EXCEPT ![Len(s)] = g ]
<1>1. Len(s) \in Nat /\ Len(s) > 0
  BY StackParts
<1>2. /\ t \in Seq(Frames) /\ Len(t) = Len(s)
      /\ \A j \in 1 .. Len(s) : t[j] = IF j = Len(s) THEN g ELSE s[j]
  BY <1>1, ExceptSeq
<1> HIDE DEF t
<1>3. t[Len(s)] = g /\ \A i \in 1 .. Len(s) - 1 : t[i] = s[i]
  BY <1>1, <1>2
<1>4. Last(t) = g
  BY <1>2, <1>3 DEF Last
<1> QED
  BY <1>2, <1>3, <1>4 DEF t

\* The top is gone, and the handler below it is changed.
LEMMA TopGone ==
  ASSUME NEW s \in Seq(Frames), Len(s) > 1, NEW g \in Frames
  PROVE  LET t == [ SubSeq(s, 1, Len(s) - 1) EXCEPT ![Len(s) - 1] = g ]
         IN  /\ t \in Seq(Frames) /\ Len(t) = Len(s) - 1 /\ Last(t) = g /\ t # << >>
             /\ t[Len(s) - 1] = g
             /\ \A i \in 1 .. Len(s) - 2 : t[i] = s[i]
<1> DEFINE u == SubSeq(s, 1, Len(s) - 1)
           t == [ u EXCEPT ![Len(s) - 1] = g ]
<1>1. Len(s) \in Nat /\ \A i \in 1 .. Len(s) : s[i] \in Frames
  BY StackParts
<1>2. /\ u \in Seq(Frames) /\ Len(u) = Len(s) - 1
      /\ \A i \in 1 .. Len(s) - 1 : u[i] = s[i]
  BY <1>1, SubSeqProperties
<1> HIDE DEF u
<1>4. /\ t \in Seq(Frames) /\ Len(t) = Len(s) - 1
      /\ \A j \in 1 .. Len(u) : t[j] = IF j = Len(s) - 1 THEN g ELSE u[j]
  BY <1>1, <1>2, ExceptSeq
<1> HIDE DEF t
<1>3. t[Len(s) - 1] = g /\ \A i \in 1 .. Len(s) - 2 : t[i] = s[i]
  BY <1>1, <1>2, <1>4
<1>5. Last(t) = g /\ t # << >>
  BY <1>1, <1>3, <1>4, StackParts
<1> QED
  BY <1>3, <1>4, <1>5 DEF t, u

\* A handler is put on top of one that is changed.
LEMMA TopAdded ==
  ASSUME NEW s \in Seq(Frames), s # << >>, NEW g \in Frames, NEW h \in Frames
  PROVE  LET t == Append([ s EXCEPT ![Len(s)] = g ], h)
         IN  /\ t \in Seq(Frames) /\ Len(t) = Len(s) + 1 /\ Last(t) = h /\ t # << >>
             /\ t[Len(s)] = g /\ t[Len(s) + 1] = h
             /\ \A i \in 1 .. Len(s) - 1 : t[i] = s[i]
<1> DEFINE u == [ s EXCEPT ![Len(s)] = g ]
           t == Append(u, h)
<1>1. /\ u \in Seq(Frames) /\ Len(u) = Len(s) /\ Last(u) = g
      /\ \A i \in 1 .. Len(s) - 1 : u[i] = s[i]
  BY TopChanged
<1>2. Len(s) \in Nat /\ Len(s) > 0 /\ u[Len(s)] = g
  BY <1>1, StackParts
<1> HIDE DEF u
<1>3. t \in Seq(Frames) /\ Len(t) = Len(s) + 1
  BY <1>1, <1>2
<1>4. t[Len(s) + 1] = h /\ t[Len(s)] = g /\ \A i \in 1 .. Len(s) - 1 : t[i] = s[i]
  BY <1>1, <1>2
<1> HIDE DEF t
<1>5. Last(t) = h /\ t # << >>
  BY <1>2, <1>3, <1>4, StackParts
<1> QED
  BY <1>3, <1>4, <1>5 DEF t, u

\* The bottom is gone.
LEMMA BottomGone ==
  ASSUME NEW s \in Seq(Frames), NEW k \in 1 .. Len(s)
  PROVE  LET t == SubSeq(s, k + 1, Len(s))
         IN  /\ t \in Seq(Frames) /\ Len(t) = Len(s) - k
             /\ \A i \in 1 .. Len(s) - k : t[i] = s[i + k]
             /\ t # << >> => k < Len(s) /\ Last(t) = Last(s)
<1> DEFINE t == SubSeq(s, k + 1, Len(s))
<1>1. Len(s) \in Nat /\ (\A i \in 1 .. Len(s) : s[i] \in Frames) /\ Last(s) = s[Len(s)]
  BY StackParts
<1>2. \A i \in k + 1 .. Len(s) : s[i] \in Frames
  BY <1>1
<1>3. /\ t \in Seq(Frames) /\ Len(t) = Len(s) - k
      /\ \A i \in 1 .. Len(s) - k : t[i] = s[i + k]
  <2>1. k \in Int /\ k + 1 \in Int /\ Len(s) \in Int
    BY <1>1
  <2>2. /\ t \in Seq(Frames) /\ Len(t) = IF k + 1 <= Len(s) THEN Len(s) - (k + 1) + 1 ELSE 0
        /\ \A i \in 1 .. Len(s) - (k + 1) + 1 : t[i] = s[(k + 1) + i - 1]
    BY <1>2, <2>1, SubSeqProperties
  <2> HIDE DEF t
  <2>3. Len(t) = Len(s) - k
    BY <1>1, <2>2
  <2> QED
    BY <1>1, <2>2, <2>3
<1> HIDE DEF t
<1>4. t # << >> => k < Len(s) /\ Last(t) = Last(s)
  BY <1>1, <1>2, <1>3, StackParts
<1> QED
  BY <1>2, <1>3, <1>4 DEF t
-----------------------------------------------------------------------------
(* Dropped futures: which handlers go. *)

\* A set of naturals that is not empty has a least element.
LEMMA LeastOf ==
  ASSUME NEW T \in SUBSET Nat, T # {}
  PROVE  \E m \in T : \A x \in T : m <= x
<1>1. PICK m \in T : \A y \in T : << y, m >> \notin OpToRel(<, Nat)
  BY WFMin, NatLessThanWellFounded
<1>2. \A y \in T : ~ (y < m)
  BY <1>1 DEF OpToRel
<1> QED
  BY <1>2

\* The handlers at the bottom of the stack that are on one node.
LEMMA SameNodeIs ==
  ASSUME NEW s \in Seq(Frames), s # << >>
  PROVE  /\ SameNode(s) \in 1 .. Len(s)
         /\ \A i \in 1 .. SameNode(s) : s[i].node = s[1].node
         /\ SameNode(s) < Len(s) => s[SameNode(s) + 1].node # s[1].node
<1> DEFINE Good(k) == /\ \A i \in 1 .. k : s[i].node = s[1].node
                      /\ k < Len(s) => s[k + 1].node # s[1].node
<1>1. Len(s) \in Nat /\ Len(s) > 0
  BY StackParts
<1>2. \E k \in 1 .. Len(s) : Good(k)
  <2> DEFINE T == { i \in 1 .. Len(s) : s[i].node # s[1].node }
  <2>1. CASE T = {}
    <3>1. \A i \in 1 .. Len(s) : s[i].node = s[1].node
      BY <2>1
    <3>2. Good(Len(s)) /\ Len(s) \in 1 .. Len(s)
      BY <1>1, <3>1
    <3> QED
      BY <3>2
  <2>2. CASE T # {}
    <3>0. T \in SUBSET Nat
      BY <1>1
    <3> HIDE DEF T
    <3>1. PICK m \in T : \A x \in T : m <= x
      BY <2>2, <3>0, LeastOf
    <3> USE DEF T
    <3>2. m \in 1 .. Len(s) /\ s[m].node # s[1].node
      BY <3>1
    <3>3. m - 1 \in 1 .. Len(s) /\ (m - 1) + 1 = m
      BY <1>1, <3>2
    <3>4. \A i \in 1 .. m - 1 : s[i].node = s[1].node
      BY <1>1, <3>1, <3>2
    <3> QED
      BY <1>1, <3>2, <3>3, <3>4
  <2> QED
    BY <2>1, <2>2
<1>3. SameNode(s) \in 1 .. Len(s) /\ Good(SameNode(s))
  BY <1>2 DEF SameNode
<1> QED
  BY <1>3

\* A handler whose hop was lost, and its stack.
CutOff(f) == [ f EXCEPT !.at = "relaying", !.res = Err(unreachable_owner) ]

UpTo(s, k) == [ SubSeq(s, 1, k) EXCEPT ![k] = CutOff(s[k]) ]


\* The handler that learns of the crash of the node it waited on.
LEMMA LostHopIs ==
  ASSUME NEW s \in Seq(Frames), s # << >>, NEW n \in Nodes, s[1].node # n, s[Len(s)].node = n
  PROVE  \E k \in 1 .. Len(s) - 1 :
           s[k].node # n /\ LostHop(s, n) = UpTo(s, k)
<1> DEFINE Good(i) == s[i].node # n /\ s[i + 1].node = n
           k == CHOOSE i \in 1 .. Len(s) : s[i].node # n /\ s[i + 1].node = n
<1>1. Len(s) \in Nat /\ Len(s) > 0 /\ \A i \in 1 .. Len(s) : s[i] \in Frames
  BY StackParts
<1>2. \E i \in 1 .. Len(s) : Good(i)
  <2> DEFINE T == { i \in 1 .. Len(s) : s[i].node = n }
  <2>1. PICK m \in T : \A x \in T : m <= x
    <3>1. T \in SUBSET Nat /\ Len(s) \in T
      BY <1>1
    <3> HIDE DEF T
    <3> QED
      BY <3>1, LeastOf
  <2>2. m \in 1 .. Len(s) /\ s[m].node = n /\ m # 1
    BY <2>1
  <2>3. m - 1 \in 1 .. Len(s) /\ (m - 1) + 1 = m /\ m - 1 \notin T
    BY <1>1, <2>1, <2>2
  <2> QED
    BY <2>2, <2>3
<1>3. k \in 1 .. Len(s) /\ s[k].node # n
  BY <1>2
<1> HIDE DEF k
<1>4. k \in 1 .. Len(s) - 1
  BY <1>1, <1>3
<1>5. LostHop(s, n) = [ SubSeq(s, 1, k) EXCEPT ![k].at = "relaying", ![k].res = Err(unreachable_owner) ]
  BY BareStatuses DEF LostHop, k
<1> DEFINE u == SubSeq(s, 1, k)
<1>6. u \in Seq(Frames) /\ Len(u) = k /\ u[k] = s[k]
  <2>1. k \in Nat /\ k > 0 /\ \A i \in 1 .. k : s[i] \in Frames
    BY <1>1, <1>4
  <2>2. /\ u \in Seq(Frames) /\ Len(u) = IF 1 <= k THEN k - 1 + 1 ELSE 0
        /\ \A i \in 1 .. k - 1 + 1 : u[i] = s[1 + i - 1]
    BY <2>1, SubSeqProperties
  <2> HIDE DEF u
  <2> QED
    BY <2>1, <2>2
<1> HIDE DEF u
<1>7. [ u EXCEPT ![k].at = "relaying", ![k].res = Err(unreachable_owner) ]
        = [ u EXCEPT ![k] = [ s[k] EXCEPT !.at = "relaying", !.res = Err(unreachable_owner) ] ]
  BY <1>1, <1>4, <1>6
<1>8. LostHop(s, n) = UpTo(s, k)
  BY <1>5, <1>7 DEF u, UpTo, CutOff
<1> QED
  BY <1>3, <1>4, <1>8
-----------------------------------------------------------------------------
(* The requests a step is not about. *)

Same(q) ==
  /\ client'[q] = client[q] /\ ask'[q] = ask[q] /\ frames'[q] = frames[q] /\ call'[q] = call[q]
  /\ tail'[q] = tail[q] /\ trail'[q] = trail[q] /\ answer'[q] = answer[q] /\ ran'[q] = ran[q]
  /\ cause'[q] = cause[q] /\ conf' = conf
  /\ \A n \in Nodes : q \in inflight'[n] <=> q \in inflight[n]

\* They keep what holds of them.
LEMMA SameKeeps ==
  ASSUME NEW q \in Requests, Same(q), ReqInv(q)
  PROVE  ReqInv(q)'
<1>1. StackInv(q)'
  BY DEF Same, ReqInv, StackInv, FrameInv, Busy, Loads, Top, Depth, OnTheWire, Timed
<1>2. CallInv(q)' /\ JoinInv(q)'
  BY DEF Same, ReqInv, CallInv, JoinInv, Busy, Top, Timed, Counted
<1>3. RanInv(q)'
  BY DEF Same, ReqInv, RanInv, Busy, Top, Loads, Need, Sofar, Ran
<1>4. CauseInv(q)' /\ CutInv(q)'
  BY DEF Same, ReqInv, CauseInv, CutInv, Busy, Top, Named, Ran, Rooted, Traces, Stamped, Span
<1>5. TrailInv(q)'
  <2>1. \A ok \in BOOLEAN : Recorded(q, ok)' = Recorded(q, ok)
    BY DEF Same, Recorded
  <2> QED
    BY <2>1, ZenonT(60) DEF Same, ReqInv, TrailInv, Busy, Top, Loads, Silent, OnlyOk, OnlyError, Listing, Unrecorded
<1> QED
  BY <1>1, <1>2, <1>3, <1>4, <1>5 DEF ReqInv
-----------------------------------------------------------------------------
(* A handler returns. *)

\* What is the same about a handler whose place, or result, changes.
Still(f, g) == g.node = f.node /\ g.op = f.op /\ g.who = f.who /\ g.to = f.to /\ g.left = f.left

\* `back' is `res', as node m has it from node n.
Carries(r, res, n, back, m) ==
  /\ back \in Results /\ back.ok = res.ok /\ (res.ok => back = res)
  /\ ~ res.ok => /\ back.env.kind = res.env.kind
                 /\ Stamped(r, back.env, m) = Stamped(r, res.env, n)

\* The caller is told `res' by node n.
Told(r, res, n) ==
  /\ answer'[r] \in Results /\ answer'[r].ok = res.ok /\ (res.ok => answer'[r] = res)
  /\ ~ res.ok => answer'[r].env = Stamped(r, res.env, n) /\ answer'[r].env.kind = res.env.kind

\* What a return leaves.
Passed(r, res) ==
  LET d == Depth(r)
      n == Top(r).node
      p == frames[r][d - 1]
      t == frames'[r][d - 1]
  IN /\ cause'[r] = IF ~ res.ok /\ cause[r] = None THEN Blamed(n, res.env) ELSE cause[r]
     /\ d = 1 => /\ frames'[r] = << >>
                 /\ IF client[r] = "waiting" THEN Told(r, res, n) ELSE answer'[r] = answer[r]
     /\ d > 1 => /\ answer'[r] = answer[r]
                 /\ frames'[r] # << >> /\ Len(frames'[r]) = d - 1 /\ Last(frames'[r]) = t
                 /\ \A i \in 1 .. d - 2 : frames'[r][i] = frames[r][i]
                 /\ Still(p, t) /\ t.at = "relaying" /\ Carries(r, res, n, t.res, p.node)

\* What a return does to the stack, the answer and the cause.
LEMMA ReturnDoes ==
  ASSUME TypeOK, NEW r \in Requests, Busy(r), NEW res \in Results, Return(r, res)
  PROVE  /\ frames' \in [ Requests -> Seq(Frames) ]
         /\ answer' \in [ Requests -> Results \cup { None, Unauthorized } ]
         /\ cause' \in [ Requests -> Causes \cup { None } ]
         /\ \A q \in Requests \ { r } :
              frames'[q] = frames[q] /\ answer'[q] = answer[q] /\ cause'[q] = cause[q]
         /\ Passed(r, res)
<1> DEFINE s == frames[r]
           d == Len(s)
           n == Top(r).node
           back == IF d > 1 /\ s[d - 1].node # n THEN Relayed(r, res, n) ELSE res
           final == err_envelope(r, res, n)
           blame == Blamed(n, res.env)
<1>1. s \in Seq(Frames) /\ s # << >> /\ client[r] \in { "idle", "absent", "waiting", "gone" }
  BY DEF TypeOK, Busy
<1>2. /\ d \in Nat /\ d > 0 /\ Last(s) \in Frames /\ Last(s) = s[d]
      /\ \A i \in 1 .. d : s[i] \in Frames
  BY <1>1, StackParts
<1>3. n \in Nodes
  BY <1>2 DEF Top, Frames
<1>4. ~ res.ok => res.env \in Envelope /\ Stamped(r, res.env, n) \in Envelope
                  /\ Stamped(r, res.env, n).kind = res.env.kind
                  /\ \A m \in Nodes : Stamped(r, Stamped(r, res.env, n), m) = Stamped(r, res.env, n)
  BY <1>3, StampedOnce DEF Results
<1>5. /\ final \in Results /\ final.ok = res.ok /\ (res.ok => final = res)
      /\ ~ res.ok => final.env = Stamped(r, res.env, n) /\ final.env.kind = res.env.kind
  <2>1. res.ok \in BOOLEAN
    BY DEF Results, Result0
  <2>2. final = IF res.ok THEN res ELSE Err(Stamped(r, res.env, n))
    BY <1>3, StatusCarries
  <2>3. CASE res.ok
    BY <2>2, <2>3
  <2>4. CASE ~ res.ok
    BY <1>4, <2>1, <2>2, <2>4, MadeResults
  <2> QED
    BY <2>3, <2>4
<1>6. d > 1 => Carries(r, res, n, back, s[d - 1].node)
  <2> SUFFICES ASSUME d > 1 PROVE Carries(r, res, n, back, s[d - 1].node)
    OBVIOUS
  <2>1. s[d - 1].node \in Nodes
    BY <1>2 DEF Frames
  <2>2. CASE s[d - 1].node = n
    BY <2>2 DEF Carries
  <2>3. CASE s[d - 1].node # n
    <3>1. back = final
      BY <1>3, <2>3, StatusCarries
    <3> HIDE DEF back, final
    <3> QED
      BY <1>4, <1>5, <2>1, <3>1 DEF Carries
  <2> QED
    BY <2>2, <2>3
<1> DEFINE u == SubSeq(s, 1, d - 1)
           g == [ s[d - 1] EXCEPT !.at = "relaying", !.res = back ]
           t == IF d = 1 THEN << >> ELSE [ u EXCEPT ![d - 1].at = "relaying", ![d - 1].res = back ]
<1>7. /\ frames' = [ frames EXCEPT ![r] = t ]
      /\ answer' = [ answer EXCEPT ![r] = IF d = 1 /\ client[r] = "waiting" THEN final ELSE @ ]
      /\ cause' = [ cause EXCEPT ![r] = IF ~ res.ok /\ @ = None THEN blame ELSE @ ]
  BY DEF Return, Blame, BlameVia, Blamed, Depth
<1>8. d > 1 => /\ g \in Frames /\ t = [ u EXCEPT ![d - 1] = g ]
               /\ Still(s[d - 1], g) /\ g.at = "relaying" /\ g.res = back
  <2> SUFFICES ASSUME d > 1
               PROVE  /\ g \in Frames /\ t = [ u EXCEPT ![d - 1] = g ]
                      /\ Still(s[d - 1], g) /\ g.at = "relaying" /\ g.res = back
    OBVIOUS
  <2>1. s[d - 1] \in Frames /\ back \in Results
    BY <1>2, <1>6 DEF Carries
  <2> HIDE DEF back
  <2>2. g \in Frames /\ Still(s[d - 1], g) /\ g.at = "relaying" /\ g.res = back
    BY <2>1 DEF Frames, Places, Still
  <2>3. \A i \in 1 .. d - 1 : s[i] \in Frames
    BY <1>2
  <2>4. /\ u \in Seq(Frames) /\ Len(u) = IF 1 <= d - 1 THEN d - 1 - 1 + 1 ELSE 0
        /\ \A i \in 1 .. d - 1 - 1 + 1 : u[i] = s[1 + i - 1]
    BY <1>2, <2>3, SubSeqProperties
  <2> HIDE DEF u
  <2>5. u[d - 1] = s[d - 1] /\ d - 1 \in 1 .. Len(u)
    BY <1>2, <2>4
  <2>6. d # 1 /\ t = [ u EXCEPT ![d - 1].at = "relaying", ![d - 1].res = back ]
    BY <1>2
  <2> DEFINE k == d - 1
  <2>7. k \in 1 .. Len(u) /\ u[k] = s[k] /\ u \in Seq(Frames) /\ s[k] \in Frames
    BY <2>1, <2>4, <2>5
  <2> HIDE DEF k
  <2>8. [ u EXCEPT ![k].at = "relaying", ![k].res = back ]
          = [ u EXCEPT ![k] = [ s[k] EXCEPT !.at = "relaying", !.res = back ] ]
    BY <2>7
  <2> QED
    BY <2>2, <2>6, <2>8 DEF k
<1>9. d > 1 => /\ t \in Seq(Frames) /\ Len(t) = d - 1 /\ Last(t) = g /\ t # << >> /\ t[d - 1] = g
               /\ \A i \in 1 .. d - 2 : t[i] = s[i]
  <2> SUFFICES ASSUME d > 1
               PROVE  /\ t \in Seq(Frames) /\ Len(t) = d - 1 /\ Last(t) = g /\ t # << >>
                      /\ t[d - 1] = g /\ \A i \in 1 .. d - 2 : t[i] = s[i]
    OBVIOUS
  <2>1. g \in Frames /\ t = [ SubSeq(s, 1, Len(s) - 1) EXCEPT ![Len(s) - 1] = g ]
    BY <1>8
  <2> HIDE DEF g, t
  <2> QED
    BY <1>1, <2>1, TopGone
<1>10. t \in Seq(Frames) /\ (d = 1 => t = << >>)
  <2>1. CASE d = 1
    BY <2>1
  <2>2. CASE d > 1
    BY <1>2, <1>9, <2>2
  <2>3. d = 1 \/ d > 1
    <3>1. d \in Nat /\ d > 0
      BY <1>2
    <3> HIDE DEF d
    <3> QED
      BY <3>1
  <2> HIDE DEF t, d
  <2> QED
    BY <2>1, <2>2, <2>3
<1> HIDE DEF t, final, back, g, u
<1>11. /\ frames' \in [ Requests -> Seq(Frames) ] /\ frames'[r] = t
       /\ answer' \in [ Requests -> Results \cup { None, Unauthorized } ]
       /\ answer'[r] = IF d = 1 /\ client[r] = "waiting" THEN final ELSE answer[r]
       /\ \A q \in Requests \ { r } : frames'[q] = frames[q] /\ answer'[q] = answer[q]
  BY <1>5, <1>7, <1>10 DEF TypeOK
<1>12. /\ cause' \in [ Requests -> Causes \cup { None } ]
       /\ cause'[r] = IF ~ res.ok /\ cause[r] = None THEN blame ELSE cause[r]
       /\ \A q \in Requests \ { r } : cause'[q] = cause[q]
  <2>1. ~ res.ok => blame \in Causes
    BY <1>3, <1>4 DEF Blamed, Causes
  <2> HIDE DEF blame
  <2> QED
    BY <1>7, <2>1 DEF TypeOK
<1>13. d = 1 => IF client[r] = "waiting" THEN Told(r, res, n) ELSE answer'[r] = answer[r]
  BY <1>5, <1>11 DEF Told
<1>14. d > 1 => /\ answer'[r] = answer[r]
                /\ frames'[r] # << >> /\ Len(frames'[r]) = d - 1 /\ Last(frames'[r]) = frames'[r][d - 1]
                /\ \A i \in 1 .. d - 2 : frames'[r][i] = s[i]
                /\ Still(s[d - 1], frames'[r][d - 1]) /\ frames'[r][d - 1].at = "relaying"
                /\ Carries(r, res, n, frames'[r][d - 1].res, s[d - 1].node)
  <2> SUFFICES ASSUME d > 1
               PROVE  /\ answer'[r] = answer[r]
                      /\ t # << >> /\ Len(t) = d - 1 /\ Last(t) = t[d - 1]
                      /\ \A i \in 1 .. d - 2 : t[i] = s[i]
                      /\ Still(s[d - 1], t[d - 1]) /\ t[d - 1].at = "relaying"
                      /\ Carries(r, res, n, t[d - 1].res, s[d - 1].node)
    BY <1>11
  <2>1. t[d - 1] = g /\ t # << >> /\ Len(t) = d - 1 /\ Last(t) = g
    BY <1>9
  <2>2. \A i \in 1 .. d - 2 : t[i] = s[i]
    BY <1>9
  <2>3. answer'[r] = answer[r]
    BY <1>2, <1>11
  <2>4. Still(s[d - 1], g) /\ g.at = "relaying" /\ g.res = back
    BY <1>8
  <2>5. Carries(r, res, n, back, s[d - 1].node)
    BY <1>6
  <2> QED
    BY <2>1, <2>2, <2>3, <2>4, <2>5
<1> QED
  BY <1>10, <1>11, <1>12, <1>13, <1>14 DEF Passed, Depth
-----------------------------------------------------------------------------
(* A return keeps the invariants, given a result that is sound. *)

\* The working handler of a request.
LEMMA TopIs ==
  ASSUME TypeOK, NEW r \in Requests, Busy(r), StackInv(r)
  PROVE  /\ Depth(r) \in Nat /\ Depth(r) > 0 /\ Depth(r) \in 1 .. Depth(r) /\ 1 \in 1 .. Depth(r)
         /\ Top(r) = frames[r][Depth(r)] /\ Top(r) \in Frames /\ frames[r][1] \in Frames
         /\ FrameInv(r, Depth(r)) /\ FrameInv(r, 1)
<1>1. frames[r] \in Seq(Frames) /\ frames[r] # << >>
  BY DEF TypeOK, Busy
<1>2. /\ Len(frames[r]) \in Nat /\ Len(frames[r]) > 0 /\ Len(frames[r]) \in 1 .. Len(frames[r])
      /\ 1 \in 1 .. Len(frames[r]) /\ Last(frames[r]) = frames[r][Len(frames[r])]
      /\ Last(frames[r]) \in Frames /\ frames[r][1] \in Frames
  BY <1>1, StackParts
<1> QED
  BY <1>2 DEF StackInv, Depth, Top

\* A handler that asks the control plane is alone.
LEMMA AskingAlone ==
  ASSUME TypeOK, NEW r \in Requests, Busy(r), StackInv(r), Top(r).at = "asking"
  PROVE  Depth(r) = 1 /\ ask[r].op = Top(r).op /\ ask[r].op \in Registry
<1>1. ask[r].op = Top(r).op /\ ask[r].op \in Registry
  BY TopIs DEF FrameInv, Registry, OnTheWire
<1>2. ASSUME Depth(r) > 1 PROVE FALSE
  <2>1. frames[r][1].at = "waiting" /\ FrameInv(r, 1)
    BY <1>2, TopIs DEF StackInv
  <2>2. frames[r][1].op \in Registry
    BY <1>1, <2>1 DEF FrameInv, OnTheWire, Registry
  <2> QED
    BY <2>1, <2>2 DEF FrameInv
<1> QED
  BY <1>1, <1>2, TopIs

\* A handler that collects a read, and one that loads a dataset, is the first.
LEMMA FirstOnly ==
  ASSUME TypeOK, NEW r \in Requests, Busy(r), StackInv(r)
  PROVE  /\ Top(r).op = "read_query" => Depth(r) = 1 /\ ask[r].op = "read_query"
         /\ Top(r).at = "collecting" => Top(r).op = "read_query"
         /\ Top(r).op = "load_dataset" => Depth(r) = 1 /\ ask[r].op = "load_dataset" /\ Loads(r)
         /\ Loads(r) => ask[r].op = "load_dataset"
         /\ Loads(r) /\ Top(r).op # "load_dataset" => Depth(r) > 1
  BY TopIs DEF FrameInv, OnTheWire, Loads

\* The handler below takes over, or the caller is answered.
LEMMA ReturnKeepsStack ==
  ASSUME TypeOK, NEW r \in Requests, Busy(r), StackInv(r), NEW res \in Results, Passed(r, res),
         frames'[r] \in Seq(Frames), conf' = conf, client'[r] = client[r], ask'[r] = ask[r]
  PROVE  /\ StackInv(r)'
         /\ Busy(r)' <=> Depth(r) > 1
         /\ Busy(r)' => Top(r)'.at = "relaying"
         /\ Loads(r)' <=> Loads(r) /\ Depth(r) > 1
         /\ Loads(r)' => frames'[r][1].left = frames[r][1].left
         /\ client[r] \in { "waiting", "gone" }
<1> DEFINE d == Depth(r)
<1>1. d \in Nat /\ d > 0 /\ client[r] \in { "waiting", "gone" } /\ answer[r] = None
  BY TopIs DEF StackInv
<1>2. CASE d = 1
  <2>1. frames'[r] = << >> /\ Len(frames'[r]) = 0
    BY <1>2 DEF Passed
  <2> QED
    BY <1>1, <1>2, <2>1 DEF StackInv, Busy, Loads, Depth
<1>3. CASE d > 1
  <2> DEFINE p == frames[r][d - 1]
             t == frames'[r][d - 1]
  <2>1. /\ frames'[r] # << >> /\ Len(frames'[r]) = d - 1 /\ Last(frames'[r]) = t
        /\ \A i \in 1 .. d - 2 : frames'[r][i] = frames[r][i]
        /\ Still(p, t) /\ t.at = "relaying" /\ t.res \in Results /\ answer'[r] = None
    BY <1>1, <1>3 DEF Passed, Carries
  <2>2. d - 1 \in 1 .. d - 1 /\ p.at = "waiting" /\ FrameInv(r, d - 1)
    BY <1>1, <1>3 DEF StackInv
  <2>3. ASSUME NEW i, i = d - 1 PROVE FrameInv(r, i)'
    BY <2>1, <2>2, <2>3 DEF FrameInv, Still, OnTheWire
  <2>4. \A i \in 1 .. d - 2 : FrameInv(r, i)' /\ frames'[r][i].at = "waiting"
    <3> SUFFICES ASSUME NEW i \in 1 .. d - 2 PROVE FrameInv(r, i)' /\ frames'[r][i].at = "waiting"
      OBVIOUS
    <3>1. FrameInv(r, i) /\ frames[r][i].at = "waiting" /\ frames'[r][i] = frames[r][i]
      BY <1>1, <2>1 DEF StackInv
    <3> QED
      BY <3>1 DEF FrameInv, OnTheWire
  <2>5. \A i \in 1 .. d - 1 : i = d - 1 \/ i \in 1 .. d - 2
    BY <1>1, <1>3
  <2>6. \A i \in 1 .. d - 1 : FrameInv(r, i)'
    BY <2>3, <2>4, <2>5
  <2>7. Still(frames[r][1], frames'[r][1])
    <3>1. CASE d = 2
      BY <2>1, <3>1
    <3>2. CASE d > 2
      <4>1. frames'[r][1] = frames[r][1]
        BY <1>1, <2>1, <3>2
      <4> QED
        BY <4>1 DEF Still
    <3> QED
      BY <1>1, <1>3, <3>1, <3>2
  <2>8. d - 1 > 1 => Still(frames[r][2], frames'[r][2])
    <3>1. CASE d = 3
      BY <2>1, <3>1
    <3>2. CASE d > 3
      <4>1. frames'[r][2] = frames[r][2]
        BY <1>1, <2>1, <3>2
      <4> QED
        BY <4>1 DEF Still
    <3> QED
      BY <1>1, <3>1, <3>2
  <2>9. Busy(r)' /\ Top(r)' = t /\ Depth(r)' = d - 1
    BY <2>1 DEF Busy, Top, Depth
  <2>10. /\ Loads(r)' <=> Loads(r)
         /\ frames'[r][1].left = frames[r][1].left
    BY <2>7, <2>9 DEF Loads, Still
  <2>11. Loads(r)' /\ Depth(r)' > 1 => frames'[r][2].node = frames'[r][1].node
    BY <1>1, <1>3, <2>7, <2>8, <2>9, <2>10 DEF StackInv, Still
  <2>12. client'[r] = "waiting" => frames'[r][1].op = ask'[r].op
    BY <2>7 DEF StackInv, Still
  <2>13. \A i \in 1 .. Depth(r)' - 1 : frames'[r][i].at = "waiting"
    <3>1. Depth(r)' - 1 = d - 2
      BY <1>1, <2>9
    <3> QED
      BY <2>4, <3>1
  <2> QED
    BY <1>1, <1>3, <2>1, <2>6, <2>9, <2>10, <2>11, <2>12, <2>13 DEF StackInv
<1> QED
  BY <1>1, <1>2, <1>3

\* A result says the statement ran only if it did.
RanSound(r, res) ==
  res.ok => \/ Top(r).at = "asking"
            \/ Ran(r) /\ (Loads(r) /\ Depth(r) = 1 => frames[r][1].left = 1)

\* No statement is started or forgotten by a return.
LEMMA ReturnKeepsRan ==
  ASSUME TypeOK, NEW r \in Requests, Busy(r), StackInv(r), RanInv(r),
         NEW res \in Results, Passed(r, res), RanSound(r, res),
         frames'[r] \in Seq(Frames), conf' = conf, client'[r] = client[r], ask'[r] = ask[r],
         ran'[r] = ran[r]
  PROVE  RanInv(r)'
<1>1. /\ Busy(r)' <=> Depth(r) > 1
      /\ Busy(r)' => Top(r)'.at = "relaying"
      /\ Loads(r)' <=> Loads(r) /\ Depth(r) > 1
      /\ Loads(r)' => frames'[r][1].left = frames[r][1].left
  BY ReturnKeepsStack
<1>2. Depth(r) > 1 => Top(r)'.res.ok = res.ok /\ answer'[r] = None
  BY DEF Passed, Carries, Top, Depth, StackInv
<1>3. Depth(r) \in Nat /\ Depth(r) > 0 /\ answer[r] = None
  BY TopIs DEF StackInv
<1>4. Need(r)' = Need(r)
  BY DEF Need
<1>5. Depth(r) > 1 /\ res.ok => Ran(r)
  BY AskingAlone DEF RanSound
<1>6. CASE Depth(r) > 1
  <2>1. Ran(r)' => Ran(r)
    BY <1>1, <1>2, <1>5, <1>6 DEF Ran, Serving
  <2>2. Loads(r)' => Sofar(r)' = Sofar(r)
    BY <1>1 DEF Sofar
  <2> QED
    BY <1>1, <1>2, <1>4, <1>6, <2>1, <2>2 DEF RanInv, Early
<1>7. CASE Depth(r) = 1
  <2>1. ~ Busy(r)' /\ ~ Loads(r)'
    BY <1>1, <1>7
  <2>2. ASSUME answer'[r] # None, answer'[r].ok, ask[r].op \notin Registry
        PROVE  Len(ran[r]) = Need(r)
    <3>1. client[r] = "waiting" /\ res.ok
      BY <1>3, <1>7, <2>2 DEF Passed, Told
    <3>2. Ran(r) /\ (Loads(r) => frames[r][1].left = 1)
      BY <1>7, <2>2, <3>1, AskingAlone DEF RanSound
    <3>3. CASE ask[r].op # "load_dataset"
      BY <3>2, <3>3 DEF RanInv, Need
    <3>4. CASE ask[r].op = "load_dataset"
      <4>1. Loads(r)
        BY <3>1, <3>4 DEF Loads, StackInv
      <4>2. Len(ran[r]) = Sofar(r) + 1 /\ Sofar(r) = Tables + 1 - 1
        BY <3>2, <4>1 DEF RanInv, Sofar
      <4> QED
        BY <3>4, <4>2, PathAssumption DEF Need
    <3> QED
      BY <3>3, <3>4
  <2> QED
    BY <1>4, <2>1, <2>2 DEF RanInv
<1> QED
  BY <1>3, <1>6, <1>7

\* A failure is passed on, or it is the first.
PassedOn(r, res) == ~ res.ok /\ cause[r] # None => Rooted(r, res.env, Top(r).node)

\* A failure is passed on as it arose.
LEMMA ReturnKeepsCause ==
  ASSUME TypeOK, NEW r \in Requests, Busy(r), StackInv(r), CauseInv(r),
         NEW res \in Results, Passed(r, res), RanSound(r, res), PassedOn(r, res),
         frames'[r] \in Seq(Frames), conf' = conf, client'[r] = client[r], ask'[r] = ask[r],
         tail'[r] = tail[r], call'[r].node = call[r].node
  PROVE  CauseInv(r)'
<1> DEFINE n == Top(r).node
<1>1. /\ Busy(r)' <=> Depth(r) > 1
      /\ Busy(r)' => Top(r)'.at = "relaying"
  BY ReturnKeepsStack
<1>2. Depth(r) \in Nat /\ Depth(r) > 0 /\ answer[r] = None /\ n \in Nodes
  BY TopIs DEF StackInv, Frames
<1> DEFINE c == cause'[r]
<1>4. ~ res.ok => Traces(r, c, res.env, n)
  <2> SUFFICES ASSUME ~ res.ok
               PROVE  Traces(r, c, res.env, n)
    OBVIOUS
  <2>1. CASE cause[r] = None
    <3>1. cause'[r] = Blamed(n, res.env)
      BY <2>1 DEF Passed
    <3>2. res.env \in Envelope
      BY DEF Results
    <3> QED
      BY <1>2, <3>1, <3>2, BlamedIs DEF Traces
  <2>2. CASE cause[r] # None
    <3>1. cause'[r] = cause[r] /\ Rooted(r, res.env, n)
      BY <2>2 DEF Passed, PassedOn
    <3> QED
      BY <3>1 DEF Rooted
  <2> QED
    BY <2>1, <2>2
<1>5. Depth(r) > 1 => /\ Top(r)'.res.ok = res.ok /\ answer'[r] = None
                      /\ ~ res.ok => Stamped(r, Top(r)'.res.env, Top(r)'.node) = Stamped(r, res.env, n)
  BY <1>2 DEF Passed, Carries, Top, Depth, Still
<1>6. Depth(r) = 1 /\ answer'[r] # None => /\ answer'[r].ok = res.ok
                                           /\ ~ res.ok => answer'[r].env = Stamped(r, res.env, n)
  BY <1>2 DEF Passed, Told
<1>7. CASE Depth(r) > 1
  <2>1. res.ok => Ran(r) /\ cause'[r] = cause[r]
    BY <1>7, AskingAlone DEF RanSound, Passed
  <2>2. res.ok => IF tail'[r] # None /\ ~ tail'[r].ok THEN Traces(r, c, tail'[r].env, call'[r].node)
                  ELSE c = None
    BY <2>1 DEF CauseInv, Rooted
  <2>3. ~ res.ok => Traces(r, c, Top(r)'.res.env, Top(r)'.node)
    BY <1>4, <1>5, <1>7 DEF Traces
  <2>4. ~ (Top(r)'.at \in Early) /\ (Ran(r)' => res.ok)
    BY <1>1, <1>5, <1>7 DEF Early, Ran, Serving
  <2>5. /\ Rooted(r, Top(r).res.env, Top(r).node)' <=> Traces(r, c, Top(r)'.res.env, Top(r)'.node)
        /\ Rooted(r, tail[r].env, call[r].node)' <=> Traces(r, c, tail'[r].env, call'[r].node)
    BY DEF Rooted, Traces, Stamped, Span
  <2> QED
    BY <1>1, <1>5, <1>7, <2>2, <2>3, <2>4, <2>5 DEF CauseInv
<1>8. CASE Depth(r) = 1
  <2>1. (Stamped(r, cause[r].env, Span(cause[r])))' = Stamped(r, cause'[r].env, Span(cause'[r]))
    BY DEF Stamped, Span
  <2> QED
    BY <1>1, <1>4, <1>6, <1>8, <2>1 DEF CauseInv, Traces
<1> QED
  BY <1>2, <1>7, <1>8

\* And with it who cut the statement.
LEMMA ReturnKeepsCut ==
  ASSUME TypeOK, NEW r \in Requests, Busy(r), StackInv(r),
         NEW res \in Results, Passed(r, res), Named(r, res)', tail'[r] # None => Named(r, tail[r])',
         frames'[r] \in Seq(Frames), conf' = conf, client'[r] = client[r], ask'[r] = ask[r]
  PROVE  CutInv(r)'
<1>1. /\ Busy(r)' <=> Depth(r) > 1
      /\ Busy(r)' => Top(r)'.at = "relaying"
  BY ReturnKeepsStack
<1>2. Depth(r) \in Nat /\ Depth(r) > 0 /\ answer[r] = None
  BY TopIs DEF StackInv
<1>3. CASE Depth(r) > 1
  <2>1. /\ answer'[r] = None /\ Top(r)'.res.ok = res.ok
        /\ ~ res.ok => Top(r)'.res.env.kind = res.env.kind
    BY <1>2, <1>3 DEF Passed, Carries, Top, Depth
  <2>2. Named(r, Top(r).res)'
    BY <2>1 DEF Named
  <2> QED
    BY <2>1, <2>2 DEF CutInv
<1>4. CASE Depth(r) = 1
  <2>1. answer'[r] # None => /\ answer'[r].ok = res.ok
                             /\ ~ res.ok => answer'[r].env.kind = res.env.kind
    BY <1>2, <1>4 DEF Passed, Told
  <2>2. answer'[r] # None => Named(r, answer[r])'
    BY <2>1 DEF Named
  <2> QED
    BY <1>1, <1>4, <2>2 DEF CutInv
<1> QED
  BY <1>2, <1>3, <1>4

\* The trail says what the result says.
TrailSound(r, res) ==
  /\ Loads(r)' => Silent(r)'
  /\ ask[r].op = "load_dataset" /\ Depth(r) = 1 /\ Loads(r) =>
       IF res.ok THEN OnlyOk(r, res.by)' ELSE OnlyError(r)'
  /\ ask[r].op # "load_dataset" /\ ~ Listing(r) =>
       IF res.ok THEN OnlyOk(r, res.by)' /\ (Depth(r) > 1 => res.by = call'[r].node)
       ELSE OnlyError(r)' \/ "detail" \in cause'[r].env.facts \/ Recorded(r, TRUE)' # {}

\* The answer has its record.
LEMMA ReturnKeepsTrail ==
  ASSUME TypeOK, NEW r \in Requests, Busy(r), StackInv(r),
         NEW res \in Results, Passed(r, res), TrailSound(r, res), Depth(r) > 1 => ~ Listing(r),
         frames'[r] \in Seq(Frames), conf' = conf, client'[r] = client[r], ask'[r] = ask[r]
  PROVE  TrailInv(r)'
<1>1. /\ Busy(r)' <=> Depth(r) > 1
      /\ Busy(r)' => Top(r)'.at = "relaying"
  BY ReturnKeepsStack
<1>2. Depth(r) \in Nat /\ Depth(r) > 0 /\ answer[r] = None
  BY TopIs DEF StackInv
<1>3. CASE Depth(r) > 1
  <2>1. answer'[r] = None /\ Top(r)'.res.ok = res.ok /\ (res.ok => Top(r)'.res = res)
    BY <1>2, <1>3 DEF Passed, Carries, Top, Depth
  <2>2. ask[r].op # "load_dataset" /\ Top(r)'.res.ok =>
          OnlyOk(r, Top(r).res.by)' /\ Top(r)'.res.by = call'[r].node
    BY <1>3, <2>1 DEF TrailSound, OnlyOk
  <2>3. ask[r].op # "load_dataset" /\ ~ Top(r)'.res.ok =>
          OnlyError(r)' \/ "detail" \in cause'[r].env.facts \/ Recorded(r, TRUE)' # {}
    BY <1>3, <2>1 DEF TrailSound
  <2> QED
    BY <1>1, <1>3, <2>1, <2>2, <2>3 DEF TrailInv, TrailSound, Early
<1>4. CASE Depth(r) = 1
  <2>1. ASSUME answer'[r] # None, ~ Listing(r)'
        PROVE  IF answer'[r].ok THEN OnlyOk(r, answer[r].by)' ELSE ~ Unrecorded(r)' => OnlyError(r)'
    <3>1. client[r] = "waiting" /\ answer'[r].ok = res.ok /\ (res.ok => answer'[r] = res)
      BY <1>2, <1>4, <2>1 DEF Passed, Told
    <3>2. ~ Listing(r)
      BY <2>1 DEF Listing
    <3>3. CASE ask[r].op = "load_dataset"
      <4>1. Loads(r)
        BY <3>1, <3>3 DEF StackInv, Loads
      <4> QED
        BY <1>4, <3>1, <3>3, <4>1 DEF TrailSound, OnlyOk
    <3>4. CASE ask[r].op # "load_dataset"
      <4>1. res.ok => OnlyOk(r, answer[r].by)'
        BY <3>1, <3>2, <3>4 DEF TrailSound, OnlyOk
      <4>2. ~ res.ok /\ ~ Unrecorded(r)' => OnlyError(r)'
        BY <3>2, <3>4 DEF TrailSound, Unrecorded
      <4> QED
        BY <3>1, <4>1, <4>2
    <3> QED
      BY <3>3, <3>4
  <2>2. ~ Busy(r)' /\ ~ Loads(r)'
    BY <1>1, <1>4 DEF Loads
  <2> QED
    BY <2>1, <2>2 DEF TrailInv
<1> QED
  BY <1>2, <1>3, <1>4
-----------------------------------------------------------------------------
(* Records. *)

Records == [ node : Nodes, op : Operations, who : { "claimed", "verified" }, ok : BOOLEAN ]

\* Whether a record of `op' is one of the request itself.
OfRequest(r, op) == op \in { ask[r].op, OnTheWire(ask[r].op) }

\* The trail of r alone may have changed.
Trailed(r) ==
  trail' \in [ Requests -> Seq(Records) ] /\ \A q \in Requests \ { r } : trail'[q] = trail[q]

\* A record is the first of its request, or none of its request.
LEMMA AuditDoes ==
  ASSUME TypeOK, NEW r \in Requests, NEW n \in Nodes, NEW op \in Operations,
         NEW who \in { "claimed", "verified" }, NEW ok \in BOOLEAN, audit(r, n, op, who, ok),
         ask'[r].op = ask[r].op
  PROVE  /\ Trailed(r)
         /\ Silent(r) /\ OfRequest(r, op) => IF ok THEN OnlyOk(r, n)' ELSE OnlyError(r)'
         /\ Silent(r) /\ ~ OfRequest(r, op) => Silent(r)'
<1> DEFINE s == trail[r]
           t == trail'[r]
           l == Len(s) + 1
           rec == Record(n, op, who, ok)
<1>1. trail \in [ Requests -> Seq(Records) ]
  BY DEF TypeOK, Records
<1>2. rec \in Records /\ rec.node = n /\ rec.op = op /\ rec.ok = ok
  BY DEF Record, Records
<1>3. Trailed(r) /\ t = Append(s, rec)
  <2>1. Append(s, rec) \in Seq(Records)
    BY <1>1, <1>2
  <2> HIDE DEF rec
  <2> QED
    BY <1>1, <2>1 DEF audit, Trailed, rec
<1> HIDE DEF rec
<1>4. /\ s \in Seq(Records) /\ l \in DOMAIN t /\ l \notin DOMAIN s /\ t[l] = rec
      /\ DOMAIN t = DOMAIN s \cup { l } /\ \A i \in DOMAIN s : t[i] = s[i]
  BY <1>1, <1>2, <1>3, AppendProperties
<1> HIDE DEF t, l
<1>5. \A b \in BOOLEAN : Recorded(r, b)' = { i \in DOMAIN t : t[i].ok = b /\ OfRequest(r, t[i].op) }
  BY DEF Recorded, OfRequest, OnTheWire, t
<1>6. \A b \in BOOLEAN : Recorded(r, b) = { i \in DOMAIN s : s[i].ok = b /\ OfRequest(r, s[i].op) }
  BY DEF Recorded, OfRequest, OnTheWire
<1>7. Silent(r) => \A i \in DOMAIN s : ~ OfRequest(r, s[i].op)
  <2> SUFFICES ASSUME Silent(r), NEW i \in DOMAIN s PROVE ~ OfRequest(r, s[i].op)
    OBVIOUS
  <2>1. s[i].ok \in BOOLEAN
    <3>1. s[i] \in Records
      BY <1>4, LenProperties, ElementOfSeq
    <3> QED
      BY <3>1 DEF Records
  <2>2. i \notin Recorded(r, TRUE) /\ i \notin Recorded(r, FALSE)
    BY DEF Silent
  <2> QED
    BY <1>6, <2>1, <2>2
<1>8. ASSUME Silent(r), OfRequest(r, op) PROVE IF ok THEN OnlyOk(r, n)' ELSE OnlyError(r)'
  <2>1. Recorded(r, ok)' = { l } /\ \A b \in BOOLEAN : b # ok => Recorded(r, b)' = {}
    BY <1>2, <1>4, <1>5, <1>7, <1>8
  <2>2. t[l].node = n
    BY <1>2, <1>4
  <2> QED
    BY <1>4, <2>1, <2>2 DEF OnlyOk, OnlyError, t
<1>9. ASSUME Silent(r), ~ OfRequest(r, op) PROVE Silent(r)'
  <2>1. \A b \in BOOLEAN : Recorded(r, b)' = {}
    BY <1>2, <1>4, <1>5, <1>7, <1>9
  <2> QED
    BY <2>1 DEF Silent
<1> QED
  BY <1>3, <1>8, <1>9

\* Without a record the trail says what it said.
LEMMA NoAudit ==
  ASSUME TypeOK, NEW r \in Requests, trail'[r] = trail[r], ask'[r].op = ask[r].op
  PROVE  /\ \A b \in BOOLEAN : Recorded(r, b)' = Recorded(r, b)
         /\ Silent(r) => Silent(r)' 
         /\ OnlyError(r) => OnlyError(r)'
         /\ \A n : OnlyOk(r, n) => OnlyOk(r, n)'
<1>1. \A b \in BOOLEAN : Recorded(r, b)' = Recorded(r, b)
  BY DEF Recorded, OnTheWire
<1> QED
  BY <1>1 DEF Silent, OnlyError, OnlyOk

\* A handler that records its result as it returns it.
LEMMA AuditedSound ==
  ASSUME TypeOK, NEW r \in Requests, Busy(r), StackInv(r), NEW res \in Results, Passed(r, res),
         audit(r, Top(r).node, Top(r).op, Top(r).who, res.ok),
         Silent(r) \/ (ask[r].op = "load_dataset" /\ ~ Loads(r)),
         res.ok => res.by = Top(r).node /\ (Depth(r) > 1 => call'[r].node = Top(r).node),
         frames'[r] \in Seq(Frames), conf' = conf, client'[r] = client[r], ask'[r] = ask[r]
  PROVE  Trailed(r) /\ TrailSound(r, res)
<1>1. Top(r) \in Frames /\ FrameInv(r, Depth(r)) /\ Top(r) = frames[r][Depth(r)] /\ Depth(r) \in Nat
  BY TopIs
<1>2. Top(r).node \in Nodes /\ Top(r).op \in Operations /\ Top(r).who \in { "claimed", "verified" }
  BY <1>1 DEF Frames
<1>3. res.ok \in BOOLEAN
  BY DEF Results, Result0
<1>4. PICK n \in Nodes : n = Top(r).node
  BY <1>2
<1>5. /\ Trailed(r)
      /\ Silent(r) /\ OfRequest(r, Top(r).op) => IF res.ok THEN OnlyOk(r, n)' ELSE OnlyError(r)'
      /\ Silent(r) /\ ~ OfRequest(r, Top(r).op) => Silent(r)'
  BY <1>2, <1>3, <1>4, AuditDoes
<1>6. Loads(r)' => Silent(r)'
  <2> SUFFICES ASSUME Loads(r)' PROVE Silent(r)'
    OBVIOUS
  <2>1. Loads(r) /\ Depth(r) > 1
    BY ReturnKeepsStack
  <2>2. ask[r].op = "load_dataset" /\ Top(r).op = "write_query"
    BY <1>1, <2>1, FirstOnly DEF FrameInv
  <2>3. ~ OfRequest(r, Top(r).op)
    BY <2>2 DEF OfRequest, OnTheWire
  <2> QED
    BY <1>5, <2>1, <2>3
<1>7. ask[r].op = "load_dataset" /\ Depth(r) = 1 /\ Loads(r) =>
        IF res.ok THEN OnlyOk(r, res.by)' ELSE OnlyError(r)'
  <2> SUFFICES ASSUME ask[r].op = "load_dataset", Depth(r) = 1, Loads(r)
               PROVE  IF res.ok THEN OnlyOk(r, res.by)' ELSE OnlyError(r)'
    OBVIOUS
  <2>1. OfRequest(r, Top(r).op) /\ Silent(r)
    BY <1>1 DEF OfRequest, Loads
  <2>2. res.ok => res.by = n
    BY <1>4
  <2> QED
    BY <1>5, <2>1, <2>2
<1>8. ask[r].op # "load_dataset" /\ ~ Listing(r) =>
        IF res.ok THEN OnlyOk(r, res.by)' /\ (Depth(r) > 1 => res.by = call'[r].node) ELSE OnlyError(r)'
  <2> SUFFICES ASSUME ask[r].op # "load_dataset"
               PROVE  IF res.ok THEN OnlyOk(r, res.by)' /\ (Depth(r) > 1 => res.by = call'[r].node)
                      ELSE OnlyError(r)'
    OBVIOUS
  <2>1. OfRequest(r, Top(r).op) /\ Silent(r)
    BY <1>1 DEF OfRequest, FrameInv
  <2>2. res.ok => res.by = n
    BY <1>4
  <2> QED
    BY <1>4, <1>5, <2>1, <2>2
<1> QED
  BY <1>5, <1>6, <1>7, <1>8 DEF TrailSound
-----------------------------------------------------------------------------
(* Steps that return. *)

\* The engine's side of r alone may have changed.
EngineFor(r) ==
  /\ call' \in [ Requests -> EngineCalls ] /\ tail' \in [ Requests -> Results \cup { None } ]
  /\ inflight' \in [ Nodes -> SUBSET Requests ] /\ gauge' \in [ Nodes -> Int ]
  /\ ran' \in [ Requests ->
       Seq([ node : Nodes, who : { "claimed", "verified" }, owner : Nodes \cup { None } ]) ]
  /\ \A q \in Requests \ { r } :
       /\ call'[q] = call[q] /\ tail'[q] = tail[q] /\ ran'[q] = ran[q]
       /\ \A n \in Nodes : q \in inflight'[n] <=> q \in inflight[n]

\* What a step about r has to show.
Kept(r) == TypeOK' /\ (\A q \in Requests \ { r } : Same(q)) /\ ReqInv(r)'

\* Then everything holds of every request.
LEMMA KeptIsEnough ==
  ASSUME NEW r \in Requests, \A q \in Requests : ReqInv(q), Kept(r)
  PROVE  TypeOK' /\ \A q \in Requests : ReqInv(q)'
  BY SameKeeps DEF Kept

\* A return, with what its result, its record and its call have to be.
LEMMA Finishes ==
  ASSUME TypeOK, NEW r \in Requests, Busy(r), ReqInv(r), NEW res \in Results, Return(r, res),
         UNCHANGED << conf, row, up, client, ask >>, faults' \in Nat,
         EngineFor(r), Trailed(r), ran'[r] = ran[r],
         tail'[r] = tail[r], call'[r].node = call[r].node,
         CallInv(r)', JoinInv(r)', tail'[r] # None => Named(r, tail[r])',
         RanSound(r, res), PassedOn(r, res), Named(r, res)', TrailSound(r, res)
  PROVE  Kept(r)
<1>1. /\ frames' \in [ Requests -> Seq(Frames) ]
      /\ answer' \in [ Requests -> Results \cup { None, Unauthorized } ]
      /\ cause' \in [ Requests -> Causes \cup { None } ]
      /\ \A q \in Requests \ { r } :
           frames'[q] = frames[q] /\ answer'[q] = answer[q] /\ cause'[q] = cause[q]
      /\ Passed(r, res)
  BY ReturnDoes
<1>2. TypeOK'
  BY <1>1 DEF TypeOK, EngineFor, Trailed, Records
<1>3. \A q \in Requests \ { r } : Same(q)
  BY <1>1 DEF Same, EngineFor, Trailed
<1>4. frames'[r] \in Seq(Frames)
  BY <1>1
<1>5. StackInv(r) /\ RanInv(r) /\ CauseInv(r)
  BY DEF ReqInv
<1>6. StackInv(r)'
  BY <1>1, <1>4, <1>5, ReturnKeepsStack
<1>7. RanInv(r)'
  BY <1>1, <1>4, <1>5, ReturnKeepsRan
<1>8. CauseInv(r)'
  BY <1>1, <1>4, <1>5, ReturnKeepsCause
<1>9. CutInv(r)'
  BY <1>1, <1>4, <1>5, ReturnKeepsCut
<1>10. Depth(r) > 1 => ~ Listing(r)
  <2> SUFFICES ASSUME Depth(r) > 1, Listing(r) PROVE FALSE
    OBVIOUS
  <2>1. Top(r).at = "asking"
    BY <1>5, TopIs DEF Listing, FrameInv, OnTheWire, Registry
  <2> QED
    BY <1>5, <2>1, AskingAlone
<1>11. TrailInv(r)'
  BY <1>1, <1>4, <1>5, <1>10, ReturnKeepsTrail
<1> QED
  BY <1>2, <1>3, <1>6, <1>7, <1>8, <1>9, <1>11 DEF Kept, ReqInv

\* A return that leaves the engine alone.
LEMMA FinishesQuietly ==
  ASSUME TypeOK, NEW r \in Requests, Busy(r), ReqInv(r), NEW res \in Results, Return(r, res),
         UNCHANGED << conf, row, up, client, ask, call, tail, inflight, ran >>,
         gauge' \in [ Nodes -> Int ], faults' \in Nat, Trailed(r),
         RanSound(r, res), PassedOn(r, res), Named(r, res), TrailSound(r, res)
  PROVE  Kept(r)
<1>1. frames'[r] \in Seq(Frames) /\ Passed(r, res)
  BY ReturnDoes
<1>2. StackInv(r) /\ CallInv(r) /\ JoinInv(r) /\ CutInv(r)
  BY DEF ReqInv
<1>3. Busy(r)' => Top(r)'.at = "relaying"
  BY <1>1, <1>2, ReturnKeepsStack
<1>4. EngineFor(r)
  BY DEF EngineFor, TypeOK
<1>5. CallInv(r)'
  BY <1>2 DEF CallInv, Timed, Counted
<1>6. JoinInv(r)'
  BY <1>2, <1>3 DEF JoinInv, Early
<1>7. Named(r, res)' /\ (tail'[r] # None => Named(r, tail[r])')
  BY <1>2 DEF Named, CutInv
<1> QED
  BY <1>4, <1>5, <1>6, <1>7, Finishes

\* The same, when the handler records its result and nothing was recorded yet.
LEMMA FinishesRecorded ==
  ASSUME TypeOK, NEW r \in Requests, Busy(r), ReqInv(r), NEW res \in Results, Return(r, res),
         UNCHANGED << conf, row, up, client, ask, call, tail, inflight, ran >>,
         gauge' \in [ Nodes -> Int ], faults' \in Nat,
         audit(r, Top(r).node, Top(r).op, Top(r).who, res.ok),
         Silent(r) \/ (ask[r].op = "load_dataset" /\ ~ Loads(r)),
         res.ok => res.by = Top(r).node /\ (Depth(r) > 1 => call[r].node = Top(r).node),
         RanSound(r, res), PassedOn(r, res), Named(r, res)
  PROVE  Kept(r)
<1>1. frames'[r] \in Seq(Frames) /\ Passed(r, res)
  BY ReturnDoes
<1>2. StackInv(r)
  BY DEF ReqInv
<1>3. Trailed(r) /\ TrailSound(r, res)
  BY <1>1, <1>2, AuditedSound
<1> QED
  BY <1>3, FinishesQuietly

\* A refusal, whatever it is for.
LEMMA RefusalKeeps ==
  ASSUME TypeOK, NEW r \in Requests, Busy(r), ReqInv(r), NEW env \in Envelope, Return(r, Err(env)),
         UNCHANGED << conf, row, up, client, ask, call, tail, inflight, ran >>,
         gauge' \in [ Nodes -> Int ], faults' \in Nat,
         audit(r, Top(r).node, Top(r).op, Top(r).who, FALSE),
         Top(r).at \in Early, env.kind \notin CutKinds
  PROVE  Kept(r)
<1> DEFINE res == Err(env)
<1>1. res \in Results /\ res.ok = FALSE /\ res.env = env
  BY MadeResults
<1>2. Silent(r) \/ (ask[r].op = "load_dataset" /\ ~ Loads(r))
  BY DEF ReqInv, TrailInv
<1>3. Return(r, res) /\ audit(r, Top(r).node, Top(r).op, Top(r).who, res.ok)
  BY <1>1
<1> HIDE DEF res
<1>4. RanSound(r, res) /\ PassedOn(r, res) /\ Named(r, res)
  <2>1. cause[r] = None
    BY DEF ReqInv, CauseInv
  <2> QED
    BY <1>1, <2>1 DEF RanSound, PassedOn, Named, CutKinds, Early
<1> QED
  BY <1>1, <1>2, <1>3, <1>4, FinishesRecorded
-----------------------------------------------------------------------------
(* Operations the control plane alone answers, and refusals. *)

\* What such an operation answers.
LEMMA AskedSound ==
  ASSUME TypeOK, NEW r \in Requests, Busy(r), ReqInv(r), Top(r).at = "asking",
         NEW res, res = Ok(Top(r).node) \/ \E e : res = FromControlPlane(r, e)
  PROVE  /\ res \in Results /\ RanSound(r, res) /\ PassedOn(r, res) /\ Named(r, res)
         /\ res.ok => res.by = Top(r).node
         /\ Depth(r) = 1 /\ (Silent(r) \/ (ask[r].op = "load_dataset" /\ ~ Loads(r)))
<1>1. Depth(r) = 1 /\ Top(r).node \in Nodes
  BY AskingAlone, TopIs DEF ReqInv, Frames
<1>2. Silent(r) \/ (ask[r].op = "load_dataset" /\ ~ Loads(r))
  BY DEF ReqInv, TrailInv, Early
<1>0. cause[r] = None
  BY DEF ReqInv, CauseInv, Early
<1>3. CASE res = Ok(Top(r).node)
  BY <1>1, <1>2, <1>3, MadeResults DEF RanSound, PassedOn, Named
<1>4. CASE \E e : res = FromControlPlane(r, e)
  <2>1. PICK e : res = FromControlPlane(r, e)
    BY <1>4
  <2>2. PICK env \in Envelope : env = status_err(to_status_traced(e, r)) /\ env.kind \notin CutKinds
    BY ControlErrors
  <2>3. res = Err(env)
    BY <2>1, <2>2 DEF FromControlPlane
  <2>4. res \in Results /\ res.ok = FALSE /\ res.env = env
    BY <2>3, MadeResults
  <2> QED
    BY <1>0, <1>1, <1>2, <2>2, <2>4 DEF RanSound, PassedOn, Named, CutKinds
<1> QED
  BY <1>3, <1>4

\* AllocatePond and ListPonds record their answer.
LEMMA AskedAndRecorded ==
  ASSUME TypeOK, NEW r \in Requests, ReqInv(r), AllocatePond(r) \/ ListPonds(r)
  PROVE  Kept(r)
<1>1. Busy(r) /\ Top(r).at = "asking"
  BY DEF AllocatePond, ListPonds, Asking, Busy
<1>2. UNCHANGED << conf, row, up, client, ask, call, tail, inflight, ran, gauge, faults >>
  BY DEF AllocatePond, ListPonds, world, engine
<1>3. PICK res : /\ res = Ok(Top(r).node) \/ \E e : res = FromControlPlane(r, e)
                 /\ audit(r, Top(r).node, Top(r).op, Top(r).who, res.ok) /\ Return(r, res)
  BY DEF AllocatePond, ListPonds, outcome
<1>4. gauge' \in [ Nodes -> Int ] /\ faults' \in Nat
  BY <1>2 DEF TypeOK
<1> QED
  BY <1>1, <1>2, <1>3, <1>4, AskedSound, FinishesRecorded

\* ListDatasets and ListCatalogs do not.
LEMMA AskedUnrecorded ==
  ASSUME TypeOK, NEW r \in Requests, ReqInv(r), ListDatasets(r) \/ ListCatalogs(r)
  PROVE  Kept(r)
<1>1. Busy(r) /\ Top(r).at = "asking" /\ Top(r).op \in { "list_datasets", "list_catalogs" }
  BY DEF ListDatasets, ListCatalogs, Asking, Busy
<1>2. UNCHANGED << conf, row, up, client, ask, call, tail, inflight, ran, gauge, trail, faults >>
  BY DEF ListDatasets, ListCatalogs, world, engine
<1>3. PICK res : (res = Ok(Top(r).node) \/ \E e : res = FromControlPlane(r, e)) /\ Return(r, res)
  BY DEF ListDatasets, ListCatalogs
<1>4. gauge' \in [ Nodes -> Int ] /\ faults' \in Nat /\ Trailed(r)
  BY <1>2 DEF TypeOK, Trailed, Records
<1>5. Listing(r) /\ ask[r].op # "load_dataset" /\ StackInv(r)
  BY <1>1, AskingAlone DEF ReqInv, Listing
<1>6. /\ res \in Results /\ RanSound(r, res) /\ PassedOn(r, res) /\ Named(r, res)
      /\ Depth(r) = 1
  BY <1>1, <1>3, AskedSound
<1>7. ~ Loads(r)'
  <2>1. frames'[r] \in Seq(Frames) /\ Passed(r, res)
    BY <1>1, <1>3, <1>6, ReturnDoes
  <2>2. Loads(r)' <=> Loads(r) /\ Depth(r) > 1
    BY <1>1, <1>2, <1>5, <1>6, <2>1, ReturnKeepsStack
  <2> QED
    BY <1>6, <2>2
<1>8. TrailSound(r, res)
  BY <1>5, <1>7 DEF TrailSound
<1> QED
  BY <1>1, <1>2, <1>3, <1>4, <1>6, <1>8, FinishesQuietly

\* Every refusal before the statement starts.
LEMMA RefusedKeeps ==
  ASSUME TypeOK, NEW r \in Requests, ReqInv(r), Busy(r), Top(r).at \in { "resolving", "routing" },
         NEW env \in Envelope, env.kind \notin CutKinds, Refused(r, Top(r), env),
         UNCHANGED << world, client, ask >>
  PROVE  Kept(r)
<1>1. /\ UNCHANGED << conf, row, up, client, ask, call, tail, inflight, ran, gauge, faults >>
      /\ Return(r, Err(env)) /\ audit(r, Top(r).node, Top(r).op, Top(r).who, FALSE)
  BY DEF Refused, world, engine
<1>2. gauge' \in [ Nodes -> Int ] /\ faults' \in Nat
  BY <1>1 DEF TypeOK
<1>3. Top(r).at \in Early
  BY DEF Early
<1> QED
  BY <1>1, <1>2, <1>3, RefusalKeeps

\* An operation refuses its own arguments.
LEMMA RefusesArgumentsKeeps ==
  ASSUME TypeOK, NEW r \in Requests, ReqInv(r), RefusesArguments(r)
  PROVE  Kept(r)
<1>1. Busy(r) /\ Top(r).at = "routing" /\ UNCHANGED << world, client, ask >>
  BY DEF RefusesArguments, Busy
<1>2. \A k \in ErrorKind, s \in SUBSET Facts, p \in Pages :
        rendered_with(k, s, p) \in Envelope /\ rendered_with(k, s, p).kind = k
  BY RenderedWithIsEnvelope
<1>3. \E env \in Envelope : env.kind \notin CutKinds /\ Refused(r, Top(r), env)
  <2>1. CASE ZeroLimit(r, Top(r))
    <3>1. Refused(r, Top(r), rendered_with("InvalidValue", { "max_limit" }, "lineage"))
      BY <2>1 DEF ZeroLimit
    <3>2. "InvalidValue" \in ErrorKind /\ { "max_limit" } \in SUBSET Facts /\ "lineage" \in Pages
          /\ "InvalidValue" \notin CutKinds
      BY DEF ErrorKind, Facts, Pages, CutKinds
    <3> QED
      BY <1>2, <3>1, <3>2
  <2>2. CASE prepare_pull(r, Top(r))
    <3>1. Refused(r, Top(r), status_err(to_status_traced("CatalogNotFound", r)))
      BY <2>2 DEF prepare_pull
    <3> QED
      BY <3>1, ControlErrors
  <2>3. CASE NoLineage(r, Top(r))
    <3>1. PICK kind \in { "InvalidValue", "Storage" } :
            Refused(r, Top(r), rendered_with(kind, { "pond" }, "lineage"))
      BY <2>3 DEF NoLineage
    <3>2. kind \in ErrorKind /\ { "pond" } \in SUBSET Facts /\ "lineage" \in Pages /\ kind \notin CutKinds
      BY <3>1 DEF ErrorKind, Facts, Pages, CutKinds
    <3> QED
      BY <1>2, <3>1, <3>2
  <2> QED
    BY <2>1, <2>2, <2>3 DEF RefusesArguments
<1> QED
  BY <1>1, <1>3, RefusedKeeps

\* ensure_pond fails.
LEMMA StorageFailsKeeps ==
  ASSUME TypeOK, NEW r \in Requests, ReqInv(r), Busy(r), Top(r).at = "routing",
         StorageFails(r, Top(r)), UNCHANGED << world, client, ask >>
  PROVE  Kept(r)
<1>1. PICK env \in Envelope : env = for_kind("Storage") /\ env.kind \notin CutKinds
  BY ForKindIsEnvelope DEF ErrorKind, CutKinds
<1>2. /\ UNCHANGED << conf, row, up, client, ask, call, tail, inflight, ran >>
      /\ Return(r, Err(env)) /\ audit(r, Top(r).node, Top(r).op, Top(r).who, FALSE)
  BY <1>1 DEF StorageFails, world
<1>3. gauge' \in [ Nodes -> Int ] /\ faults' \in Nat
  <2>1. gauge \in [ Nodes -> Int ] /\ faults \in Nat /\ Top(r).node \in Nodes
    BY TopIs DEF TypeOK, ReqInv, Frames
  <2>2. CASE Counted(Top(r).op)
    <3>1. gauge' = [ gauge EXCEPT ![Top(r).node] = @ + 1 ] /\ faults' = faults + 1
      BY <2>2 DEF StorageFails
    <3> QED
      BY <2>1, <3>1
  <2>3. CASE ~ Counted(Top(r).op)
    BY <2>1, <2>3 DEF StorageFails
  <2> QED
    BY <2>2, <2>3
<1>4. Top(r).at \in Early
  BY DEF Early
<1> QED
  BY <1>1, <1>2, <1>3, <1>4, RefusalKeeps

\* load_dataset of a dataset that is not there.
LEMMA LoadMissingKeeps ==
  ASSUME TypeOK, NEW r \in Requests, ReqInv(r), Busy(r), Top(r).at = "loading",
         audit(r, Top(r).node, Top(r).op, Top(r).who, FALSE),
         Return(r, Err(status_err(to_status_traced("DatasetNotFound", r)))),
         UNCHANGED << world, client, ask, engine, faults >>
  PROVE  Kept(r)
<1>1. PICK env \in Envelope : env = status_err(to_status_traced("DatasetNotFound", r)) /\ env.kind \notin CutKinds
  BY ControlErrors
<1>2. /\ UNCHANGED << conf, row, up, client, ask, call, tail, inflight, ran, gauge, faults >>
      /\ Return(r, Err(env))
  BY <1>1 DEF world, engine
<1>3. gauge' \in [ Nodes -> Int ] /\ faults' \in Nat
  BY <1>2 DEF TypeOK
<1>4. Top(r).at \in Early
  BY DEF Early
<1> QED
  BY <1>1, <1>2, <1>3, <1>4, RefusalKeeps
-----------------------------------------------------------------------------
(* Handlers that relay an answer, and handlers that join their call. *)

\* A relayed answer is recorded by nobody else.
LEMMA RelayReturns ==
  ASSUME TypeOK, NEW r \in Requests, ReqInv(r), Busy(r), Top(r).at = "relaying",
         Top(r).op # "load_dataset", Return(r, Top(r).res),
         UNCHANGED << world, client, ask, engine, trail, faults >>
  PROVE  Kept(r)
<1>1. /\ UNCHANGED << conf, row, up, client, ask, call, tail, inflight, ran, gauge, trail, faults >>
      /\ gauge' \in [ Nodes -> Int ] /\ faults' \in Nat /\ Trailed(r)
  BY DEF world, engine, TypeOK, Trailed, Records
<1>2. StackInv(r) /\ CauseInv(r) /\ CutInv(r) /\ TrailInv(r)
  BY DEF ReqInv
<1>3. Top(r).res \in Results
  BY <1>2, TopIs DEF FrameInv
<1>4. PICK res \in Results : res = Top(r).res
  BY <1>3
<1>5. Return(r, res)
  BY <1>4
<1>6. ~ (Loads(r) /\ Depth(r) = 1)
  BY <1>2, FirstOnly
<1>7. RanSound(r, res) /\ PassedOn(r, res) /\ Named(r, res)
  BY <1>2, <1>4, <1>6 DEF RanSound, Ran, PassedOn, CutInv, CauseInv
<1>8. frames'[r] \in Seq(Frames) /\ Passed(r, res)
  BY <1>5, ReturnDoes
<1>9. Loads(r)' => Loads(r)
  BY <1>1, <1>2, <1>8, ReturnKeepsStack
<1>10. ~ res.ok => cause'[r] = cause[r]
  BY <1>2, <1>4, <1>8 DEF CauseInv, Passed, Rooted, Traces
<1>11. /\ \A b \in BOOLEAN : Recorded(r, b)' = Recorded(r, b)
       /\ Silent(r) => Silent(r)'
       /\ OnlyError(r) => OnlyError(r)'
       /\ \A n : OnlyOk(r, n) => OnlyOk(r, n)'
  BY <1>1, NoAudit
<1>12. TrailSound(r, res)
  <2>1. Loads(r)' => Silent(r)'
    BY <1>2, <1>9, <1>11 DEF TrailInv
  <2>2. ASSUME ask[r].op # "load_dataset", res.ok
        PROVE  OnlyOk(r, res.by)' /\ res.by = call'[r].node
    <3>1. OnlyOk(r, res.by) /\ res.by = call[r].node
      BY <1>2, <1>4, <2>2 DEF TrailInv
    <3> QED
      BY <1>1, <1>11, <3>1
  <2>3. ASSUME ask[r].op # "load_dataset", ~ res.ok
        PROVE  OnlyError(r)' \/ "detail" \in cause'[r].env.facts \/ Recorded(r, TRUE)' # {}
    <3>1. OnlyError(r) \/ "detail" \in cause[r].env.facts \/ Recorded(r, TRUE) # {}
      BY <1>2, <1>4, <2>3 DEF TrailInv
    <3> QED
      BY <1>10, <1>11, <2>3, <3>1
  <2> QED
    BY <1>6, <2>1, <2>2, <2>3 DEF TrailSound
<1> QED
  BY <1>1, <1>5, <1>7, <1>12, FinishesQuietly

\* load_dataset is done, or one of its writes failed.
LEMMA LoadEndsKeeps ==
  ASSUME TypeOK, NEW r \in Requests, ReqInv(r), Busy(r), Top(r).at = "relaying",
         Top(r).op = "load_dataset", ~ (Top(r).res.ok /\ Top(r).left > 1),
         audit(r, Top(r).node, Top(r).op, Top(r).who, outcome(Top(r).res)),
         Return(r, IF Top(r).res.ok THEN Ok(Top(r).node) ELSE Top(r).res),
         UNCHANGED << world, client, ask, engine, faults >>
  PROVE  Kept(r)
<1>1. /\ UNCHANGED << conf, row, up, client, ask, call, tail, inflight, ran, gauge, faults >>
      /\ gauge' \in [ Nodes -> Int ] /\ faults' \in Nat
  BY DEF world, engine, TypeOK
<1>2. StackInv(r) /\ CauseInv(r) /\ CutInv(r) /\ TrailInv(r)
  BY DEF ReqInv
<1>3. Top(r).res \in Results /\ Top(r).node \in Nodes /\ Top(r).left \in 1 .. Tables + 1
      /\ Top(r) = frames[r][Depth(r)]
  BY <1>2, TopIs DEF FrameInv, Frames
<1>4. Depth(r) = 1 /\ Loads(r) /\ Silent(r)
  BY <1>2, FirstOnly DEF TrailInv
<1>5. PICK res : res = IF Top(r).res.ok THEN Ok(Top(r).node) ELSE Top(r).res
  OBVIOUS
<1>6. /\ res \in Results /\ res.ok = Top(r).res.ok /\ (res.ok => res.by = Top(r).node)
      /\ ~ res.ok => res = Top(r).res
  <2>1. CASE Top(r).res.ok
    <3>1. Top(r).res.ok = TRUE
      BY <1>3, <2>1 DEF Results, Result0
    <3> QED
      BY <1>3, <1>5, <2>1, <3>1, MadeResults
  <2>2. CASE ~ Top(r).res.ok
    BY <1>3, <1>5, <2>2
  <2> QED
    BY <2>1, <2>2
<1>7. Return(r, res) /\ audit(r, Top(r).node, Top(r).op, Top(r).who, res.ok)
  BY <1>5, <1>6 DEF outcome
<1>8. res.ok => frames[r][1].left = 1
  BY <1>3, <1>4, <1>6, PathAssumption
<1>9. RanSound(r, res) /\ PassedOn(r, res) /\ Named(r, res)
  BY <1>2, <1>6, <1>8 DEF RanSound, Ran, PassedOn, CutInv, Named, CauseInv
<1> QED
  BY <1>1, <1>4, <1>6, <1>7, <1>9, FinishesRecorded

\* The schema of a stream, or the error in its place.
LEMMA EstablishedReturns ==
  ASSUME TypeOK, NEW r \in Requests, ReqInv(r), Established(r),
         ~ (Top(r).op = "read_query" /\ ~ (call[r].st = "closed" /\ ~ call[r].flowed))
  PROVE  Kept(r)
<1> DEFINE failed == call[r].st = "closed" /\ ~ call[r].flowed
<1>1. PICK res : /\ res = IF failed THEN tail[r] ELSE Ok(Top(r).node)
                 /\ audit(r, Top(r).node, Top(r).op, Top(r).who, res.ok) /\ Return(r, res)
  BY DEF Established, outcome
<1>2. /\ Busy(r) /\ Top(r).at = "running" /\ Top(r).op \in Streamed
      /\ UNCHANGED << conf, row, up, client, ask, call, tail, inflight, ran, gauge, faults >>
      /\ gauge' \in [ Nodes -> Int ] /\ faults' \in Nat
  BY DEF Established, Busy, Waits, world, engine, TypeOK
<1>3. StackInv(r) /\ JoinInv(r) /\ CauseInv(r) /\ CutInv(r) /\ TrailInv(r)
  BY DEF ReqInv
<1>4. call[r].node = Top(r).node /\ call[r].op \in Streamed /\ Top(r).node \in Nodes
  BY <1>2, <1>3, TopIs DEF JoinInv, Frames
<1>5. tail[r] \in Results \cup { None } /\ (failed => tail[r] # None)
  BY <1>3, <1>4 DEF JoinInv, TypeOK
<1>6. res \in Results /\ (res.ok => res.by = Top(r).node)
  BY <1>1, <1>3, <1>4, <1>5, MadeResults DEF JoinInv
<1>7. Named(r, res)
  <2>1. CASE failed
    BY <1>1, <1>3, <1>5, <2>1 DEF CutInv
  <2>2. CASE ~ failed
    <3>1. res.ok = TRUE
      BY <1>1, <1>4, <2>2, MadeResults
    <3> QED
      BY <3>1 DEF Named
  <2> QED
    BY <2>1, <2>2
<1>8. ~ (Loads(r) /\ Depth(r) = 1)
  BY <1>2, <1>3, FirstOnly DEF Streamed
<1>9. RanSound(r, res) /\ PassedOn(r, res)
  <2>1. Ran(r)
    BY <1>2 DEF Ran, Serving
  <2>2. ~ res.ok => tail[r] # None /\ res = tail[r]
    BY <1>1, <1>4, <1>5, MadeResults
  <2>3. PassedOn(r, res)
    BY <1>2, <1>3, <1>4, <2>1, <2>2 DEF PassedOn, CauseInv
  <2> QED
    BY <1>8, <2>1, <2>3 DEF RanSound
<1>10. Silent(r) \/ (ask[r].op = "load_dataset" /\ ~ Loads(r))
  BY <1>2, <1>3 DEF TrailInv
<1> QED
  BY <1>1, <1>2, <1>4, <1>6, <1>7, <1>9, <1>10, FinishesRecorded

\* What the engine returned, as the handler or the producer has it.
LEMMA FateIs ==
  ASSUME TypeOK, NEW r \in Requests, CallInv(r), NEW n \in Nodes, call[r].st = "ended"
  PROVE  /\ LET res == Result(r, n, classify(call[r]))
            IN  /\ res \in Results /\ (res.ok => res.by = n)
                /\ ~ res.ok /\ res.env.kind = "QueryTimeout" => call[r].expired
                /\ ~ res.ok /\ res.env.kind = "QueryCancelled" => ~ call[r].expired /\ call[r].cut
         /\ LET res == Result(r, n, from_engine(call[r].out))
            IN  /\ res \in Results /\ (res.ok => res.by = n)
                /\ ~ res.ok /\ res.env.kind = "QueryTimeout" => FALSE
                /\ ~ res.ok /\ res.env.kind = "QueryCancelled" => call[r].cut
<1> DEFINE out == call[r].out
<1>1. out \in Outcomes /\ out # "Timeout"
  BY PathAssumption DEF Outcomes, CallInv
<1>2. /\ from_engine(out) \in Envelope
      /\ from_engine(out).kind # "QueryTimeout"
      /\ from_engine(out).kind = "QueryCancelled" => out = "Cancelled"
  BY <1>1, FromEngine
<1>3. out = "Cancelled" => call[r].cut
  BY DEF CallInv
<1>4. /\ classify(call[r]) \in Envelope
      /\ classify(call[r]).kind = "QueryTimeout" => call[r].expired
      /\ classify(call[r]).kind = "QueryCancelled" => ~ call[r].expired /\ call[r].cut
  BY <1>2, <1>3, OwnErrors DEF classify
<1>5. for_kind("Internal") \in Envelope /\ for_kind("Internal").kind = "Internal"
  BY ForKindIsEnvelope DEF ErrorKind
<1>6. ASSUME NEW fate \in Envelope
      PROVE  LET res == Result(r, n, fate)
             IN  /\ res \in Results /\ (res.ok => res.by = n)
                 /\ ~ res.ok => res.env.kind = "Internal" \/ res.env.kind = fate.kind
  BY <1>5, MadeResults DEF Result
<1> QED
  BY <1>2, <1>3, <1>4, <1>6

\* The call of a handler that joined it, and of a producer that ended.
LEMMA ClosedCall ==
  ASSUME NEW c \in EngineCalls
  PROVE  LET e == [ drop_guard(c) EXCEPT !.st = "closed" ]
         IN  /\ e \in EngineCalls /\ e.st = "closed" /\ e.timer = "off" /\ e.cut = TRUE
             /\ e.node = c.node /\ e.op = c.op /\ e.out = c.out /\ e.expired = c.expired
             /\ e.flowed = c.flowed
             /\ e.first = IF c.first = None THEN "dropped" ELSE c.first
  BY DEF drop_guard, Fire, EngineCalls, Whos

\* The in-flight entry and the gauge, when a call is completed.
LEMMA CompletedDoes ==
  ASSUME TypeOK, NEW r \in Requests, Completed(r), call[r].node \in Nodes
  PROVE  /\ inflight' \in [ Nodes -> SUBSET Requests ] /\ gauge' \in [ Nodes -> Int ]
         /\ \A n \in Nodes : inflight'[n] = IF n = call[r].node THEN inflight[n] \ { r } ELSE inflight[n]
         /\ \A n \in Nodes : gauge'[n] = IF n = call[r].node THEN gauge[n] - 1 ELSE gauge[n]
<1>1. inflight \in [ Nodes -> SUBSET Requests ] /\ gauge \in [ Nodes -> Int ]
  BY DEF TypeOK
<1>2. PICK m \in Nodes : m = call[r].node
  OBVIOUS
<1>3. inflight' = [ inflight EXCEPT ![m] = @ \ { r } ] /\ gauge' = [ gauge EXCEPT ![m] = @ - 1 ]
  BY <1>2 DEF Completed
<1>4. /\ inflight' \in [ Nodes -> SUBSET Requests ]
      /\ \A n \in Nodes : inflight'[n] = IF n = m THEN inflight[n] \ { r } ELSE inflight[n]
  BY <1>1, <1>3
<1>5. /\ gauge' \in [ Nodes -> Int ]
      /\ \A n \in Nodes : gauge'[n] = IF n = m THEN gauge[n] - 1 ELSE gauge[n]
  BY <1>1, <1>3
<1> QED
  BY <1>2, <1>4, <1>5

\* run_query_local after the join.
LEMMA JoinsKeeps ==
  ASSUME TypeOK, NEW r \in Requests, ReqInv(r), Joins(r)
  PROVE  Kept(r)
<1>1. PICK res : /\ res = Result(r, Top(r).node, classify(call[r]))
                 /\ audit(r, Top(r).node, Top(r).op, Top(r).who, res.ok) /\ Return(r, res)
  BY DEF Joins, outcome
<1>2. /\ Busy(r) /\ Top(r).op = "write_query" /\ Top(r).at \in { "running", "collecting" }
      /\ call[r].st = "ended" /\ Completed(r)
      /\ call' = [ call EXCEPT ![r] = [ drop_guard(@) EXCEPT !.st = "closed" ] ]
      /\ UNCHANGED << conf, row, up, client, ask, tail, ran, faults >> /\ faults' \in Nat
  BY DEF Joins, Busy, Waits, world, TypeOK
<1>3. StackInv(r) /\ CallInv(r) /\ JoinInv(r) /\ CutInv(r) /\ TrailInv(r)
  BY DEF ReqInv
<1>4. Top(r).at = "running" /\ Top(r).node \in Nodes
  BY <1>2, <1>3, TopIs DEF FrameInv, Frames
<1>5. call[r].node = Top(r).node /\ call[r].op = "write_query" /\ call[r].out \in Outcomes
      /\ tail[r] = None /\ call[r] \in EngineCalls /\ call[r].first # "dropped"
  BY <1>2, <1>3, <1>4 DEF JoinInv, CallInv, TypeOK
<1>6. /\ res \in Results /\ (res.ok => res.by = Top(r).node)
      /\ ~ res.ok /\ res.env.kind = "QueryTimeout" => call[r].expired
      /\ ~ res.ok /\ res.env.kind = "QueryCancelled" => ~ call[r].expired /\ call[r].cut
  BY <1>1, <1>2, <1>3, <1>4, FateIs
<1> DEFINE c == call[r]
           e == [ drop_guard(c) EXCEPT !.st = "closed" ]
<1>7. /\ e \in EngineCalls /\ e.st = "closed" /\ e.timer = "off" /\ e.cut = TRUE
      /\ e.node = c.node /\ e.op = c.op /\ e.out = c.out /\ e.expired = c.expired
      /\ e.first = IF c.first = None THEN "dropped" ELSE c.first
  BY <1>5, ClosedCall
<1> HIDE DEF e
<1>8. call' \in [ Requests -> EngineCalls ] /\ call'[r] = e /\ \A q \in Requests \ { r } : call'[q] = call[q]
  BY <1>2, <1>7 DEF TypeOK, e
<1>9. /\ inflight' \in [ Nodes -> SUBSET Requests ] /\ gauge' \in [ Nodes -> Int ]
      /\ \A n \in Nodes : inflight'[n] = IF n = call[r].node THEN inflight[n] \ { r } ELSE inflight[n]
  BY <1>2, <1>4, <1>5, CompletedDoes
<1>10. EngineFor(r)
  BY <1>2, <1>8, <1>9, ZenonT(60) DEF EngineFor, TypeOK
<1>11. frames'[r] \in Seq(Frames) /\ Passed(r, res)
  BY <1>1, <1>2, <1>6, ReturnDoes
<1>12. Busy(r)' => Top(r)'.at = "relaying"
  BY <1>2, <1>3, <1>6, <1>11, ReturnKeepsStack
<1>13. Timed(r)' = Timed(r) /\ Timed(r)
  BY <1>2, <1>3, <1>5 DEF Timed, CallInv, Counted
<1>14. CallInv(r)'
  <2>1. c.first \in Whos \cup { None } /\ None \notin Whos
    BY <1>5, PathAssumption DEF EngineCalls, Whos
  <2>2. e.first # None /\ (e.first = "timer" => e.expired) /\ (e.expired => e.first \in { "timer", "drop" })
    BY <1>3, <1>7, <2>1 DEF CallInv, Whos
  <2>3. Counted(e.op) /\ e.op \in Operations /\ e.op \notin Registry \cup { "load_dataset" }
    BY <1>5, <1>7 DEF Counted, Operations, Registry
  <2> QED
    BY <1>2, <1>3, <1>4, <1>5, <1>7, <1>8, <1>9, <1>13, <2>2, <2>3 DEF CallInv
<1>15. JoinInv(r)'
  BY <1>2, <1>5, <1>7, <1>8, <1>12 DEF JoinInv, Streamed, Early
<1>16. Named(r, res)' /\ tail'[r] = None
  <2>1. c.cut => c.first \in { "timer", "caller", "drop" }
    BY <1>3, <1>5 DEF CallInv, EngineCalls, Whos
  <2>2. ~ res.ok /\ res.env.kind = "QueryTimeout" => e.expired /\ e.first \in { "timer", "drop" }
    BY <1>3, <1>6, <1>7, PathAssumption DEF CallInv
  <2>3. ~ res.ok /\ res.env.kind = "QueryCancelled" => ~ e.expired /\ e.first \in { "caller", "drop" }
    BY <1>3, <1>6, <1>7, <2>1, PathAssumption DEF CallInv
  <2> QED
    BY <1>2, <1>5, <1>7, <1>8, <2>2, <2>3 DEF Named
<1>17. ~ (Loads(r) /\ Depth(r) = 1)
  BY <1>2, <1>3, FirstOnly
<1>18. RanSound(r, res) /\ PassedOn(r, res)
  <2>1. cause[r] = None
    BY <1>2, <1>4, <1>5 DEF ReqInv, CauseInv, Ran, Serving
  <2> QED
    BY <1>4, <1>17, <2>1 DEF RanSound, Ran, Serving, PassedOn
<1>19. Trailed(r) /\ TrailSound(r, res)
  <2>1. Silent(r) \/ (ask[r].op = "load_dataset" /\ ~ Loads(r))
    BY <1>2, <1>3, <1>4 DEF TrailInv
  <2>2. call'[r].node = Top(r).node
    BY <1>5, <1>7, <1>8
  <2> QED
    BY <1>1, <1>2, <1>3, <1>6, <1>11, <2>1, <2>2, AuditedSound
<1>20. tail'[r] = tail[r] /\ call'[r].node = call[r].node
  BY <1>2, <1>7, <1>8
<1> QED
  BY <1>1, <1>2, <1>20, <1>6, <1>10, <1>14, <1>15, <1>16, <1>18, <1>19, Finishes

\* The local halves without a deadline.
LEMMA JoinsBareKeeps ==
  ASSUME TypeOK, NEW r \in Requests, ReqInv(r), NEW op \in Bare, JoinsBare(r, op)
  PROVE  Kept(r)
<1>1. PICK res : /\ res = Result(r, Top(r).node, from_engine(call[r].out))
                 /\ audit(r, Top(r).node, Top(r).op, Top(r).who, res.ok) /\ Return(r, res)
  BY DEF JoinsBare, outcome
<1>2. /\ Busy(r) /\ Top(r).op = op /\ Top(r).at \in { "running", "collecting" }
      /\ call[r].st = "ended" /\ call' = [ call EXCEPT ![r].st = "closed" ]
      /\ UNCHANGED << conf, row, up, client, ask, tail, inflight, gauge, ran, faults >> /\ faults' \in Nat
  BY DEF JoinsBare, Busy, Waits, world, TypeOK
<1>3. StackInv(r) /\ CallInv(r) /\ JoinInv(r) /\ CutInv(r) /\ TrailInv(r)
  BY DEF ReqInv
<1>4. Top(r).at = "running" /\ Top(r).node \in Nodes
  BY <1>2, <1>3, TopIs DEF FrameInv, Frames, Bare
<1>5. call[r].node = Top(r).node /\ call[r].op = op /\ call[r].out \in Outcomes
      /\ tail[r] = None /\ call[r] \in EngineCalls
  BY <1>2, <1>3, <1>4 DEF JoinInv, CallInv, TypeOK
<1>6. ~ Counted(op) /\ op \notin Streamed /\ op \notin Registry \cup { "load_dataset" }
  BY DEF Counted, Streamed, Registry, Bare
<1>7. ~ Timed(r) /\ ~ call[r].cut
  BY <1>2, <1>3, <1>5, <1>6 DEF CallInv
<1>8. /\ res \in Results /\ (res.ok => res.by = Top(r).node)
      /\ ~ res.ok => res.env.kind \notin CutKinds
  BY <1>1, <1>2, <1>3, <1>4, <1>7, FateIs DEF CutKinds
<1> DEFINE c == call[r]
           e == [ c EXCEPT !.st = "closed" ]
<1>9. /\ e \in EngineCalls /\ e.st = "closed" /\ e.timer = c.timer /\ e.cut = c.cut
      /\ e.node = c.node /\ e.op = c.op /\ e.out = c.out /\ e.expired = c.expired /\ e.first = c.first
  BY <1>5 DEF EngineCalls
<1>10. call' \in [ Requests -> EngineCalls ] /\ call'[r] = e /\ \A q \in Requests \ { r } : call'[q] = call[q]
  BY <1>2, <1>9 DEF TypeOK
<1> HIDE DEF e
<1>11. EngineFor(r)
  BY <1>2, <1>10 DEF EngineFor, TypeOK
<1>12. frames'[r] \in Seq(Frames) /\ Passed(r, res)
  BY <1>1, <1>2, <1>8, ReturnDoes
<1>13. Busy(r)' => Top(r)'.at = "relaying"
  BY <1>2, <1>3, <1>8, <1>12, ReturnKeepsStack
<1>14. CallInv(r)'
  <2>1. Timed(r)' = Timed(r)
    BY <1>2 DEF Timed
  <2> QED
    BY <1>2, <1>3, <1>5, <1>6, <1>7, <1>9, <1>10, <2>1 DEF CallInv, Counted
<1>15. JoinInv(r)' /\ tail'[r] = None
  BY <1>2, <1>5, <1>6, <1>9, <1>10, <1>13 DEF JoinInv, Early
<1>16. Named(r, res)'
  BY <1>8 DEF Named, CutKinds
<1>17. ~ (Loads(r) /\ Depth(r) = 1)
  BY <1>2, <1>3, <1>6, FirstOnly
<1>18. RanSound(r, res) /\ PassedOn(r, res)
  <2>1. cause[r] = None
    BY <1>2, <1>4, <1>5 DEF ReqInv, CauseInv, Ran, Serving
  <2> QED
    BY <1>4, <1>17, <2>1 DEF RanSound, Ran, Serving, PassedOn
<1>19. Trailed(r) /\ TrailSound(r, res)
  <2>1. Silent(r) \/ (ask[r].op = "load_dataset" /\ ~ Loads(r))
    BY <1>2, <1>3, <1>4 DEF TrailInv
  <2>2. call'[r].node = Top(r).node
    BY <1>5, <1>9, <1>10
  <2> QED
    BY <1>1, <1>2, <1>3, <1>8, <1>12, <2>1, <2>2, AuditedSound
<1>20. tail'[r] = tail[r] /\ call'[r].node = call[r].node
  BY <1>2, <1>9, <1>10
<1> QED
  BY <1>1, <1>2, <1>20, <1>8, <1>11, <1>14, <1>15, <1>16, <1>18, <1>19, Finishes

\* collect_stream, to the end of the stream or to the cap.
LEMMA CollectedKeeps ==
  ASSUME TypeOK, NEW r \in Requests, ReqInv(r), NEW capped \in BOOLEAN, Collected(r, capped)
  PROVE  Kept(r)
<1> DEFINE local == Top(r).to = None
           whole == CASE local -> tail[r]
                      [] ~ local /\ call[r].st = "dead" -> Err(unreachable_owner)
                      [] OTHER -> Relayed(r, tail[r], call[r].node)
<1>1. PICK res : /\ res = IF capped THEN Err(result_cap_exceeded_unknown) ELSE whole
                 /\ IF local THEN audit(r, Top(r).node, Top(r).op, Top(r).who, res.ok) ELSE UNCHANGED trail
                 /\ Return(r, res)
  BY DEF Collected, outcome
<1>2. /\ Busy(r) /\ Top(r).at = "collecting"
      /\ IF capped THEN call[r].st = "flowing" ELSE tail[r] # None \/ call[r].st = "dead"
      /\ call' = IF capped THEN [ call EXCEPT ![r].heard = FALSE ] ELSE call
      /\ UNCHANGED << conf, row, up, client, ask, tail, inflight, gauge, ran, faults >> /\ faults' \in Nat
  BY DEF Collected, Busy, world, TypeOK
<1>3. StackInv(r) /\ CallInv(r) /\ JoinInv(r) /\ CauseInv(r) /\ CutInv(r) /\ TrailInv(r)
  BY DEF ReqInv
<1>4. Top(r).op = "read_query" /\ Depth(r) = 1 /\ ask[r].op = "read_query" /\ Top(r).node \in Nodes
  BY <1>2, <1>3, FirstOnly, TopIs DEF Frames
<1>5. /\ call[r].op \in Streamed /\ call[r].st # "none" /\ call[r].node \in Nodes
      /\ local => call[r].node = Top(r).node /\ call[r].st # "dead"
      /\ call[r] \in EngineCalls /\ tail[r] \in Results \cup { None }
  BY <1>2, <1>3 DEF JoinInv, CallInv, TypeOK
<1>5a. /\ tail[r] # None => call[r].st = "closed"
       /\ tail[r] = None => cause[r] = None
       /\ tail[r] # None /\ ~ tail[r].ok => Rooted(r, tail[r].env, call[r].node)
  BY <1>2, <1>3 DEF JoinInv, CauseInv, Ran, Serving
<1>6. /\ res \in Results /\ (res.ok => res.by = call[r].node) /\ Named(r, res) /\ PassedOn(r, res)
  <2>1. CASE capped
    <3>1. res \in Results /\ res.ok = FALSE /\ res.env.kind \notin CutKinds
      BY <1>1, <2>1, OwnErrors, MadeResults
    <3>2. PassedOn(r, res)
      BY <1>2, <1>5a, <2>1 DEF PassedOn
    <3> QED
      BY <3>1, <3>2 DEF Named, CutKinds
  <2>2. CASE ~ capped /\ tail[r] = None
    <3>1. call[r].st = "dead" /\ ~ local
      BY <1>2, <1>5, <2>2
    <3>2. res = Err(unreachable_owner)
      BY <1>1, <2>2, <3>1
    <3>3. res \in Results /\ res.ok = FALSE /\ res.env.kind \notin CutKinds
      BY <3>2, OwnErrors, MadeResults
    <3> QED
      BY <1>5a, <2>2, <3>3 DEF Named, CutKinds, PassedOn
  <2>3. CASE ~ capped /\ tail[r] # None
    <3>1. tail[r] \in Results /\ call[r].st = "closed" /\ (tail[r].ok => tail[r].by = call[r].node)
      BY <1>3, <1>5, <2>3 DEF JoinInv
    <3>2. Named(r, tail[r])
      BY <1>3, <2>3 DEF CutInv
    <3>3. CASE local
      BY <1>1, <1>5, <1>5a, <2>3, <3>1, <3>2, <3>3 DEF PassedOn
    <3>4. CASE ~ local
      <4>1. res = IF tail[r].ok THEN tail[r] ELSE Err(Stamped(r, tail[r].env, call[r].node))
        BY <1>1, <1>5, <2>3, <3>1, <3>4, StatusCarries
      <4>2. CASE tail[r].ok
        BY <3>1, <3>2, <4>1, <4>2 DEF PassedOn
      <4>3. CASE ~ tail[r].ok
        <5>1. tail[r].env \in Envelope
          BY <3>1, <4>3 DEF Results
        <5>2. /\ Stamped(r, tail[r].env, call[r].node) \in Envelope
              /\ Stamped(r, tail[r].env, call[r].node).kind = tail[r].env.kind
              /\ Stamped(r, Stamped(r, tail[r].env, call[r].node), Top(r).node)
                   = Stamped(r, tail[r].env, call[r].node)
          BY <1>4, <1>5, <5>1, StampedOnce
        <5>3. /\ res \in Results /\ res.ok = FALSE /\ res.env.kind = tail[r].env.kind
              /\ res.env = Stamped(r, tail[r].env, call[r].node)
          BY <4>1, <4>3, <5>2, MadeResults
        <5>4. PassedOn(r, res)
          BY <1>5a, <2>3, <4>3, <5>2, <5>3 DEF PassedOn, Rooted, Traces
        <5> QED
          BY <3>2, <4>3, <5>3, <5>4 DEF Named
      <4> QED
        BY <4>2, <4>3
    <3> QED
      BY <3>3, <3>4
  <2> QED
    BY <2>1, <2>2, <2>3
<1> HIDE DEF whole
<1>7. /\ call' \in [ Requests -> EngineCalls ] /\ \A q \in Requests \ { r } : call'[q] = call[q]
      /\ call'[r].node = call[r].node /\ call'[r].op = call[r].op /\ call'[r].st = call[r].st
      /\ call'[r].out = call[r].out /\ call'[r].cut = call[r].cut /\ call'[r].first = call[r].first
      /\ call'[r].expired = call[r].expired /\ call'[r].timer = call[r].timer
  <2>1. CASE capped
    <3> DEFINE e == [ call[r] EXCEPT !.heard = FALSE ]
    <3>1. /\ e \in EngineCalls /\ e.st = call[r].st /\ e.timer = call[r].timer /\ e.cut = call[r].cut
          /\ e.node = call[r].node /\ e.op = call[r].op /\ e.out = call[r].out
          /\ e.expired = call[r].expired /\ e.first = call[r].first
      BY <1>5 DEF EngineCalls
    <3>2. call' = [ call EXCEPT ![r] = e ]
      BY <1>2, <2>1
    <3> HIDE DEF e
    <3>3. call' \in [ Requests -> EngineCalls ] /\ call'[r] = e /\ \A q \in Requests \ { r } : call'[q] = call[q]
      BY <3>1, <3>2 DEF TypeOK
    <3> QED
      BY <3>1, <3>3
  <2>2. CASE ~ capped
    BY <1>2, <2>2 DEF TypeOK
  <2> QED
    BY <2>1, <2>2
<1>8. EngineFor(r)
  BY <1>2, <1>7 DEF EngineFor, TypeOK
<1>9. frames'[r] \in Seq(Frames) /\ Passed(r, res)
  BY <1>1, <1>2, <1>6, ReturnDoes
<1>10. ~ Busy(r)' /\ ~ Loads(r)'
  BY <1>4, <1>9 DEF Passed, Busy, Loads
<1>11. CallInv(r)'
  <2>1. Timed(r)' = Timed(r)
    BY <1>2 DEF Timed
  <2> QED
    BY <1>2, <1>3, <1>7, <2>1 DEF CallInv, Counted
<1>12. JoinInv(r)'
  BY <1>2, <1>3, <1>7, <1>10 DEF JoinInv
<1>13. Named(r, res)' /\ (tail'[r] # None => Named(r, tail[r])')
  BY <1>2, <1>3, <1>6, <1>7 DEF Named, CutInv
<1>14. RanSound(r, res)
  BY <1>2, <1>4 DEF RanSound, Ran, Serving, Loads, StackInv, FrameInv, Top, Last, Depth
<1>15. Trailed(r) /\ TrailSound(r, res)
  <2>1. CASE local
    <3>1. Silent(r) /\ call'[r].node = Top(r).node /\ (res.ok => res.by = Top(r).node)
      BY <1>2, <1>3, <1>5, <1>6, <1>7, <2>1 DEF TrailInv
    <3> QED
      BY <1>1, <1>2, <1>3, <1>6, <1>9, <2>1, <3>1, AuditedSound
  <2>2. CASE ~ local
    <3>1. trail' = trail
      BY <1>1, <2>2
    <3>2. PICK n : n = call[r].node
      OBVIOUS
    <3>3. OnlyOk(r, n)
      BY <1>2, <1>3, <2>2, <3>2 DEF TrailInv
    <3>4. OnlyOk(r, n)'
      BY <1>2, <3>1, <3>3, NoAudit
    <3>5. Recorded(r, TRUE)' # {}
      BY <3>4 DEF OnlyOk
    <3>6. Trailed(r)
      BY <3>1 DEF Trailed, TypeOK, Records
    <3>7. res.ok => res.by = n
      BY <1>6, <3>2
    <3>8. res.ok => OnlyOk(r, res.by)'
      BY <3>4, <3>7
    <3>9. ask[r].op # "load_dataset" /\ ~ (Depth(r) > 1)
      BY <1>4
    <3> QED
      BY <1>10, <3>5, <3>6, <3>8, <3>9 DEF TrailSound
  <2> QED
    BY <2>1, <2>2
<1> QED
  BY <1>1, <1>2, <1>6, <1>7, <1>8, <1>11, <1>12, <1>13, <1>14, <1>15, Finishes
-----------------------------------------------------------------------------
(* The working handler moves on, or puts another on top of itself. *)

\* The working handler becomes g.
LEMMA TopMoves ==
  ASSUME TypeOK, NEW r \in Requests, Busy(r), StackInv(r), NEW g \in Frames,
         frames' = [ frames EXCEPT ![r] = [ frames[r] EXCEPT ![Depth(r)] = g ] ],
         g.node = Top(r).node, g.op = Top(r).op, g.who = Top(r).who,
         g.op \notin Registry \cup { "load_dataset" },
         g.at \in { "routing", "dialling", "relaying", "running", "collecting" },
         g.at = "collecting" => g.op = "read_query",
         g.at = "relaying" => g.res \in Results,
         g.at \in { "routing", "running" } => g.to = None,
         g.at \in { "dialling", "relaying" } => g.to \in Nodes,
         conf' = conf, client'[r] = client[r], ask'[r] = ask[r], answer'[r] = answer[r]
  PROVE  /\ frames' \in [ Requests -> Seq(Frames) ]
         /\ \A q \in Requests \ { r } : frames'[q] = frames[q]
         /\ StackInv(r)' /\ Busy(r)' /\ Top(r)' = g
         /\ Loads(r)' <=> Loads(r)
         /\ Loads(r) => frames'[r][1].left = frames[r][1].left
<1>1. PICK d : d = Depth(r)
  OBVIOUS
<1>2. /\ d \in Nat /\ d > 0 /\ d \in 1 .. d /\ Top(r) = frames[r][d] /\ FrameInv(r, d)
      /\ frames[r] \in Seq(Frames) /\ frames[r] # << >> /\ d = Len(frames[r])
      /\ client[r] \in { "waiting", "gone" } /\ answer[r] = None
  BY <1>1, TopIs DEF TypeOK, Busy, Depth, StackInv
<1> DEFINE t == [ frames[r] EXCEPT ![d] = g ]
<1>3. /\ t \in Seq(Frames) /\ Len(t) = d /\ Last(t) = g
      /\ \A i \in 1 .. d - 1 : t[i] = frames[r][i]
  BY <1>2, TopChanged
<1> HIDE DEF t
<1>4. frames' \in [ Requests -> Seq(Frames) ] /\ frames'[r] = t /\ \A q \in Requests \ { r } : frames'[q] = frames[q]
  BY <1>1, <1>3 DEF TypeOK, t
<1>5. t # << >> /\ t[d] = g
  BY <1>2, <1>3, StackParts
<1>6. Busy(r)' /\ Top(r)' = g /\ Depth(r)' = d
  BY <1>3, <1>4, <1>5 DEF Busy, Top, Depth
<1>7. FrameInv(r, d)'
  BY <1>2, <1>4, <1>5 DEF FrameInv, OnTheWire
<1>8. \A i \in 1 .. d - 1 : FrameInv(r, i)' /\ frames'[r][i].at = "waiting"
  <2> SUFFICES ASSUME NEW i \in 1 .. d - 1 PROVE FrameInv(r, i)' /\ frames'[r][i].at = "waiting"
    OBVIOUS
  <2>1. FrameInv(r, i) /\ frames[r][i].at = "waiting" /\ frames'[r][i] = frames[r][i]
    BY <1>1, <1>2, <1>3, <1>4 DEF StackInv
  <2> QED
    BY <2>1 DEF FrameInv, OnTheWire
<1>9. \A i \in 1 .. d : FrameInv(r, i)'
  <2>1. \A i \in 1 .. d : i = d \/ i \in 1 .. d - 1
    BY <1>2
  <2> QED
    BY <1>7, <1>8, <2>1
<1>10. d > 1 => frames'[r][1] = frames[r][1]
  BY <1>2, <1>3, <1>4
<1>11. d = 1 => frames'[r][1] = g /\ frames[r][1] = Top(r)
  BY <1>2, <1>4, <1>5
<1>12. frames'[r][1].op = frames[r][1].op /\ frames'[r][1].node = frames[r][1].node
       /\ Loads(r)' = Loads(r) /\ (Loads(r) => d > 1)
  BY <1>2, <1>6, <1>10, <1>11 DEF Loads
<1>13. d > 1 => frames'[r][2].node = frames[r][2].node
  <2>1. CASE d = 2
    BY <1>2, <1>4, <1>5, <2>1
  <2>2. CASE d > 2
    BY <1>2, <1>3, <1>4, <2>2
  <2> QED
    BY <1>2, <2>1, <2>2
<1>14. StackInv(r)'
  <2>1. Loads(r)' => frames'[r][2].node = frames'[r][1].node
    BY <1>1, <1>12, <1>13 DEF StackInv
  <2>2. client[r] = "waiting" => frames'[r][1].op = ask'[r].op
    BY <1>12 DEF StackInv
  <2> QED
    BY <1>2, <1>6, <1>8, <1>9, <2>1, <2>2 DEF StackInv
<1> QED
  BY <1>4, <1>6, <1>10, <1>12, <1>14

\* The working handler becomes g and waits for h.
LEMMA HandlerAdded ==
  ASSUME TypeOK, NEW r \in Requests, Busy(r), StackInv(r), NEW g \in Frames, NEW h \in Frames,
         frames' = [ frames EXCEPT ![r] = Append([ frames[r] EXCEPT ![Depth(r)] = g ], h) ],
         g.node = Top(r).node, g.op = Top(r).op, g.who = Top(r).who,
         g.at = "waiting", g.op \notin Registry,
         g.op = "load_dataset" => h.node = g.node /\ g.left \in 1 .. Tables + 1,
         g.op # "load_dataset" => g.to \in Nodes,
         h.at = "resolving", h.to = None, h.op \notin Registry \cup { "load_dataset", "read_query" },
         h.node \in conf.auth => h.who = "verified",
         IF ask[r].op = "load_dataset" THEN h.op = "write_query" ELSE OfRequest(r, h.op),
         conf' = conf, client'[r] = client[r], ask'[r] = ask[r], answer'[r] = answer[r]
  PROVE  /\ frames' \in [ Requests -> Seq(Frames) ]
         /\ \A q \in Requests \ { r } : frames'[q] = frames[q]
         /\ StackInv(r)' /\ Busy(r)' /\ Top(r)' = h
         /\ Loads(r)' <=> Loads(r)
         /\ frames'[r][1].left = IF Depth(r) = 1 THEN g.left ELSE frames[r][1].left
<1>1. PICK d : d = Depth(r)
  OBVIOUS
<1>2. /\ d \in Nat /\ d > 0 /\ d \in 1 .. d /\ Top(r) = frames[r][d] /\ FrameInv(r, d)
      /\ frames[r] \in Seq(Frames) /\ frames[r] # << >> /\ d = Len(frames[r])
      /\ client[r] \in { "waiting", "gone" } /\ answer[r] = None
  BY <1>1, TopIs DEF TypeOK, Busy, Depth, StackInv
<1>0. d = 1 \/ d > 1
  <2>1. d \in Nat /\ d > 0
    BY <1>2
  <2> QED
    BY <2>1
<1> DEFINE t == Append([ frames[r] EXCEPT ![d] = g ], h)
<1>3. /\ t \in Seq(Frames) /\ Len(t) = d + 1 /\ Last(t) = h /\ t # << >>
      /\ t[d] = g /\ t[d + 1] = h
      /\ \A i \in 1 .. d - 1 : t[i] = frames[r][i]
  BY <1>2, TopAdded
<1> HIDE DEF t
<1>4. frames' \in [ Requests -> Seq(Frames) ] /\ frames'[r] = t /\ \A q \in Requests \ { r } : frames'[q] = frames[q]
  BY <1>1, <1>3 DEF TypeOK, t
<1>5. Busy(r)' /\ Top(r)' = h /\ Depth(r)' = d + 1
  BY <1>3, <1>4 DEF Busy, Top, Depth
<1>6. FrameInv(r, d)' /\ frames'[r][d].at = "waiting"
  BY <1>2, <1>3, <1>4 DEF FrameInv, OnTheWire
<1>7. FrameInv(r, d + 1)'
  BY <1>2, <1>3, <1>4 DEF FrameInv, OnTheWire, OfRequest
<1>8. \A i \in 1 .. d - 1 : FrameInv(r, i)' /\ frames'[r][i].at = "waiting"
  <2> SUFFICES ASSUME NEW i \in 1 .. d - 1 PROVE FrameInv(r, i)' /\ frames'[r][i].at = "waiting"
    OBVIOUS
  <2>1. FrameInv(r, i) /\ frames[r][i].at = "waiting" /\ frames'[r][i] = frames[r][i]
    BY <1>1, <1>2, <1>3, <1>4 DEF StackInv
  <2> QED
    BY <2>1 DEF FrameInv, OnTheWire
<1>9. \A i \in 1 .. d : i = d \/ i \in 1 .. d - 1
  BY <1>2
<1>10. \A i \in 1 .. d + 1 : FrameInv(r, i)'
  <2>1. \A i \in 1 .. d + 1 : i = d + 1 \/ i \in 1 .. d
    BY <1>2
  <2> QED
    BY <1>6, <1>7, <1>8, <1>9, <2>1
<1>11. \A i \in 1 .. d : frames'[r][i].at = "waiting"
  BY <1>6, <1>8, <1>9
<1>12. d > 1 => frames'[r][1] = frames[r][1]
  BY <1>2, <1>3, <1>4
<1>13. d = 1 => frames'[r][1] = g /\ frames[r][1] = Top(r) /\ frames'[r][2] = h
  BY <1>2, <1>3, <1>4
<1>14. frames'[r][1].op = frames[r][1].op /\ frames'[r][1].node = frames[r][1].node
       /\ Loads(r)' = Loads(r)
  BY <1>2, <1>5, <1>12, <1>13 DEF Loads
<1>15. d > 1 => frames'[r][2].node = frames[r][2].node
  <2>1. CASE d = 2
    BY <1>2, <1>3, <1>4, <2>1
  <2>2. CASE d > 2
    BY <1>2, <1>3, <1>4, <2>2
  <2> QED
    BY <1>2, <2>1, <2>2
<1>16. Loads(r)' => frames'[r][2].node = frames'[r][1].node
  <2>1. CASE d = 1
    BY <1>5, <1>13, <1>14, <2>1 DEF Loads
  <2>2. CASE d > 1
    BY <1>1, <1>14, <1>15, <2>2 DEF StackInv
  <2> QED
    BY <1>0, <2>1, <2>2
<1>17. StackInv(r)'
  <2>1. client[r] = "waiting" => frames'[r][1].op = ask'[r].op
    BY <1>14 DEF StackInv
  <2>2. \A i \in 1 .. Depth(r)' - 1 : frames'[r][i].at = "waiting"
    <3>1. Depth(r)' - 1 = d
      BY <1>2, <1>5
    <3> QED
      BY <1>11, <3>1
  <2> QED
    BY <1>2, <1>5, <1>10, <1>16, <2>1, <2>2 DEF StackInv
<1>18. frames'[r][1].left = IF d = 1 THEN g.left ELSE frames[r][1].left
  <2>1. CASE d = 1
    BY <1>13, <2>1
  <2>2. CASE d > 1
    BY <1>2, <1>12, <2>2
  <2> QED
    BY <1>0, <2>1, <2>2
<1> QED
  BY <1>1, <1>4, <1>5, <1>14, <1>17, <1>18
-----------------------------------------------------------------------------
(* A statement starts. *)

\* The frame of r alone may have changed, and what it was blamed for.
FramesFor(r) ==
  /\ frames' \in [ Requests -> Seq(Frames) ]
  /\ cause' \in [ Requests -> Causes \cup { None } ]
  /\ \A q \in Requests \ { r } : frames'[q] = frames[q] /\ cause'[q] = cause[q]

\* Such a step keeps the types and leaves the other requests alone.
LEMMA StepFor ==
  ASSUME TypeOK, NEW r \in Requests, UNCHANGED << conf, row, up, client, ask, answer >>, faults' \in Nat,
         FramesFor(r), EngineFor(r), Trailed(r)
  PROVE  TypeOK' /\ \A q \in Requests \ { r } : Same(q)
<1>1. TypeOK'
  BY DEF TypeOK, FramesFor, EngineFor, Trailed, Records
<1>2. \A q \in Requests \ { r } : Same(q)
  BY DEF Same, FramesFor, EngineFor, Trailed
<1> QED
  BY <1>1, <1>2

\* Move(r, at), as the change of the top it is.
LEMMA MoveIs ==
  ASSUME TypeOK, NEW r \in Requests, Busy(r), StackInv(r), NEW at \in Places, Move(r, at)
  PROVE  LET g == [ Top(r) EXCEPT !.at = at ]
         IN  /\ g \in Frames /\ Still(Top(r), g) /\ g.at = at /\ g.res = Top(r).res
             /\ frames' = [ frames EXCEPT ![r] = [ frames[r] EXCEPT ![Depth(r)] = g ] ]
<1>1. Top(r) \in Frames /\ Top(r) = frames[r][Depth(r)]
  BY TopIs
<1>2. [ Top(r) EXCEPT !.at = at ] \in Frames /\ Still(Top(r), [ Top(r) EXCEPT !.at = at ])
      /\ [ Top(r) EXCEPT !.at = at ].at = at /\ [ Top(r) EXCEPT !.at = at ].res = Top(r).res
  BY <1>1 DEF Frames, Still
<1>3. frames' = [ frames EXCEPT ![r] = [ frames[r] EXCEPT ![Depth(r)] = [ Top(r) EXCEPT !.at = at ] ] ]
  BY <1>1 DEF Move
<1> QED
  BY <1>2, <1>3

\* Only a request with a deadline has handlers whose statements have one.
LEMMA CountedIsTimed ==
  ASSUME TypeOK, NEW r \in Requests, Busy(r), StackInv(r), Top(r).op # "load_dataset"
  PROVE  Counted(Top(r).op) <=> Timed(r)
  BY TopIs DEF FrameInv, Counted, Timed, Streamed, OnTheWire

\* The call that is started.
LEMMA LaunchedCall ==
  ASSUME TypeOK, NEW r \in Requests, NEW f \in Frames, Launch(r, f)
  PROVE  /\ call' \in [ Requests -> EngineCalls ] /\ \A q \in Requests \ { r } : call'[q] = call[q]
         /\ call'[r].node = f.node /\ call'[r].op = f.op /\ call'[r].st \in { "queued", "running" }
         /\ call'[r].out = None /\ call'[r].cut = FALSE /\ call'[r].first = None
         /\ call'[r].expired = FALSE
         /\ call'[r].timer = IF Counted(f.op) THEN "armed" ELSE "off"
<1> DEFINE st == IF with_read(f.op) THEN "queued" ELSE "running"
           bare == [ NoCall EXCEPT !.node = f.node, !.op = f.op, !.st = st ]
           e == IF Counted(f.op)
                THEN arm(bare, Depth(r) = 1 /\ ask[r].surface = "mcp") ELSE bare
<1>1. call' = [ call EXCEPT ![r] = e ]
  BY DEF Launch
<1>2. f.node \in Nodes /\ f.op \in Operations
  BY DEF Frames
<1>3. st \in { "queued", "running" }
  OBVIOUS
<1> HIDE DEF st
<1>4. /\ bare \in EngineCalls /\ bare.node = f.node /\ bare.op = f.op /\ bare.st = st
      /\ bare.out = None /\ bare.cut = FALSE /\ bare.first = None /\ bare.expired = FALSE
      /\ bare.timer = "off"
  <2>1. NoCall \in EngineCalls /\ NoCall.out = None /\ NoCall.cut = FALSE /\ NoCall.first = None
        /\ NoCall.expired = FALSE /\ NoCall.timer = "off"
    BY DEF NoCall, EngineCalls
  <2> QED
    BY <1>2, <1>3, <2>1 DEF EngineCalls
<1> HIDE DEF bare
<1>5. /\ e \in EngineCalls /\ e.node = f.node /\ e.op = f.op /\ e.st = st
      /\ e.out = None /\ e.cut = FALSE /\ e.first = None /\ e.expired = FALSE
      /\ e.timer = IF Counted(f.op) THEN "armed" ELSE "off"
  <2>1. CASE Counted(f.op)
    <3>1. (Depth(r) = 1 /\ ask[r].surface = "mcp") \in BOOLEAN
      OBVIOUS
    <3>2. PICK w \in BOOLEAN : w = (Depth(r) = 1 /\ ask[r].surface = "mcp")
      BY <3>1
    <3>3. e = [ bare EXCEPT !.timer = "armed", !.watched = w ]
      BY <2>1, <3>2 DEF arm
    <3> QED
      BY <1>4, <2>1, <3>3, ZenonT(60) DEF EngineCalls
  <2>2. CASE ~ Counted(f.op)
    BY <1>4, <2>2
  <2> QED
    BY <2>1, <2>2
<1> HIDE DEF e
<1>6. call' \in [ Requests -> EngineCalls ] /\ call'[r] = e /\ \A q \in Requests \ { r } : call'[q] = call[q]
  BY <1>1, <1>5 DEF TypeOK
<1> QED
  BY <1>3, <1>5, <1>6

\* A statement starts, on the node that owns the pond.
LEMMA LaunchKeeps ==
  ASSUME TypeOK, NEW r \in Requests, ReqInv(r), LookupInv(r), Busy(r), Top(r).at = "routing",
         placement(Top(r).node, Top(r).info) = "Local", Launch(r, Top(r)),
         UNCHANGED << world, client, ask >>
  PROVE  Kept(r)
<1>1. StackInv(r) /\ CallInv(r) /\ RanInv(r) /\ CauseInv(r) /\ TrailInv(r)
  BY DEF ReqInv
<1>2. PICK f \in Frames : f = Top(r)
  BY <1>1, TopIs
<1>3. /\ UNCHANGED << conf, row, up, client, ask, trail, answer, cause, faults >>
      /\ Launch(r, f) /\ faults' \in Nat
  BY <1>2 DEF Launch, world, TypeOK
<1>4. f.at = "routing" /\ f.op \notin Registry \cup { "load_dataset" } /\ f.to = None
      /\ f.node \in Nodes /\ f.op \in Operations /\ f.who \in { "claimed", "verified" }
      /\ (f.node \in conf.auth => f.who = "verified")
  BY <1>1, <1>2, TopIs DEF FrameInv, Frames
<1>5. /\ call' \in [ Requests -> EngineCalls ] /\ \A q \in Requests \ { r } : call'[q] = call[q]
      /\ call'[r].node = f.node /\ call'[r].op = f.op /\ call'[r].st \in { "queued", "running" }
      /\ call'[r].out = None /\ call'[r].cut = FALSE /\ call'[r].first = None
      /\ call'[r].expired = FALSE
      /\ call'[r].timer = IF Counted(f.op) THEN "armed" ELSE "off"
  BY <1>3, LaunchedCall
<1>6. tail' \in [ Requests -> Results \cup { None } ] /\ tail'[r] = None
      /\ \A q \in Requests \ { r } : tail'[q] = tail[q]
  BY <1>3 DEF Launch, TypeOK
<1>7. /\ inflight' \in [ Nodes -> SUBSET Requests ] /\ gauge' \in [ Nodes -> Int ]
      /\ \A q \in Requests \ { r }, n \in Nodes : q \in inflight'[n] <=> q \in inflight[n]
      /\ ~ Counted(f.op) => \A n \in Nodes : inflight'[n] = inflight[n]
  <2>1. inflight \in [ Nodes -> SUBSET Requests ] /\ gauge \in [ Nodes -> Int ]
    BY DEF TypeOK
  <2>2. CASE Counted(f.op)
    <3>1. inflight' = [ inflight EXCEPT ![f.node] = @ \cup { r } ] /\ gauge' = [ gauge EXCEPT ![f.node] = @ + 1 ]
      BY <1>3, <2>2 DEF Launch
    <3>2. /\ inflight' \in [ Nodes -> SUBSET Requests ]
          /\ \A q \in Requests \ { r }, n \in Nodes : q \in inflight'[n] <=> q \in inflight[n]
      BY <1>4, <2>1, <3>1
    <3>3. gauge' \in [ Nodes -> Int ]
      BY <1>4, <2>1, <3>1
    <3> QED
      BY <2>2, <3>2, <3>3
  <2>3. CASE ~ Counted(f.op)
    BY <1>3, <2>1, <2>3 DEF Launch
  <2> QED
    BY <2>2, <2>3
<1> DEFINE Runs == [ node : Nodes, who : { "claimed", "verified" }, owner : Nodes \cup { None } ]
           run == [ node |-> f.node, who |-> f.who,
                    owner |-> IF ~ conf.clustered THEN f.node
                              ELSE IF row[r] = None THEN None ELSE row[r].id ]
<1>8. run \in Runs /\ run.owner \in { run.node, None } /\ run.node = f.node /\ run.who = f.who
  <2>1. conf.clustered => f.info.id = f.node /\ (row[r] = None \/ row[r].id = f.info.id)
    BY <1>2 DEF placement, LookupInv
  <2> QED
    BY <1>4, <2>1
<1>9. /\ ran' \in [ Requests -> Seq(Runs) ] /\ ran'[r] = Append(ran[r], run)
      /\ \A q \in Requests \ { r } : ran'[q] = ran[q]
  <2>1. ran \in [ Requests -> Seq(Runs) ] /\ ran' = [ ran EXCEPT ![r] = Append(@, run) ]
    BY <1>3 DEF Launch, TypeOK
  <2> HIDE DEF run, Runs
  <2>2. Append(ran[r], run) \in Seq(Runs)
    BY <1>8, <2>1
  <2> QED
    BY <2>1, <2>2
<1>10. PICK g \in Frames : /\ Still(f, g) /\ g.at = "running"
                           /\ frames' = [ frames EXCEPT ![r] = [ frames[r] EXCEPT ![Depth(r)] = g ] ]
  <2>1. Move(r, "running") /\ "running" \in Places
    BY <1>3 DEF Launch, Places
  <2> DEFINE h == [ Top(r) EXCEPT !.at = "running" ]
  <2>2. /\ h \in Frames /\ Still(Top(r), h) /\ h.at = "running"
        /\ frames' = [ frames EXCEPT ![r] = [ frames[r] EXCEPT ![Depth(r)] = h ] ]
    BY <1>1, <2>1, MoveIs
  <2> HIDE DEF h
  <2> QED
    BY <1>2, <2>2
<1>11. /\ frames' \in [ Requests -> Seq(Frames) ]
       /\ \A q \in Requests \ { r } : frames'[q] = frames[q]
       /\ StackInv(r)' /\ Busy(r)' /\ Top(r)' = g
       /\ Loads(r)' <=> Loads(r)
       /\ Loads(r) => frames'[r][1].left = frames[r][1].left
  BY <1>1, <1>2, <1>3, <1>4, <1>10, TopMoves DEF Still
<1>12. TypeOK' /\ \A q \in Requests \ { r } : Same(q)
  <2>1. EngineFor(r)
    BY <1>5, <1>6, <1>7, <1>9 DEF EngineFor
  <2>2. FramesFor(r) /\ Trailed(r)
    BY <1>3, <1>11 DEF FramesFor, Trailed, TypeOK, Records
  <2> QED
    BY <1>3, <2>1, <2>2, StepFor
<1>13. CallInv(r)'
  <2>1. Counted(f.op) <=> Timed(r)
    BY <1>1, <1>2, <1>4, CountedIsTimed
  <2>2. Timed(r)' <=> Timed(r)
    BY <1>3 DEF Timed
  <2>3. \A n \in Nodes : r \in inflight'[n] => Timed(r)
    BY <1>1, <1>7, <2>1 DEF CallInv
  <2>4. None # "dropped" /\ None # "timer"
    BY PathAssumption
  <2>5. IF ask[r].op = "load_dataset" THEN f.op = "write_query"
        ELSE f.op \in { ask[r].op, OnTheWire(ask[r].op) }
    BY <1>1, <1>2, <1>4, TopIs DEF FrameInv
  <2> QED
    BY <1>3, <1>4, <1>5, <2>1, <2>2, <2>3, <2>4, <2>5 DEF CallInv, Counted
<1>14. JoinInv(r)'
  BY <1>5, <1>6, <1>10, <1>11 DEF JoinInv, Still, Early
<1>15. RanInv(r)'
  <2>0. ran[r] \in Seq(Runs)
    BY DEF TypeOK
  <2> HIDE DEF run, Runs
  <2>1. /\ Len(ran[r]) \in Nat /\ Len(ran'[r]) = Len(ran[r]) + 1 /\ ran'[r][Len(ran[r]) + 1] = run
        /\ DOMAIN ran[r] = 1 .. Len(ran[r]) /\ DOMAIN ran'[r] = 1 .. Len(ran[r]) + 1
        /\ \A i \in 1 .. Len(ran[r]) : ran'[r][i] = ran[r][i]
    BY <1>8, <1>9, <2>0, AppendProperties, LenProperties
  <2>2. \A i \in DOMAIN ran'[r] : /\ ran'[r][i].owner \in { ran'[r][i].node, None }
                                  /\ ran'[r][i].node \in conf.auth => ran'[r][i].who = "verified"
    <3> SUFFICES ASSUME NEW i \in DOMAIN ran'[r]
                 PROVE  /\ ran'[r][i].owner \in { ran'[r][i].node, None }
                        /\ ran'[r][i].node \in conf.auth => ran'[r][i].who = "verified"
      OBVIOUS
    <3>1. \/ ran'[r][i] = run
          \/ i \in DOMAIN ran[r] /\ ran'[r][i] = ran[r][i]
      <4>1. i \in 1 .. Len(ran[r]) + 1
        BY <2>1
      <4>2. i = Len(ran[r]) + 1 \/ i \in 1 .. Len(ran[r])
        BY <2>1, <4>1
      <4>3. CASE i = Len(ran[r]) + 1
        BY <2>1, <4>3
      <4>4. CASE i \in 1 .. Len(ran[r])
        BY <2>1, <4>4
      <4> QED
        BY <4>2, <4>3, <4>4
    <3> QED
      BY <1>1, <1>4, <1>8, <3>1 DEF RanInv
  <2>3. Need(r)' = Need(r) /\ Need(r) \in Nat /\ Len(ran[r]) < Need(r)
    BY <1>1, <1>2, <1>3, <1>4, PathAssumption DEF RanInv, Early, Need
  <2>4. ask[r].op # "load_dataset" => Len(ran'[r]) = 1
    BY <2>1, <2>3 DEF Need
  <2>5. Loads(r) => Sofar(r)' = Sofar(r) /\ Len(ran[r]) = Sofar(r)
    BY <1>1, <1>2, <1>4, <1>11 DEF Sofar, RanInv
  <2>6. answer'[r] = None
    BY <1>1, <1>3 DEF StackInv
  <2>7. Len(ran'[r]) <= Need(r)
    BY <2>1, <2>3
  <2>8. Loads(r) => Len(ran'[r]) = Sofar(r)' + 1
    BY <2>1, <2>5
  <2> QED
    BY <1>3, <1>10, <1>11, <2>2, <2>3, <2>4, <2>6, <2>7, <2>8 DEF RanInv, Early
<1>16. CauseInv(r)' /\ CutInv(r)'
  <2>1. cause'[r] = None /\ answer'[r] = None
    BY <1>1, <1>2, <1>3, <1>4 DEF CauseInv, StackInv, Early
  <2> QED
    BY <1>6, <1>10, <1>11, <2>1 DEF CauseInv, CutInv, Early
<1>17. TrailInv(r)'
  <2>1. Silent(r) => Silent(r)'
    BY <1>3, NoAudit
  <2>2. Silent(r) \/ (ask[r].op = "load_dataset" /\ ~ Loads(r))
    BY <1>1, <1>2, <1>4 DEF TrailInv, Early
  <2>3. answer'[r] = None
    BY <1>1, <1>3 DEF StackInv
  <2> QED
    BY <1>1, <1>3, <1>10, <1>11, <2>1, <2>2, <2>3 DEF TrailInv, Early
<1> QED
  BY <1>11, <1>12, <1>13, <1>14, <1>15, <1>16, <1>17 DEF Kept, ReqInv
-----------------------------------------------------------------------------
(* Forwarding. *)

\* A handler has still to find the pond, or the way to its owner.
LEMMA EarlyKeeps ==
  ASSUME TypeOK, NEW r \in Requests, ReqInv(r), Busy(r), cause[r] = None, call[r].op \notin Streamed,
         UNCHANGED << conf, row, up, client, ask, engine, trail, answer, cause, faults >>,
         frames' \in [ Requests -> Seq(Frames) ], \A q \in Requests \ { r } : frames'[q] = frames[q],
         StackInv(r)', Busy(r)', Top(r)'.at \in { "resolving", "routing", "dialling" }, Loads(r)' <=> Loads(r),
         Len(ran[r]) < Need(r), Loads(r) => Len(ran[r]) = Sofar(r)',
         Silent(r) \/ (ask[r].op = "load_dataset" /\ ~ Loads(r))
  PROVE  Kept(r)
<1>1. StackInv(r) /\ CallInv(r) /\ JoinInv(r) /\ RanInv(r) /\ CutInv(r) /\ TrailInv(r)
  BY DEF ReqInv
<1>2. UNCHANGED << call, tail, inflight, gauge, ran >> /\ answer'[r] = None /\ faults' \in Nat
  BY <1>1 DEF engine, StackInv, TypeOK
<1>3. TypeOK' /\ \A q \in Requests \ { r } : Same(q)
  <2>1. FramesFor(r) /\ EngineFor(r) /\ Trailed(r)
    BY <1>2 DEF FramesFor, EngineFor, Trailed, TypeOK, Records
  <2> QED
    BY <1>2, <2>1, StepFor
<1>4. CallInv(r)' /\ JoinInv(r)'
  BY <1>1, <1>2 DEF CallInv, JoinInv, Timed, Counted, OnTheWire
<1>5. RanInv(r)'
  <2>1. Need(r)' = Need(r) /\ ~ Ran(r)' /\ Top(r)'.at \in Early /\ Top(r)'.at # "loading"
    BY DEF Need, Ran, Serving, Early
  <2> QED
    BY <1>1, <1>2, <2>1 DEF RanInv
<1>6. CauseInv(r)' /\ CutInv(r)'
  BY <1>1, <1>2 DEF CauseInv, CutInv, Named, Ran, Serving
<1>7. TrailInv(r)'
  <2>1. Silent(r) => Silent(r)'
    BY NoAudit
  <2> QED
    BY <1>1, <1>2, <2>1 DEF TrailInv
<1> QED
  BY <1>3, <1>4, <1>5, <1>6, <1>7 DEF Kept, ReqInv

\* The pond is another node's.
LEMMA DialKeeps ==
  ASSUME TypeOK, NEW r \in Requests, ReqInv(r), Busy(r), Top(r).at = "routing", Top(r).info # None,
         placement(Top(r).node, Top(r).info) \notin { "NoOwner", "Local" },
         NEW g \in Frames, g.node = Top(r).node, g.op = Top(r).op, g.who = Top(r).who,
         g.at = "dialling", g.to = Top(r).info.at,
         frames' = [ frames EXCEPT ![r] = [ frames[r] EXCEPT ![Depth(r)] = g ] ],
         UNCHANGED << world, client, ask, engine, trail, answer, cause, faults >>
  PROVE  Kept(r)
<1>1. StackInv(r) /\ JoinInv(r) /\ RanInv(r) /\ CauseInv(r) /\ TrailInv(r)
  BY DEF ReqInv
<1>2. PICK f \in Frames : f = Top(r) /\ f = frames[r][Depth(r)]
  BY <1>1, TopIs
<1>3. f.at = "routing" /\ f.op \notin Registry \cup { "load_dataset" }
  BY <1>1, <1>2, TopIs DEF FrameInv
<1>4. f.info.at \in Nodes
  <2>1. f.info \in [ id : Nodes \cup { None }, at : Nodes \cup { None } ]
    BY <1>2, PathAssumption DEF Frames
  <2> QED
    BY <1>2, <2>1 DEF placement
<1>0. conf' = conf /\ client'[r] = client[r] /\ ask'[r] = ask[r] /\ answer'[r] = answer[r]
  BY DEF world
<1>7. /\ frames' \in [ Requests -> Seq(Frames) ]
      /\ \A q \in Requests \ { r } : frames'[q] = frames[q]
      /\ StackInv(r)' /\ Busy(r)' /\ Top(r)' = g
      /\ Loads(r)' <=> Loads(r)
      /\ Loads(r) => frames'[r][1].left = frames[r][1].left
  BY <1>0, <1>1, <1>2, <1>3, <1>4, TopMoves
<1>8. /\ UNCHANGED << conf, row, up, client, ask, engine, trail, answer, cause, faults >>
      /\ cause[r] = None /\ call[r].op \notin Streamed /\ Len(ran[r]) < Need(r)
      /\ Silent(r) \/ (ask[r].op = "load_dataset" /\ ~ Loads(r))
  BY <1>1, <1>2, <1>3 DEF world, CauseInv, JoinInv, RanInv, TrailInv, Early
<1>9. Loads(r) => Len(ran[r]) = Sofar(r)'
  BY <1>1, <1>2, <1>3, <1>7 DEF RanInv, Sofar
<1> QED
  BY <1>7, <1>8, <1>9, EarlyKeeps

\* A new handler.
LEMMA HandlerIs ==
  ASSUME NEW n \in Nodes, NEW op \in Operations, NEW at \in Places,
         NEW who \in { "claimed", "verified" }, NEW bearer \in { None, "good" }
  PROVE  LET h == Handler(n, op, at, who, bearer)
         IN  /\ h \in Frames /\ h.node = n /\ h.op = op /\ h.at = at /\ h.who = who
             /\ h.to = None /\ h.left = 0 /\ h.bearer = bearer
  BY DEF Handler, Frames

\* The owner lets the forwarded request in.
LEMMA SentKeeps ==
  ASSUME TypeOK, NEW r \in Requests, ReqInv(r), Busy(r), Top(r).at = "dialling",
         NEW id, id = identity_of(Top(r).to, with_identity(Top(r))), id.ok,
         NEW g \in Frames, g.at = "waiting", g.node = Top(r).node, g.op = Top(r).op, g.who = Top(r).who,
         g.to = Top(r).to, g.left = Top(r).left,
         NEW h \in Frames, h.node = Top(r).to, h.op = OnTheWire(Top(r).op), h.at = "resolving",
         h.who = id.who, h.to = None,
         frames' = [ frames EXCEPT ![r] = Append([ frames[r] EXCEPT ![Depth(r)] = g ], h) ],
         UNCHANGED << conf, row, up, client, ask, engine, trail, answer, cause, faults >>
  PROVE  Kept(r)
<1>1. StackInv(r) /\ JoinInv(r) /\ RanInv(r) /\ CauseInv(r) /\ TrailInv(r)
  BY DEF ReqInv
<1>2. PICK f \in Frames : f = Top(r) /\ f = frames[r][Depth(r)]
  BY <1>1, TopIs
<1>3. f.at = "dialling" /\ f.op \notin Registry \cup { "load_dataset" } /\ f.to \in Nodes
  BY <1>1, <1>2, TopIs, ZenonT(60) DEF FrameInv
<1>4. /\ id.who \in { "claimed", "verified" } /\ id.bearer \in { None, "good" }
      /\ f.to \in conf.auth => id.who = "verified"
  BY <1>2 DEF identity_of
<1>6. OnTheWire(f.op) \in Operations
      /\ OnTheWire(f.op) \notin Registry \cup { "load_dataset", "read_query" }
  BY <1>3 DEF OnTheWire, Frames, Operations, Streamed, Registry
<1>0. conf' = conf /\ client'[r] = client[r] /\ ask'[r] = ask[r] /\ answer'[r] = answer[r]
  OBVIOUS
<1>9. IF ask[r].op = "load_dataset" THEN h.op = "write_query" ELSE OfRequest(r, h.op)
  <2>1. FrameInv(r, Depth(r)) /\ frames[r][Depth(r)] = f
    BY <1>1, <1>2, TopIs
  <2> QED
    BY <1>2, <1>3, <2>1 DEF FrameInv, OfRequest, OnTheWire
<1>5. /\ g.op \notin Registry \cup { "load_dataset" } /\ g.to \in Nodes
      /\ h.op \notin Registry \cup { "load_dataset", "read_query" }
      /\ h.node \in conf.auth => h.who = "verified"
  BY <1>2, <1>3, <1>4, <1>6
<1>10. /\ frames' \in [ Requests -> Seq(Frames) ]
       /\ \A q \in Requests \ { r } : frames'[q] = frames[q]
       /\ StackInv(r)' /\ Busy(r)' /\ Top(r)' = h
       /\ Loads(r)' <=> Loads(r)
       /\ frames'[r][1].left = IF Depth(r) = 1 THEN g.left ELSE frames[r][1].left
  BY <1>0, <1>1, <1>5, <1>9, HandlerAdded
<1>11. /\ cause[r] = None /\ call[r].op \notin Streamed /\ Len(ran[r]) < Need(r)
       /\ Silent(r) \/ (ask[r].op = "load_dataset" /\ ~ Loads(r))
  BY <1>1, <1>2, <1>3 DEF CauseInv, JoinInv, RanInv, TrailInv, Early
<1>12. Loads(r) => Len(ran[r]) = Sofar(r)'
  <2>1. frames'[r][1].left = frames[r][1].left
    BY <1>2, <1>10
  <2> QED
    BY <1>1, <1>2, <1>3, <2>1 DEF RanInv, Sofar
<1> QED
  BY <1>10, <1>11, <1>12, EarlyKeeps

\* The owner cannot be reached, or does not let the forwarded request in.
LEMMA ToldKeeps ==
  ASSUME TypeOK, NEW r \in Requests, ReqInv(r), Busy(r), Top(r).at = "dialling",
         NEW env \in Envelope, env.kind \notin CutKinds,
         NEW g \in Frames, Still(Top(r), g), g.at = "relaying", g.res = Err(env),
         frames' = [ frames EXCEPT ![r] = [ frames[r] EXCEPT ![Depth(r)] = g ] ],
         NEW c \in Causes, c.env = env, Span(c) = Top(r).node, cause' = [ cause EXCEPT ![r] = c ],
         Trailed(r), Loads(r) => Silent(r)',
         ask[r].op # "load_dataset" => OnlyError(r)' \/ "detail" \in env.facts,
         UNCHANGED << conf, row, up, client, ask, engine, answer, faults >>
  PROVE  Kept(r)
<1>1. StackInv(r) /\ CallInv(r) /\ JoinInv(r) /\ RanInv(r) /\ CutInv(r)
  BY DEF ReqInv
<1>2. PICK n \in Nodes : n = Top(r).node
  BY <1>1, TopIs DEF Frames
<1>3. Top(r).op \notin Registry \cup { "load_dataset" } /\ Top(r).to \in Nodes
  BY <1>1, TopIs DEF FrameInv
<1>4. g.res \in Results /\ g.res.ok = FALSE /\ g.res.env = env /\ g.node = n
  BY <1>2, MadeResults DEF Still
<1>5. UNCHANGED << call, tail, inflight, gauge, ran >> /\ answer'[r] = None /\ faults' \in Nat
      /\ client'[r] = client[r] /\ ask'[r] = ask[r] /\ answer'[r] = answer[r]
  BY <1>1 DEF engine, StackInv, TypeOK
<1>6. /\ frames' \in [ Requests -> Seq(Frames) ]
      /\ \A q \in Requests \ { r } : frames'[q] = frames[q]
      /\ StackInv(r)' /\ Busy(r)' /\ Top(r)' = g
      /\ Loads(r)' <=> Loads(r)
  BY <1>1, <1>3, <1>4, <1>5, TopMoves DEF Still
<1>7. /\ cause' \in [ Requests -> Causes \cup { None } ] /\ cause'[r] = c /\ c # None
      /\ \A q \in Requests \ { r } : cause'[q] = cause[q]
  BY PathAssumption DEF TypeOK, Causes
<1>8. TypeOK' /\ \A q \in Requests \ { r } : Same(q)
  <2>1. TypeOK'
    BY <1>5, <1>6, <1>7 DEF TypeOK, Trailed, Records
  <2>2. \A q \in Requests \ { r } : Same(q)
    BY <1>5, <1>6, <1>7 DEF Same, Trailed
  <2> QED
    BY <2>1, <2>2
<1>9. CallInv(r)' /\ JoinInv(r)'
  BY <1>1, <1>5, <1>6 DEF CallInv, JoinInv, Timed, Counted, OnTheWire, Busy, Early
<1>10. RanInv(r)'
  <2>1. ~ Ran(r)' /\ Top(r)'.at = "relaying" /\ Need(r)' = Need(r)
    BY <1>4, <1>5, <1>6 DEF Ran, Serving, Need
  <2> QED
    BY <1>1, <1>5, <2>1 DEF RanInv, Early
<1>11. CauseInv(r)'
  <2>1. Top(r)'.res.env = env /\ Top(r)'.node = n /\ Top(r)'.res.ok = FALSE /\ Top(r)'.at = "relaying"
    BY <1>4, <1>6
  <2>2. Rooted(r, Top(r).res.env, Top(r).node)'
    BY <1>2, <1>7, <2>1 DEF Rooted, Traces, Stamped, Span
  <2>3. ~ Ran(r)' /\ Top(r)'.at \notin Early
    BY <2>1 DEF Ran, Serving, Early
  <2> QED
    BY <1>5, <1>6, <2>2, <2>3 DEF CauseInv
<1>12. CutInv(r)'
  BY <1>1, <1>4, <1>5, <1>6 DEF CutInv, Named, CutKinds
<1>13. TrailInv(r)'
  <2>1. Top(r)'.at = "relaying" /\ Top(r)'.res.ok = FALSE /\ ask'[r].op = ask[r].op
    BY <1>4, <1>5, <1>6
  <2> QED
    BY <1>5, <1>6, <1>7, <2>1 DEF TrailInv, Early
<1> QED
  BY <1>6, <1>8, <1>9, <1>10, <1>11, <1>12, <1>13 DEF Kept, ReqInv

\* The working handler with its answer.
LEMMA ToldIs ==
  ASSUME TypeOK, NEW r \in Requests, Busy(r), StackInv(r), NEW env \in Envelope,
         frames' = [ frames EXCEPT ![r][Depth(r)].at = "relaying", ![r][Depth(r)].res = Err(env) ]
  PROVE  \E g \in Frames :
           /\ Still(Top(r), g) /\ g.at = "relaying" /\ g.res = Err(env)
           /\ frames' = [ frames EXCEPT ![r] = [ frames[r] EXCEPT ![Depth(r)] = g ] ]
<1>1. Top(r) \in Frames /\ Top(r) = frames[r][Depth(r)] /\ Depth(r) \in 1 .. Depth(r)
  BY TopIs
<1> DEFINE g == [ Top(r) EXCEPT !.at = "relaying", !.res = Err(env) ]
<1>2. Err(env) \in Results
  BY MadeResults
<1>3. g \in Frames /\ Still(Top(r), g) /\ g.at = "relaying" /\ g.res = Err(env)
  BY <1>1, <1>2 DEF Frames, Places, Still
<1>4. frames' = [ frames EXCEPT ![r] = [ frames[r] EXCEPT ![Depth(r)] = g ] ]
  <2>1. /\ frames \in [ Requests -> Seq(Frames) ] /\ frames[r] \in Seq(Frames)
        /\ Depth(r) \in 1 .. Len(frames[r])
    BY <1>1 DEF TypeOK, Depth
  <2> QED
    BY <1>1, <2>1
<1> HIDE DEF g
<1> QED
  BY <1>3, <1>4

\* The hop, however it goes.
LEMMA SendKeeps ==
  ASSUME TypeOK, NEW r \in Requests, ReqInv(r), Dialling(r), Send(r, Top(r)),
         UNCHANGED << conf, row, up, client, ask, engine, answer, faults >>
  PROVE  Kept(r)
<1>1. Busy(r) /\ Top(r).at = "dialling" /\ StackInv(r) /\ cause[r] = None
      /\ (Silent(r) \/ (ask[r].op = "load_dataset" /\ ~ Loads(r)))
  BY DEF Dialling, Busy, ReqInv, CauseInv, TrailInv, Early
<1>2. PICK f \in Frames : f = Top(r) /\ f = frames[r][Depth(r)] /\ FrameInv(r, Depth(r))
  BY <1>1, TopIs
<1>3. f.at = "dialling" /\ f.op \notin Registry \cup { "load_dataset" } /\ f.to \in Nodes
      /\ f.node \in Nodes
  BY <1>1, <1>2 DEF FrameInv, Frames
<1>4. Send(r, f)
  BY <1>2
<1>5. cause \in [ Requests -> Causes \cup { None } ]
  BY DEF TypeOK
<1>6. CASE f.to \notin up
  <2>1. unreachable_owner \in Envelope /\ unreachable_owner.kind \notin CutKinds
        /\ "detail" \in unreachable_owner.facts
    BY OwnErrors
  <2>2. /\ frames' = [ frames EXCEPT ![r][Depth(r)].at = "relaying",
                                     ![r][Depth(r)].res = Err(unreachable_owner) ]
        /\ Blame(r, f.node, Err(unreachable_owner)) /\ trail' = trail
    BY <1>4, <1>6, BareStatuses DEF Send
  <2>3. cause' = [ cause EXCEPT ![r] = Blamed(f.node, unreachable_owner) ]
    BY <1>1, <2>1, <2>2, MadeResults DEF Blame, BlameVia, Blamed
  <2>4. PICK g \in Frames :
           /\ Still(Top(r), g) /\ g.at = "relaying" /\ g.res = Err(unreachable_owner)
           /\ frames' = [ frames EXCEPT ![r] = [ frames[r] EXCEPT ![Depth(r)] = g ] ]
    BY <1>1, <2>1, <2>2, ToldIs
  <2>5. Trailed(r) /\ (Loads(r) => Silent(r)')
    BY <1>1, <2>2, NoAudit DEF Trailed, TypeOK, Records
  <2>6. PICK c \in Causes : /\ c.env = unreachable_owner /\ Span(c) = Top(r).node
                             /\ cause' = [ cause EXCEPT ![r] = c ]
    BY <1>2, <1>3, <2>1, <2>3, BlamedIs, ZenonT(60)
  <2>7. PICK env \in Envelope : env = unreachable_owner
    BY <2>1
  <2> QED
    BY <1>1, <2>1, <2>4, <2>5, <2>6, <2>7, ToldKeeps
<1>7. CASE f.to \in up /\ identity_of(f.to, with_identity(f)).ok
  <2>1. PICK id : id = identity_of(f.to, with_identity(f))
    OBVIOUS
  <2>2. id.who \in { "claimed", "verified" } /\ id.bearer \in { None, "good" } /\ id.ok
        /\ id = identity_of(Top(r).to, with_identity(Top(r)))
    BY <1>2, <1>7, <2>1 DEF identity_of
  <2>3. /\ frames' = [ frames EXCEPT ![r] =
                         Append([ frames[r] EXCEPT ![Depth(r)].at = "waiting" ],
                                Handler(f.to, OnTheWire(f.op), "resolving", id.who, id.bearer)) ]
        /\ UNCHANGED << trail, cause >>
    BY <1>4, <1>7, <2>1 DEF Send
  <2> DEFINE g == [ f EXCEPT !.at = "waiting" ]
             h == Handler(f.to, OnTheWire(f.op), "resolving", id.who, id.bearer)
  <2>4. g \in Frames /\ Still(f, g) /\ g.at = "waiting"
    BY DEF Frames, Places, Still
  <2>5. OnTheWire(f.op) \in Operations /\ "resolving" \in Places
    BY DEF OnTheWire, Frames, Operations, Streamed, Places
  <2>6. /\ h \in Frames /\ h.node = f.to /\ h.op = OnTheWire(f.op) /\ h.at = "resolving"
        /\ h.who = id.who /\ h.to = None
    <3> HIDE DEF g
    <3> QED
      BY <1>3, <2>2, <2>5, HandlerIs
  <2>7. frames' = [ frames EXCEPT ![r] = Append([ frames[r] EXCEPT ![Depth(r)] = g ], h) ]
    BY <1>2, <2>3
  <2> HIDE DEF g, h
  <2>8. PICK gg \in Frames, hh \in Frames :
          /\ gg.at = "waiting" /\ gg.node = Top(r).node /\ gg.op = Top(r).op /\ gg.who = Top(r).who
          /\ gg.to = Top(r).to /\ gg.left = Top(r).left
          /\ hh.node = Top(r).to /\ hh.op = OnTheWire(Top(r).op) /\ hh.at = "resolving"
          /\ hh.who = id.who /\ hh.to = None
          /\ frames' = [ frames EXCEPT ![r] = Append([ frames[r] EXCEPT ![Depth(r)] = gg ], hh) ]
    BY <1>2, <2>4, <2>6, <2>7 DEF Still
  <2>9. UNCHANGED << conf, row, up, client, ask, engine, trail, answer, cause, faults >>
    BY <2>3
  <2> QED
    BY <1>1, <2>2, <2>8, <2>9, SentKeeps
<1>8. CASE f.to \in up /\ ~ identity_of(f.to, with_identity(f)).ok
  <2>1. PICK env \in Envelope : env = for_kind("Unauthenticated") /\ env.kind = "Unauthenticated"
    <3>1. "Unauthenticated" \in ErrorKind
      BY DEF ErrorKind
    <3> QED
      BY <3>1, ForKindIsEnvelope
  <2>2. /\ frames' = [ frames EXCEPT ![r][Depth(r)].at = "relaying", ![r][Depth(r)].res = Err(env) ]
        /\ BlameVia(r, f.to, f.node, Err(env)) /\ audit(r, f.to, OnTheWire(f.op), "claimed", FALSE)
    BY <1>4, <1>8, <2>1, BareStatuses DEF Send
  <2>3. PICK c \in Causes : /\ c.env = env /\ Span(c) = Top(r).node
                             /\ cause' = [ cause EXCEPT ![r] = c ]
    <3> DEFINE d == [ node |-> f.to, by |-> f.node, env |-> env ]
    <3>1. d \in Causes /\ d.env = env /\ Span(d) = f.node
      BY <1>3, <2>1 DEF Causes, Span
    <3>2. cause' = [ cause EXCEPT ![r] = d ]
      BY <1>1, <2>2, MadeResults DEF BlameVia
    <3> HIDE DEF d
    <3> QED
      BY <1>2, <3>1, <3>2
  <2>4. PICK g \in Frames :
           /\ Still(Top(r), g) /\ g.at = "relaying" /\ g.res = Err(env)
           /\ frames' = [ frames EXCEPT ![r] = [ frames[r] EXCEPT ![Depth(r)] = g ] ]
    BY <1>1, <2>2, ToldIs
  <2>5. OnTheWire(f.op) \in Operations
    BY DEF OnTheWire, Frames, Operations, Streamed
  <2>6. /\ Trailed(r)
        /\ Silent(r) /\ OfRequest(r, OnTheWire(f.op)) => OnlyError(r)'
        /\ Silent(r) /\ ~ OfRequest(r, OnTheWire(f.op)) => Silent(r)'
    BY <1>3, <2>2, <2>5, AuditDoes
  <2>7. ask[r].op # "load_dataset" => OfRequest(r, OnTheWire(f.op))
    BY <1>2, <1>3 DEF FrameInv, OfRequest, OnTheWire
  <2>8. Loads(r) => ask[r].op = "load_dataset" /\ ~ OfRequest(r, OnTheWire(f.op))
    <3>1. ask[r].op = "load_dataset" => ~ OfRequest(r, OnTheWire(f.op))
      BY <1>2, <1>3 DEF FrameInv, OfRequest, OnTheWire
    <3> QED
      BY <1>1, <3>1, FirstOnly
  <2>9. Loads(r) => Silent(r)'
    BY <1>1, <2>6, <2>8
  <2>10. ask[r].op # "load_dataset" => OnlyError(r)'
    BY <1>1, <2>6, <2>7
  <2>11. env.kind \notin CutKinds
    BY <2>1 DEF CutKinds
  <2> QED
    BY <1>1, <2>3, <2>4, <2>6, <2>9, <2>10, <2>11, ToldKeeps
<1> QED
  BY <1>6, <1>7, <1>8

\* A step that none of this depends on.
LEMMA NothingChanged ==
  ASSUME TypeOK, NEW r \in Requests, ReqInv(r), row' \in [ Requests -> Rows \cup { None } ], faults' \in Nat,
         UNCHANGED << conf, up, client, ask, frames, engine, trail, answer, cause >>
  PROVE  Kept(r)
<1>1. UNCHANGED << call, tail, inflight, gauge, ran >>
  BY DEF engine
<1>2. TypeOK'
  BY <1>1 DEF TypeOK
<1>3. \A q \in Requests : Same(q)
  BY <1>1 DEF Same
<1> QED
  BY <1>2, <1>3, SameKeeps DEF Kept

\* The registry's answer.
LEMMA PondInfoKeeps ==
  ASSUME TypeOK, NEW r \in Requests, ReqInv(r), pond_info_audited(r)
  PROVE  Kept(r)
<1>1. Busy(r) /\ Top(r).at = "resolving" /\ UNCHANGED << world, client, ask >>
      /\ StackInv(r) /\ JoinInv(r) /\ RanInv(r) /\ CauseInv(r) /\ TrailInv(r)
  BY DEF pond_info_audited, Busy, ReqInv
<1>2. CASE Refused(r, Top(r), status_err(to_status_traced("PondNotFound", r)))
  <2>1. PICK env \in Envelope : env = status_err(to_status_traced("PondNotFound", r)) /\ env.kind \notin CutKinds
    BY ControlErrors
  <2> QED
    BY <1>1, <1>2, <2>1, RefusedKeeps
<1>3. CASE Refused(r, Top(r), status_err(Status("Unavailable", None)))
  <2>1. PICK env \in Envelope : env = status_err(Status("Unavailable", None)) /\ env.kind \notin CutKinds
    <3>1. status_err(Status("Unavailable", None)) = for_kind("Internal")
      BY DEF status_err, Status
    <3> QED
      BY <3>1, ForKindIsEnvelope DEF ErrorKind, CutKinds
  <2> QED
    BY <1>1, <1>3, <2>1, RefusedKeeps
<1>4. CASE /\ row[r] # None
           /\ frames' = [ frames EXCEPT ![r][Depth(r)].at = "routing", ![r][Depth(r)].info = row[r] ]
           /\ UNCHANGED << engine, trail, answer, cause, faults >>
  <2>1. PICK f \in Frames : f = Top(r) /\ f = frames[r][Depth(r)] /\ FrameInv(r, Depth(r))
    BY <1>1, TopIs
  <2>2. f.at = "resolving" /\ f.op \notin Registry \cup { "load_dataset" } /\ f.to = None
    BY <1>1, <2>1 DEF FrameInv
  <2> DEFINE h == [ f EXCEPT !.at = "routing", !.info = row[r] ]
  <2>3. h \in Frames /\ Still(f, h) /\ h.at = "routing"
    <3>1. row[r] \in Rows \cup { None }
      BY DEF TypeOK
    <3> QED
      BY <3>1 DEF Frames, Places, Still
  <2>4. frames' = [ frames EXCEPT ![r] = [ frames[r] EXCEPT ![Depth(r)] = h ] ]
    <3>1. /\ frames \in [ Requests -> Seq(Frames) ] /\ frames[r] \in Seq(Frames)
          /\ Depth(r) \in 1 .. Len(frames[r])
      BY <1>1, TopIs DEF TypeOK, Depth
    <3> QED
      BY <1>4, <2>1, <3>1
  <2> HIDE DEF h
  <2>5. PICK g \in Frames : /\ Still(Top(r), g) /\ g.at = "routing"
                            /\ frames' = [ frames EXCEPT ![r] = [ frames[r] EXCEPT ![Depth(r)] = g ] ]
    BY <2>1, <2>3, <2>4
  <2>6. conf' = conf /\ client'[r] = client[r] /\ ask'[r] = ask[r] /\ answer'[r] = answer[r]
    BY <1>1, <1>4 DEF world
  <2>7. /\ frames' \in [ Requests -> Seq(Frames) ]
        /\ \A q \in Requests \ { r } : frames'[q] = frames[q]
        /\ StackInv(r)' /\ Busy(r)' /\ Top(r)' = g
        /\ Loads(r)' <=> Loads(r)
        /\ Loads(r) => frames'[r][1].left = frames[r][1].left
    BY <1>1, <2>1, <2>2, <2>5, <2>6, TopMoves DEF Still
  <2>8. /\ UNCHANGED << conf, row, up, client, ask, engine, trail, answer, cause, faults >>
        /\ cause[r] = None /\ call[r].op \notin Streamed /\ Len(ran[r]) < Need(r)
        /\ Silent(r) \/ (ask[r].op = "load_dataset" /\ ~ Loads(r))
    BY <1>1, <1>4 DEF world, CauseInv, JoinInv, RanInv, TrailInv, Early
  <2>9. Loads(r) => Len(ran[r]) = Sofar(r)'
    BY <1>1, <2>7 DEF RanInv, Sofar
  <2> QED
    BY <1>1, <2>5, <2>7, <2>8, <2>9, EarlyKeeps
<1> QED
  BY <1>2, <1>3, <1>4 DEF pond_info_audited

\* The way it names.
LEMMA RouteKeeps ==
  ASSUME TypeOK, NEW r \in Requests, ReqInv(r), LookupInv(r), Route(r)
  PROVE  Kept(r)
<1>1. Busy(r) /\ Top(r).at = "routing" /\ StackInv(r) /\ Top(r).info # None
      /\ UNCHANGED << world, client, ask >>
  BY DEF Route, Busy, ReqInv, LookupInv
<1>3. CASE placement(Top(r).node, Top(r).info) = "NoOwner"
  <2>1. Refused(r, Top(r), pond_unavailable)
    BY <1>3 DEF Route
  <2>2. PICK env \in Envelope : env = pond_unavailable /\ env.kind \notin CutKinds
    BY OwnErrors
  <2> QED
    BY <1>1, <2>1, <2>2, RefusedKeeps
<1>4. CASE placement(Top(r).node, Top(r).info) = "Local"
  <2>1. Launch(r, Top(r)) \/ StorageFails(r, Top(r))
    BY <1>4 DEF Route
  <2> QED
    BY <1>1, <1>4, <2>1, LaunchKeeps, StorageFailsKeeps
<1>5. CASE placement(Top(r).node, Top(r).info) \notin { "NoOwner", "Local" }
  <2>1. PICK f \in Frames : f = Top(r) /\ f = frames[r][Depth(r)]
    BY <1>1, TopIs
  <2>2. f.info.at \in Nodes
    <3>1. f.info \in [ id : Nodes \cup { None }, at : Nodes \cup { None } ]
      BY <1>1, <2>1, PathAssumption DEF Frames
    <3> QED
      BY <1>5, <2>1, <3>1 DEF placement
  <2> DEFINE h == [ f EXCEPT !.at = "dialling", !.to = f.info.at ]
  <2>3. /\ h \in Frames /\ h.node = f.node /\ h.op = f.op /\ h.who = f.who
        /\ h.at = "dialling" /\ h.to = f.info.at
    BY <2>2 DEF Frames, Places
  <2>4. /\ frames' = [ frames EXCEPT ![r] = [ frames[r] EXCEPT ![Depth(r)] = h ] ]
        /\ UNCHANGED << engine, trail, answer, cause, faults >>
    <3>1. /\ frames' = [ frames EXCEPT ![r][Depth(r)].at = "dialling",
                                       ![r][Depth(r)].to = f.info.at ]
          /\ UNCHANGED << engine, trail, answer, cause, faults >>
      BY <1>5, <2>1 DEF Route
    <3>2. /\ frames \in [ Requests -> Seq(Frames) ] /\ frames[r] \in Seq(Frames)
          /\ Depth(r) \in 1 .. Len(frames[r])
      BY <1>1, TopIs DEF TypeOK, Depth
    <3> QED
      BY <2>1, <3>1, <3>2
  <2> HIDE DEF h
  <2>5. PICK g \in Frames :
          /\ g.node = Top(r).node /\ g.op = Top(r).op /\ g.who = Top(r).who
          /\ g.at = "dialling" /\ g.to = Top(r).info.at
          /\ frames' = [ frames EXCEPT ![r] = [ frames[r] EXCEPT ![Depth(r)] = g ] ]
    BY <2>1, <2>3, <2>4
  <2>6. UNCHANGED << world, client, ask, engine, trail, answer, cause, faults >>
    BY <1>1, <2>4
  <2> QED
    BY <1>1, <1>5, <2>5, <2>6, DialKeeps
<1> QED
  BY <1>3, <1>4, <1>5

\* The channels.
LEMMA ForwarderKeeps ==
  ASSUME TypeOK, NEW r \in Requests, ReqInv(r), CachedClient(r) \/ Connect(r) \/ Connected(r)
  PROVE  Kept(r)
<1>1. CASE CachedClient(r)
  <2>1. Dialling(r) /\ Send(r, Top(r)) /\ UNCHANGED << conf, row, up, client, ask, engine, answer, faults >>
    BY <1>1 DEF CachedClient, world
  <2> QED
    BY <2>1, SendKeeps
<1>2. CASE Connect(r)
  <2>1. UNCHANGED << conf, row, up, client, ask, frames, engine, trail, answer, cause, faults >>
    BY <1>2 DEF Connect
  <2>2. row' \in [ Requests -> Rows \cup { None } ] /\ faults' \in Nat
    BY <2>1 DEF TypeOK
  <2> QED
    BY <2>1, <2>2, NothingChanged
<1>3. CASE Connected(r)
  <2>1. Dialling(r) /\ Send(r, Top(r)) /\ UNCHANGED << conf, row, up, client, ask, engine, answer, faults >>
    BY <1>3 DEF Connected
  <2> QED
    BY <2>1, SendKeeps
<1> QED
  BY <1>1, <1>2, <1>3
-----------------------------------------------------------------------------
(* A read that is collected, and the writes of a load_dataset. *)

\* The first batches are there, and the handler goes on to collect the rest.
LEMMA CollectsKeeps ==
  ASSUME TypeOK, NEW r \in Requests, ReqInv(r), Busy(r), Top(r).op = "read_query",
         Move(r, "collecting"), Ran(r), Len(ran[r]) = 1,
         call[r].op \in Streamed, call[r].st # "none",
         Top(r).to = None => call[r].node = Top(r).node /\ call[r].st # "dead" /\ Silent(r),
         Top(r).to # None => OnlyOk(r, call[r].node),
         UNCHANGED << conf, row, up, client, ask, engine, trail, answer, cause, faults >>
  PROVE  Kept(r)
<1>1. StackInv(r) /\ CallInv(r) /\ JoinInv(r) /\ RanInv(r) /\ CauseInv(r) /\ CutInv(r)
  BY DEF ReqInv
<1>2. UNCHANGED << call, tail, inflight, gauge, ran >> /\ answer'[r] = None /\ faults' \in Nat
      /\ client'[r] = client[r] /\ ask'[r] = ask[r] /\ answer'[r] = answer[r] /\ cause'[r] = cause[r]
  BY <1>1 DEF engine, StackInv, TypeOK
<1>3. PICK g \in Frames :
        /\ Still(Top(r), g) /\ g.at = "collecting"
        /\ frames' = [ frames EXCEPT ![r] = [ frames[r] EXCEPT ![Depth(r)] = g ] ]
  <2>1. "collecting" \in Places
    BY DEF Places
  <2> DEFINE h == [ Top(r) EXCEPT !.at = "collecting" ]
  <2>2. /\ h \in Frames /\ Still(Top(r), h) /\ h.at = "collecting"
        /\ frames' = [ frames EXCEPT ![r] = [ frames[r] EXCEPT ![Depth(r)] = h ] ]
    BY <1>1, <2>1, MoveIs
  <2> HIDE DEF h
  <2> QED
    BY <2>2
<1>4. g.op \notin Registry \cup { "load_dataset" } /\ g.op = "read_query"
  BY <1>3 DEF Still, Registry
<1>5. /\ frames' \in [ Requests -> Seq(Frames) ]
      /\ \A q \in Requests \ { r } : frames'[q] = frames[q]
      /\ StackInv(r)' /\ Busy(r)' /\ Top(r)' = g
      /\ Loads(r)' <=> Loads(r)
  BY <1>1, <1>2, <1>3, <1>4, TopMoves DEF Still
<1>6. TypeOK' /\ \A q \in Requests \ { r } : Same(q)
  <2>1. FramesFor(r) /\ EngineFor(r) /\ Trailed(r)
    BY <1>2, <1>5 DEF FramesFor, EngineFor, Trailed, TypeOK, Records
  <2> QED
    BY <1>2, <2>1, StepFor
<1>7. Depth(r) = 1 /\ ask[r].op = "read_query" /\ ~ Loads(r)
  BY <1>1, FirstOnly
<1>8. CallInv(r)'
  BY <1>1, <1>2, <1>5 DEF CallInv, Timed, Counted, OnTheWire
<1>9. Top(r)'.at = "collecting" /\ Top(r)'.to = Top(r).to /\ Top(r)'.node = Top(r).node
  BY <1>3, <1>5 DEF Still
<1>10. JoinInv(r)'
  BY <1>1, <1>2, <1>9 DEF JoinInv, Early
<1>11. RanInv(r)'
  <2>1. Need(r)' = Need(r) /\ Top(r)'.at \notin Early
    BY <1>2, <1>9 DEF Need, Early
  <2> QED
    BY <1>1, <1>2, <1>5, <1>7, <2>1 DEF RanInv
<1>12. CauseInv(r)' /\ CutInv(r)'
  <2>1. IF tail[r] # None /\ ~ tail[r].ok THEN Rooted(r, tail[r].env, call[r].node) ELSE cause[r] = None
    BY <1>1 DEF CauseInv
  <2>2. Rooted(r, tail[r].env, call[r].node)' <=> Rooted(r, tail[r].env, call[r].node)
    BY <1>2 DEF Rooted, Traces, Stamped, Span
  <2> QED
    BY <1>1, <1>2, <1>9, <2>1, <2>2 DEF CauseInv, CutInv, Named, Early
<1>13. TrailInv(r)'
  <2>1. IF Top(r)'.to = None THEN Silent(r)' ELSE OnlyOk(r, call[r].node)'
    <3>1. PICK n : n = call[r].node
      OBVIOUS
    <3>2. call'[r].node = n
      BY <1>2, <3>1
    <3>3. OnlyOk(r, n) => OnlyOk(r, n)'
      BY <1>2, NoAudit
    <3>4. Silent(r) => Silent(r)'
      BY <1>2, NoAudit
    <3> QED
      BY <1>9, <3>1, <3>2, <3>3, <3>4
  <2> QED
    BY <1>2, <1>5, <1>7, <1>9, <2>1 DEF TrailInv, Early
<1> QED
  BY <1>5, <1>6, <1>8, <1>10, <1>11, <1>12, <1>13 DEF Kept, ReqInv

\* A relayed result, or the hop's stream.
LEMMA RelayKeeps ==
  ASSUME TypeOK, NEW r \in Requests, ReqInv(r), Relay(r)
  PROVE  Kept(r)
<1>1. Busy(r) /\ Top(r).at = "relaying" /\ Top(r).op # "load_dataset" /\ StackInv(r)
      /\ UNCHANGED << world, client, ask, engine, trail, faults >>
  BY DEF Relay, Busy, ReqInv
<1>2. CASE ~ (Top(r).op = "read_query" /\ Top(r).res.ok)
  <2>1. Return(r, Top(r).res)
    BY <1>2 DEF Relay
  <2> QED
    BY <1>1, <2>1, RelayReturns
<1>3. CASE Top(r).op = "read_query" /\ Top(r).res.ok
  <2>1. Move(r, "collecting") /\ UNCHANGED << conf, row, up, client, ask, engine, trail, answer, cause, faults >>
    BY <1>1, <1>3 DEF Relay, world
  <2>2. Top(r).to \in Nodes
    BY <1>1, TopIs DEF FrameInv
  <2>3. ask[r].op = "read_query"
    BY <1>1, <1>3, FirstOnly
  <2>4. Ran(r) /\ Len(ran[r]) = 1
    BY <1>1, <1>3, <2>3 DEF ReqInv, RanInv, Ran
  <2>5. OnlyOk(r, Top(r).res.by) /\ Top(r).res.by = call[r].node
    BY <1>1, <1>3, <2>3 DEF ReqInv, TrailInv
  <2>6. OnlyOk(r, call[r].node) /\ call[r].node \in Nodes
    <3>1. PICK i \in DOMAIN trail[r] : trail[r][i].node = call[r].node
      BY <2>5 DEF OnlyOk
    <3>2. trail[r] \in Seq([ node : Nodes, op : Operations, who : { "claimed", "verified" }, ok : BOOLEAN ])
      BY DEF TypeOK
    <3>3. trail[r][i] \in [ node : Nodes, op : Operations, who : { "claimed", "verified" }, ok : BOOLEAN ]
      <4>1. i \in 1 .. Len(trail[r])
        BY <3>1, <3>2, LenProperties
      <4> QED
        BY <3>2, <4>1, ElementOfSeq
    <3> QED
      BY <2>5, <3>1, <3>3
  <2>7. call[r].st # "none" /\ call[r].op \in Streamed
    <3>1. call[r].st # "none"
      BY <2>6, PathAssumption DEF ReqInv, CallInv
    <3> QED
      BY <2>3, <3>1 DEF ReqInv, CallInv, OnTheWire, Streamed
  <2>8. Top(r).to # None
    BY <2>2, PathAssumption
  <2> QED
    BY <1>1, <1>3, <2>1, <2>4, <2>6, <2>7, <2>8, CollectsKeeps
<1> QED
  BY <1>2, <1>3

\* The schema, or the error in its place.
LEMMA EstablishedKeeps ==
  ASSUME TypeOK, NEW r \in Requests, ReqInv(r), Established(r)
  PROVE  Kept(r)
<1>1. CASE ~ (Top(r).op = "read_query" /\ ~ (call[r].st = "closed" /\ ~ call[r].flowed))
  BY <1>1, EstablishedReturns
<1>2. CASE Top(r).op = "read_query" /\ ~ (call[r].st = "closed" /\ ~ call[r].flowed)
  <2>1. /\ Busy(r) /\ Top(r).at = "running" /\ StackInv(r)
        /\ Move(r, "collecting") /\ UNCHANGED << conf, row, up, client, ask, engine, trail, answer, cause, faults >>
    BY <1>2 DEF Established, Waits, Busy, world, ReqInv
  <2>2. ask[r].op = "read_query"
    BY <1>2, <2>1, FirstOnly
  <2>3. Ran(r) /\ Len(ran[r]) = 1
    BY <2>1, <2>2 DEF ReqInv, RanInv, Ran, Serving
  <2>4. call[r].node = Top(r).node /\ call[r].op \in Streamed /\ call[r].st \notin { "none", "dead" }
    BY <1>2, <2>1 DEF ReqInv, JoinInv, Streamed
  <2>5. Silent(r) /\ Top(r).to = None
    <3>1. Silent(r)
      BY <2>1, <2>2 DEF ReqInv, TrailInv
    <3>2. Top(r).to = None
      BY <2>1, TopIs DEF FrameInv
    <3> QED
      BY <3>1, <3>2
  <2> QED
    BY <1>2, <2>1, <2>3, <2>4, <2>5, CollectsKeeps
<1> QED
  BY <1>1, <1>2

\* A load_dataset waits for a write, with `left' of them to go.
Pushes(r, left) ==
  frames' = [ frames EXCEPT ![r] =
                Append([ @ EXCEPT ![1].at = "waiting", ![1].left = left ],
                       Handler(Top(r).node, "write_query", "resolving", Top(r).who, Top(r).bearer)) ]

\* The write that is pushed.
LEMMA LoadPushIs ==
  ASSUME TypeOK, NEW r \in Requests, Busy(r), StackInv(r), Depth(r) = 1,
         NEW left \in 1 .. Tables + 1, Pushes(r, left)
  PROVE  \E g \in Frames, h \in Frames :
           /\ g.node = Top(r).node /\ g.op = Top(r).op /\ g.who = Top(r).who /\ g.at = "waiting"
           /\ g.left = left
           /\ h.node = Top(r).node /\ h.op = "write_query" /\ h.at = "resolving" /\ h.who = Top(r).who
           /\ h.to = None
           /\ frames' = [ frames EXCEPT ![r] = Append([ frames[r] EXCEPT ![Depth(r)] = g ], h) ]
<1>1. PICK f \in Frames : f = Top(r) /\ f = frames[r][1]
  BY TopIs
<1> DEFINE u == [ f EXCEPT !.at = "waiting", !.left = left ]
           v == Handler(f.node, "write_query", "resolving", f.who, f.bearer)
<1>2. left \in Int
  BY PathAssumption
<1>3. /\ u \in Frames /\ u.node = f.node /\ u.op = f.op /\ u.who = f.who
      /\ u.at = "waiting" /\ u.left = left
  BY <1>2 DEF Frames, Places
<1>4. /\ f.node \in Nodes /\ f.who \in { "claimed", "verified" } /\ f.bearer \in { None, "good" }
      /\ "write_query" \in Operations /\ "resolving" \in Places
  BY DEF Frames, Operations, Places
<1>5. /\ v \in Frames /\ v.node = f.node /\ v.op = "write_query" /\ v.at = "resolving"
      /\ v.who = f.who /\ v.to = None
  <2> HIDE DEF u
  <2> QED
    BY <1>4, HandlerIs
<1>6. frames' = [ frames EXCEPT ![r] = Append([ frames[r] EXCEPT ![Depth(r)] = u ], v) ]
  <2>1. /\ frames \in [ Requests -> Seq(Frames) ] /\ frames[r] \in Seq(Frames)
        /\ 1 \in 1 .. Len(frames[r])
    BY TopIs DEF TypeOK, Depth
  <2>2. [ frames[r] EXCEPT ![1].at = "waiting", ![1].left = left ] = [ frames[r] EXCEPT ![1] = u ]
    BY <1>1, <2>1
  <2> HIDE DEF u, v
  <2> QED
    BY <1>1, <2>1, <2>2 DEF v, Pushes
<1> HIDE DEF u, v
<1>7. u \in Frames /\ v \in Frames
  BY <1>3, <1>5
<1> USE <1>7
<1> WITNESS u \in Frames, v \in Frames
<1> QED
  BY <1>1, <1>3, <1>5, <1>6

\* With `left' to go, the others have been started.
Written(r, left) == Len(ran[r]) = Tables + 1 - left

\* A load_dataset runs writes and nothing else.
LEMMA WritesAlone ==
  ASSUME NEW r \in Requests, ReqInv(r), ask[r].op = "load_dataset"
  PROVE  call[r].op \notin Streamed /\ tail[r] = None
<1>1. call[r].op \in { None, "write_query" }
  BY DEF ReqInv, CallInv
<1>2. call[r].op \notin Streamed
  BY <1>1, PathAssumption DEF Streamed
<1> QED
  BY <1>2 DEF ReqInv, JoinInv

\* The next write of a load_dataset.
LEMMA LoadStepKeeps ==
  ASSUME TypeOK, NEW r \in Requests, ReqInv(r), Busy(r), cause[r] = None,
         Top(r).op = "load_dataset", NEW left \in 1 .. Tables + 1, Written(r, left),
         NEW g \in Frames, NEW h \in Frames,
         g.node = Top(r).node, g.op = Top(r).op, g.who = Top(r).who, g.at = "waiting", g.left = left,
         h.node = Top(r).node, h.op = "write_query", h.at = "resolving", h.who = Top(r).who, h.to = None,
         frames' = [ frames EXCEPT ![r] = Append([ frames[r] EXCEPT ![Depth(r)] = g ], h) ],
         UNCHANGED << conf, row, up, client, ask, engine, trail, answer, cause, faults >>
  PROVE  Kept(r)
<1>1. StackInv(r) /\ TrailInv(r)
  BY DEF ReqInv
<1>2. PICK f \in Frames : f = Top(r) /\ FrameInv(r, Depth(r)) /\ f = frames[r][Depth(r)]
  BY <1>1, TopIs
<1>3. ask[r].op = "load_dataset" /\ Silent(r) /\ Loads(r)
  BY <1>1, FirstOnly DEF TrailInv
<1>5. /\ g.op \notin Registry /\ g.op = "load_dataset" /\ h.node = g.node /\ g.left \in 1 .. Tables + 1
      /\ IF ask[r].op = "load_dataset" THEN h.op = "write_query" ELSE OfRequest(r, h.op)
      /\ h.op \notin Registry \cup { "load_dataset", "read_query" }
      /\ h.node \in conf.auth => h.who = "verified"
  BY <1>2, <1>3 DEF Registry, FrameInv
<1>6. conf' = conf /\ client'[r] = client[r] /\ ask'[r] = ask[r] /\ answer'[r] = answer[r]
  OBVIOUS
<1>7. /\ frames' \in [ Requests -> Seq(Frames) ]
      /\ \A q \in Requests \ { r } : frames'[q] = frames[q]
      /\ StackInv(r)' /\ Busy(r)' /\ Top(r)' = h
      /\ Loads(r)' <=> Loads(r)
      /\ frames'[r][1].left = IF Depth(r) = 1 THEN g.left ELSE frames[r][1].left
  BY <1>1, <1>5, <1>6, HandlerAdded, ZenonT(60)
<1>4. Depth(r) = 1
  BY <1>1, FirstOnly
<1>8. Len(ran[r]) < Need(r) /\ Len(ran[r]) = Sofar(r)'
  <2>1. Len(ran[r]) = Tables + 1 - left /\ Tables \in Nat
    BY PathAssumption DEF Written
  <2>2. Sofar(r)' = Tables + 1 - left
    BY <1>4, <1>7 DEF Sofar
  <2>3. Need(r) = Tables + 1
    BY <1>3 DEF Need
  <2>4. Tables + 1 - left < Tables + 1
    <3>1. left \in Int /\ left >= 1 /\ Tables \in Int
      BY PathAssumption
    <3> QED
      BY <3>1
  <2> QED
    BY <2>1, <2>2, <2>3, <2>4
<1>9. call[r].op \notin Streamed
  BY <1>3, WritesAlone
<1> QED
  BY <1>3, <1>7, <1>8, <1>9, EarlyKeeps

\* The first write, or no such dataset.
LEMMA LoadBeginsKeeps ==
  ASSUME TypeOK, NEW r \in Requests, ReqInv(r), LoadBegins(r)
  PROVE  Kept(r)
<1>1. Busy(r) /\ Top(r).at = "loading" /\ StackInv(r)
      /\ UNCHANGED << world, client, ask, engine, faults >>
  BY DEF LoadBegins, Busy, ReqInv
<1>2. CASE audit(r, Top(r).node, Top(r).op, Top(r).who, FALSE)
           /\ Return(r, Err(status_err(to_status_traced("DatasetNotFound", r))))
  BY <1>1, <1>2, LoadMissingKeeps
<1>3. CASE Pushes(r, Tables + 1) /\ UNCHANGED << trail, answer, cause >>
  <2>1. Top(r).op = "load_dataset"
    BY <1>1, TopIs DEF FrameInv
  <2>2. Depth(r) = 1 /\ Loads(r)
    BY <1>1, <2>1, FirstOnly
  <2>3. cause[r] = None /\ ran[r] = << >>
    BY <1>1, <2>2 DEF ReqInv, CauseInv, RanInv, Early
  <2>4. PICK left \in 1 .. Tables + 1 : left = Tables + 1 /\ Pushes(r, left)
    BY <1>3, PathAssumption
  <2>5. Written(r, left)
    <3>1. Len(ran[r]) = 0
      BY <2>3
    <3> QED
      BY <2>4, <3>1, PathAssumption DEF Written
  <2>6. PICK g \in Frames, h \in Frames :
           /\ g.node = Top(r).node /\ g.op = Top(r).op /\ g.who = Top(r).who /\ g.at = "waiting"
           /\ g.left = left
           /\ h.node = Top(r).node /\ h.op = "write_query" /\ h.at = "resolving" /\ h.who = Top(r).who
           /\ h.to = None
           /\ frames' = [ frames EXCEPT ![r] = Append([ frames[r] EXCEPT ![Depth(r)] = g ], h) ]
    BY <1>1, <2>2, <2>4, LoadPushIs
  <2>7. UNCHANGED << conf, row, up, client, ask, engine, trail, answer, cause, faults >>
    BY <1>1, <1>3 DEF world
  <2> QED
    BY <1>1, <2>1, <2>3, <2>5, <2>6, <2>7, LoadStepKeeps
<1> QED
  BY <1>2, <1>3 DEF LoadBegins, Pushes

\* The next write, or the end.
LEMMA LoadGoesOnKeeps ==
  ASSUME TypeOK, NEW r \in Requests, ReqInv(r), LoadGoesOn(r)
  PROVE  Kept(r)
<1>1. Busy(r) /\ Top(r).at = "relaying" /\ Top(r).op = "load_dataset" /\ StackInv(r)
      /\ UNCHANGED << world, client, ask, engine, faults >>
  BY DEF LoadGoesOn, Busy, ReqInv
<1>2. CASE ~ (Top(r).res.ok /\ Top(r).left > 1)
  <2>1. audit(r, Top(r).node, Top(r).op, Top(r).who, outcome(Top(r).res))
        /\ Return(r, IF Top(r).res.ok THEN Ok(Top(r).node) ELSE Top(r).res)
    BY <1>2 DEF LoadGoesOn
  <2> QED
    BY <1>1, <1>2, <2>1, LoadEndsKeeps
<1>3. CASE Top(r).res.ok /\ Top(r).left > 1
  <2>1. Depth(r) = 1 /\ Loads(r) /\ frames[r][1] = Top(r)
    BY <1>1, FirstOnly, TopIs
  <2>2. cause[r] = None /\ Len(ran[r]) = Sofar(r) + 1
    <3>1. Ran(r) /\ ask[r].op = "load_dataset"
      BY <1>1, <1>3, FirstOnly DEF Ran
    <3>2. tail[r] = None
      BY <3>1, WritesAlone
    <3> QED
      BY <1>1, <2>1, <3>1, <3>2 DEF ReqInv, CauseInv, RanInv
  <2>3. Top(r).left \in 1 .. Tables + 1
    BY <1>1, TopIs DEF FrameInv
  <2>4. PICK left \in 1 .. Tables + 1 : left = Top(r).left - 1
    BY <1>3, <2>3, PathAssumption
  <2>5. Written(r, left)
    BY <2>1, <2>2, <2>3, <2>4, PathAssumption DEF Written, Sofar
  <2>6. Pushes(r, left) /\ UNCHANGED << trail, answer, cause >>
    BY <1>3, <2>4 DEF LoadGoesOn, Pushes
  <2>7. PICK g \in Frames, h \in Frames :
           /\ g.node = Top(r).node /\ g.op = Top(r).op /\ g.who = Top(r).who /\ g.at = "waiting"
           /\ g.left = left
           /\ h.node = Top(r).node /\ h.op = "write_query" /\ h.at = "resolving" /\ h.who = Top(r).who
           /\ h.to = None
           /\ frames' = [ frames EXCEPT ![r] = Append([ frames[r] EXCEPT ![Depth(r)] = g ], h) ]
    BY <1>1, <2>1, <2>6, LoadPushIs
  <2>8. UNCHANGED << conf, row, up, client, ask, engine, trail, answer, cause, faults >>
    BY <1>1, <2>6 DEF world
  <2> QED
    BY <1>1, <2>2, <2>5, <2>7, <2>8, LoadStepKeeps
<1> QED
  BY <1>2, <1>3

\* A step of a handler.
LEMMA HandlerKeeps ==
  ASSUME TypeOK, NEW r \in Requests, ReqInv(r), LookupInv(r), HandlerStep(r)
  PROVE  Kept(r)
<1>1. \A op \in Bare : JoinsBare(r, op) => Kept(r)
  BY JoinsBareKeeps
<1>2. describe_pond_local(r) \/ explain_query_local(r) \/ catalog_describe_local(r)
      \/ catalog_pull_local(r) \/ get_lineage_local(r) => Kept(r)
  BY <1>1 DEF Bare, describe_pond_local, explain_query_local, catalog_describe_local,
              catalog_pull_local, get_lineage_local
<1> QED
  BY <1>2, AskedAndRecorded, AskedUnrecorded, PondInfoKeeps, RouteKeeps, RefusesArgumentsKeeps, ForwarderKeeps,
     RelayKeeps, LoadBeginsKeeps, LoadGoesOnKeeps, JoinsKeeps, EstablishedKeeps, CollectedKeeps
     DEF HandlerStep, ControlStep, NodeStep
-----------------------------------------------------------------------------
(* Arrivals. *)

\* A request that has not come yet, and the step that brings it.
Comes(r, ask1) ==
  /\ client[r] = "idle" /\ client' = [ client EXCEPT ![r] = "waiting" ]
  /\ ask' = [ ask EXCEPT ![r] = ask1 ]
  /\ UNCHANGED << conf, row, up, engine, faults >>

\* Nothing has happened for it.
LEMMA Blank ==
  ASSUME TypeOK, NEW r \in Requests, ReqInv(r), NEW ask1 \in Requested, Comes(r, ask1)
  PROVE  /\ ~ Busy(r) /\ frames[r] = << >> /\ answer[r] = None /\ cause[r] = None
         /\ trail[r] = << >> /\ ran[r] = << >> /\ tail[r] = None /\ call[r].st = "none"
         /\ UNCHANGED << call, tail, inflight, gauge, ran >>
         /\ client' \in [ Requests -> { "idle", "absent", "waiting", "gone" } ]
         /\ ask' \in [ Requests -> Requested ] /\ faults' \in Nat
         /\ client'[r] = "waiting" /\ ask'[r] = ask1
         /\ \A q \in Requests \ { r } : client'[q] = client[q] /\ ask'[q] = ask[q]
         /\ EngineFor(r) /\ CallInv(r)'
<1>1. /\ ~ Busy(r) /\ answer[r] = None /\ cause[r] = None /\ trail[r] = << >> /\ ran[r] = << >>
      /\ call[r].st = "none" /\ tail[r] = None /\ ~ Timed(r)
  BY DEF Comes, ReqInv, StackInv
<1>2. UNCHANGED << call, tail, inflight, gauge, ran >>
  BY DEF Comes, engine
<1>3. /\ client' \in [ Requests -> { "idle", "absent", "waiting", "gone" } ]
      /\ ask' \in [ Requests -> Requested ] /\ faults' \in Nat
      /\ client'[r] = "waiting" /\ ask'[r] = ask1
      /\ \A q \in Requests \ { r } : client'[q] = client[q] /\ ask'[q] = ask[q]
  BY DEF Comes, TypeOK
<1>4. EngineFor(r)
  BY <1>2 DEF EngineFor, TypeOK
<1>5. CallInv(r)'
  <2>1. CallInv(r) /\ call'[r] = call[r] /\ inflight' = inflight /\ ~ call[r].cut /\ call[r].timer = "off"
        /\ \A n \in Nodes : r \notin inflight[n]
    BY <1>1, <1>2 DEF ReqInv, CallInv
  <2> QED
    BY <1>1, <2>1 DEF CallInv
<1> QED
  BY <1>1, <1>2, <1>3, <1>4, <1>5 DEF Busy

\* It is let in.
LEMMA EnterKeeps ==
  ASSUME TypeOK, NEW r \in Requests, ReqInv(r), NEW ask1 \in Requested, Comes(r, ask1),
         ask1.op \in Operations,
         NEW h \in Frames, h.op = ask1.op, h.at = FirstStep(ask1.op), h.to = None,
         h.node \in conf.auth => h.who = "verified",
         frames' = [ frames EXCEPT ![r] = << h >> ],
         UNCHANGED << trail, answer, cause >>
  PROVE  Kept(r)
<1>1. /\ ~ Busy(r) /\ frames[r] = << >> /\ answer[r] = None /\ cause[r] = None
      /\ trail[r] = << >> /\ ran[r] = << >> /\ tail[r] = None /\ call[r].st = "none"
      /\ UNCHANGED << call, tail, inflight, gauge, ran >>
      /\ client' \in [ Requests -> { "idle", "absent", "waiting", "gone" } ]
      /\ ask' \in [ Requests -> Requested ] /\ faults' \in Nat
      /\ client'[r] = "waiting" /\ ask'[r] = ask1
      /\ \A q \in Requests \ { r } : client'[q] = client[q] /\ ask'[q] = ask[q]
      /\ EngineFor(r) /\ CallInv(r)'
  BY Blank
<1>2. UNCHANGED << conf, row, up >>
  BY DEF Comes
<1>3. << h >> \in Seq(Frames) /\ Len(<< h >>) = 1 /\ << h >>[1] = h /\ << h >> # << >>
  OBVIOUS
<1>4. PICK s \in Seq(Frames) : s = << h >> /\ Len(s) = 1 /\ s[1] = h /\ s # << >>
  BY <1>3
<1>5. frames' \in [ Requests -> Seq(Frames) ] /\ frames'[r] = s
      /\ \A q \in Requests \ { r } : frames'[q] = frames[q]
  BY <1>4 DEF TypeOK
<1>6. Busy(r)' /\ Depth(r)' = 1 /\ Top(r)' = h /\ frames'[r][1] = h
  <2>1. Last(s) = h
    BY <1>4, StackParts
  <2> QED
    BY <1>4, <1>5, <2>1 DEF Busy, Depth, Top
<1>7. TypeOK'
  BY <1>1, <1>2, <1>5 DEF TypeOK
<1>8. \A q \in Requests \ { r } : Same(q)
  BY <1>1, <1>2, <1>5 DEF Same
<1>9. h.at \in Early /\ h.at # "waiting" /\ h.at # "dialling"
      /\ (h.op \in Registry <=> h.at = "asking") /\ (h.op = "load_dataset" <=> h.at = "loading")
  BY DEF FirstStep, Early, Registry
<1>10. FrameInv(r, 1)'
  BY <1>1, <1>2, <1>6, <1>9 DEF FrameInv, Early, Registry
<1>11. StackInv(r)'
  <2>1. \A i \in 1 .. 1 : i = 1
    OBVIOUS
  <2>2. \A i \in 1 .. Depth(r)' - 1 : FALSE
    BY <1>6
  <2> QED
    BY <1>1, <1>6, <1>9, <1>10, <2>1, <2>2 DEF StackInv
<1>12. JoinInv(r)'
  <2>1. call'[r].op \notin Streamed
    BY <1>1, PathAssumption DEF CallInv, Streamed
  <2> QED
    BY <1>1, <1>6, <1>9, <2>1 DEF JoinInv, Early
<1>13. RanInv(r)'
  <2>1. ran'[r] = << >> /\ Len(ran'[r]) = 0 /\ DOMAIN ran'[r] = {}
    BY <1>1
  <2>2. Need(r)' \in Nat /\ Need(r)' > 0
    BY PathAssumption DEF Need
  <2>3. ~ Ran(r)'
    BY <1>6, <1>9 DEF Ran, Early, Serving
  <2>4. Loads(r)' => Top(r)'.at = "loading"
    BY <1>6, <1>9 DEF Loads
  <2> QED
    BY <1>1, <2>1, <2>2, <2>3, <2>4 DEF RanInv
<1>14. CauseInv(r)' /\ CutInv(r)'
  BY <1>1, <1>6, <1>9 DEF CauseInv, CutInv, Early, Ran, Serving
<1>15. TrailInv(r)'
  <2>1. Silent(r)'
    <3>1. DOMAIN trail'[r] = {}
      BY <1>1
    <3> QED
      BY <3>1 DEF Silent, Recorded
  <2> QED
    BY <1>1, <1>6, <1>9, <2>1 DEF TrailInv, Early
<1> QED
  BY <1>7, <1>8, <1>1, <1>11, <1>12, <1>13, <1>14, <1>15 DEF Kept, ReqInv

\* It is turned away.
LEMMA TurnedAwayKeeps ==
  ASSUME TypeOK, NEW r \in Requests, ReqInv(r), NEW ask1 \in Requested, Comes(r, ask1),
         NEW n \in Nodes, NEW env \in Envelope, env.kind \notin CutKinds,
         NEW res, answer' = [ answer EXCEPT ![r] = res ], Blame(r, n, Err(env)),
         \/ res = err_envelope(r, Err(env), n)
         \/ res = Unauthorized /\ env = for_kind("Unauthenticated"),
         Trailed(r), Unrecorded(r)' \/ OnlyError(r)', UNCHANGED frames
  PROVE  Kept(r)
<1>1. /\ ~ Busy(r) /\ frames[r] = << >> /\ answer[r] = None /\ cause[r] = None
      /\ trail[r] = << >> /\ ran[r] = << >> /\ tail[r] = None /\ call[r].st = "none"
      /\ UNCHANGED << call, tail, inflight, gauge, ran >>
      /\ client' \in [ Requests -> { "idle", "absent", "waiting", "gone" } ]
      /\ ask' \in [ Requests -> Requested ] /\ faults' \in Nat
      /\ client'[r] = "waiting" /\ ask'[r] = ask1
      /\ \A q \in Requests \ { r } : client'[q] = client[q] /\ ask'[q] = ask[q]
      /\ EngineFor(r) /\ CallInv(r)'
  BY Blank
<1>2. UNCHANGED << conf, row, up >>
  BY DEF Comes
<1>3. PICK e \in Envelope : e = Stamped(r, env, n) /\ e.kind = env.kind
  BY StampedOnce
<1>4. err_envelope(r, Err(env), n) = Err(e) /\ Err(e) \in Results /\ Err(e).ok = FALSE /\ Err(e).env = e
      /\ Err(env).ok = FALSE /\ Err(env).env = env
  BY <1>3, StatusCarries, MadeResults
<1>5. /\ answer' \in [ Requests -> Results \cup { None, Unauthorized } ] /\ answer'[r] = res
      /\ res.ok = FALSE /\ (res = Unauthorized \/ res = Err(e))
      /\ \A q \in Requests \ { r } : answer'[q] = answer[q]
  <2>1. res = Unauthorized \/ res = Err(e)
    BY <1>4
  <2>2. res.ok = FALSE /\ res \in Results \cup { None, Unauthorized }
    BY <1>4, <2>1 DEF Unauthorized, Err
  <2> QED
    BY <2>1, <2>2 DEF TypeOK
<1>6. /\ cause' \in [ Requests -> Causes \cup { None } ] /\ cause'[r] = Blamed(n, env)
      /\ \A q \in Requests \ { r } : cause'[q] = cause[q]
  <2>1. cause' = [ cause EXCEPT ![r] = Blamed(n, env) ]
    BY <1>1, <1>4 DEF Blame, BlameVia, Blamed
  <2> QED
    BY <2>1, BlamedIs DEF TypeOK
<1>7. TypeOK'
  BY <1>1, <1>2, <1>5, <1>6 DEF TypeOK, Trailed, Records
<1>8. \A q \in Requests \ { r } : Same(q)
  BY <1>1, <1>2, <1>5, <1>6 DEF Same, Trailed
<1>9. ~ Busy(r)' /\ answer'[r].ok = FALSE /\ (answer'[r] = Unauthorized \/ answer'[r].env = e)
  BY <1>1, <1>4, <1>5 DEF Busy
<1>10. StackInv(r)'
  <2>1. Depth(r)' = 0
    BY <1>1 DEF Depth
  <2>2. \A i \in 1 .. 0 : FALSE
    OBVIOUS
  <2>3. \A i \in 1 .. 0 - 1 : FALSE
    OBVIOUS
  <2> QED
    BY <1>1, <1>9, <2>1, <2>2, <2>3 DEF StackInv, Loads
<1>11. JoinInv(r)' /\ CutInv(r)'
  <2>1. (answer[r] # Unauthorized)' => Named(r, answer[r])'
    BY <1>3, <1>9 DEF Named, CutKinds, Unauthorized
  <2>2. tail'[r] = None /\ call'[r].st = "none"
    BY <1>1
  <2> QED
    BY <1>9, <2>1, <2>2 DEF JoinInv, CutInv
<1>12. RanInv(r)'
  <2>1. ran'[r] = << >> /\ Len(ran'[r]) = 0 /\ DOMAIN ran'[r] = {}
    BY <1>1
  <2>2. Need(r)' \in Nat /\ Need(r)' > 0
    BY PathAssumption DEF Need
  <2> QED
    BY <1>9, <2>1, <2>2 DEF RanInv, Loads
<1>13. CauseInv(r)'
  <2>1. cause'[r] # None /\ cause'[r].env = env /\ Span(cause'[r]) = n
    BY <1>6, BlamedIs
  <2>2. (Stamped(r, cause[r].env, Span(cause[r])))' = Stamped(r, cause'[r].env, Span(cause'[r]))
    BY DEF Stamped, Span
  <2>3. \/ (answer[r] = Unauthorized /\ cause[r].env = for_kind("Unauthenticated"))'
        \/ answer'[r].env = e
    <3>1. CASE res = Unauthorized /\ env = for_kind("Unauthenticated")
      BY <1>5, <2>1, <3>1 DEF Unauthorized, for_kind
    <3>2. CASE res = err_envelope(r, Err(env), n)
      BY <1>4, <1>5, <3>2
    <3> QED
      BY <3>1, <3>2
  <2> QED
    BY <1>3, <1>9, <2>1, <2>2, <2>3 DEF CauseInv
<1>14. TrailInv(r)'
  BY <1>9 DEF TrailInv, Loads
<1> QED
  BY <1>7, <1>8, <1>1, <1>10, <1>11, <1>12, <1>13, <1>14 DEF Kept, ReqInv

\* What the caller says, and who it turns out to be.
LEMMA DoorIs ==
  ASSUME NEW n \in Nodes, NEW op \in Operations, NEW t \in { None, "good" }, NEW ms \in Nat \cup { None },
         NEW surface \in { "grpc", "mcp" }
  PROVE  /\ Asked(surface, op, t, ms) \in Requested /\ Asked(surface, op, t, ms).op = op
         /\ Asked(surface, op, t, ms).surface = surface
         /\ LET id == identity_of(n, t)
            IN  /\ id.who \in { "claimed", "verified" } /\ id.bearer \in { None, "good" }
                /\ id.ok /\ n \in conf.auth => id.who = "verified"
         /\ FirstStep(op) \in Places
  BY DEF Asked, Requested, identity_of, FirstStep, Places

\* Through the door.
LEMMA EntersKeeps ==
  ASSUME TypeOK, NEW r \in Requests, ReqInv(r), client[r] = "idle",
         NEW n \in Nodes, NEW op \in Operations, NEW t \in { None, "good" }, NEW ms \in Nat \cup { None },
         NEW surface \in { "grpc", "mcp" }, identity_of(n, t).ok,
         Enter(r, n, surface, op, t, ms, identity_of(n, t)),
         UNCHANGED << world, engine, trail, answer, cause, faults >>
  PROVE  Kept(r)
<1>1. PICK id : id = identity_of(n, t)
  OBVIOUS
<1>2. /\ id.who \in { "claimed", "verified" } /\ id.bearer \in { None, "good" } /\ FirstStep(op) \in Places
      /\ n \in conf.auth => id.who = "verified"
  BY <1>1, DoorIs
<1>3. PICK ask1 \in Requested : ask1 = Asked(surface, op, t, ms) /\ ask1.op = op
  BY DoorIs
<1>4. PICK h \in Frames : /\ h = Handler(n, op, FirstStep(op), id.who, id.bearer)
                          /\ h.op = op /\ h.at = FirstStep(op) /\ h.to = None /\ h.node = n /\ h.who = id.who
  BY <1>2, HandlerIs
<1>5. Comes(r, ask1) /\ frames' = [ frames EXCEPT ![r] = << h >> ]
  BY <1>1, <1>3, <1>4 DEF Comes, Enter, world
<1>6. /\ h.op = ask1.op /\ h.at = FirstStep(ask1.op) /\ ask1.op \in Operations
      /\ (h.node \in conf.auth => h.who = "verified") /\ UNCHANGED << trail, answer, cause >>
  BY <1>2, <1>3, <1>4
<1> QED
  BY <1>4, <1>5, <1>6, EnterKeeps

\* An RPC.
LEMMA RpcKeeps ==
  ASSUME TypeOK, NEW r \in Requests, ReqInv(r),
         NEW n \in Nodes, NEW op \in Operations, NEW t \in { None, "good" }, NEW ms \in Nat \cup { None },
         Rpc(r, n, op, t, ms)
  PROVE  Kept(r)
<1>1. client[r] = "idle" /\ UNCHANGED << world, engine, faults >>
  BY DEF Rpc, Fresh
<1>2. CASE identity_of(n, t).ok
  <2>1. Enter(r, n, "grpc", op, t, ms, identity_of(n, t)) /\ UNCHANGED << trail, answer, cause >>
    BY <1>2 DEF Rpc
  <2> QED
    BY <1>1, <1>2, <2>1, EntersKeeps
<1>3. CASE ~ identity_of(n, t).ok
  <2>1. PICK env \in Envelope : env = for_kind("Unauthenticated") /\ env.kind = "Unauthenticated"
    <3>1. "Unauthenticated" \in ErrorKind
      BY DEF ErrorKind
    <3> QED
      BY <3>1, ForKindIsEnvelope
  <2>2. TurnedAway(r, n, "grpc", op, t, ms, env, Unauthorized) /\ audit(r, n, op, "claimed", FALSE) /\ UNCHANGED frames
    BY <1>3, <2>1 DEF Rpc
  <2>3. PICK ask1 \in Requested : ask1 = Asked("grpc", op, t, ms) /\ ask1.op = op
    BY DoorIs
  <2>4. Comes(r, ask1)
    BY <1>1, <2>2, <2>3 DEF Comes, TurnedAway, world
  <2>5. trail[r] = << >> /\ ask'[r] = ask1
    BY <2>4, Blank
  <2>6. PICK rec \in Records : rec = Record(n, op, "claimed", FALSE) /\ rec.ok = FALSE /\ rec.op = op
    <3>1. /\ Record(n, op, "claimed", FALSE) \in Records
          /\ Record(n, op, "claimed", FALSE).ok = FALSE /\ Record(n, op, "claimed", FALSE).op = op
      BY DEF Record, Records
    <3> QED
      BY <3>1
  <2>7. Trailed(r) /\ trail'[r] = << rec >>
    <3>1. << rec >> \in Seq(Records) /\ Append(<< >>, rec) = << rec >>
      OBVIOUS
    <3> QED
      <4>1. trail \in [ Requests -> Seq(Records) ]
        BY DEF TypeOK, Records
      <4>2. trail' = [ trail EXCEPT ![r] = << rec >> ]
        BY <2>2, <2>5, <2>6, <3>1 DEF audit
      <4> QED
        BY <3>1, <4>1, <4>2 DEF Trailed
  <2>8. OnlyError(r)'
    <3>1. DOMAIN trail'[r] = { 1 } /\ trail'[r][1] = rec
      BY <2>7
    <3>2. Recorded(r, FALSE)' = { 1 }
      BY <2>3, <2>5, <2>6, <3>1 DEF Recorded
    <3> QED
      BY <3>1, <3>2 DEF OnlyError
  <2>9. env.kind \notin CutKinds
    BY <2>1 DEF CutKinds
  <2>10. answer' = [ answer EXCEPT ![r] = Unauthorized ] /\ Blame(r, n, Err(env))
    BY <2>2 DEF TurnedAway
  <2> QED
    BY <2>1, <2>2, <2>4, <2>7, <2>8, <2>9, <2>10, TurnedAwayKeeps
<1> QED
  BY <1>2, <1>3

\* A tool call.
LEMMA ToolKeeps ==
  ASSUME TypeOK, NEW r \in Requests, ReqInv(r),
         NEW n \in Nodes, NEW op \in Operations, NEW t \in { None, "good" }, NEW ms \in Nat \cup { None },
         NEW valid, Tool(r, n, op, t, ms, valid)
  PROVE  Kept(r)
<1>1. client[r] = "idle" /\ UNCHANGED << world, engine, trail, faults >>
  BY DEF Tool, Fresh
<1>2. CASE identity_of(n, t).ok /\ valid
  <2>1. Enter(r, n, "mcp", op, t, ms, identity_of(n, t)) /\ UNCHANGED << trail, answer, cause >>
    BY <1>1, <1>2 DEF Tool
  <2> QED
    BY <1>1, <1>2, <2>1, EntersKeeps
<1>3. CASE ~ (identity_of(n, t).ok /\ valid)
  <2>1. \E env \in Envelope : \E res :
          /\ TurnedAway(r, n, "mcp", op, t, ms, env, res)
          /\ \/ res = err_envelope(r, Err(env), n)
             \/ res = Unauthorized /\ env = for_kind("Unauthenticated")
          /\ env.kind = "Unauthenticated" \/ (env.kind = "InvalidValue" /\ "field" \in env.facts)
    <3>1. /\ { "Unauthenticated", "InvalidValue" } \subseteq ErrorKind
          /\ { "field" } \in SUBSET Facts /\ "guidance" \in Pages
      BY DEF ErrorKind, Facts, Pages
    <3>2. CASE identity_of(n, t).ok
      <4>1. PICK env \in Envelope : /\ env = rendered_with("InvalidValue", { "field" }, "guidance")
                                    /\ env.kind = "InvalidValue" /\ env.facts = { "field" }
        BY <3>1, RenderedWithIsEnvelope
      <4>2. TurnedAway(r, n, "mcp", op, t, ms, env, err_envelope(r, Err(env), n))
        BY <1>3, <3>2, <4>1 DEF Tool
      <4> QED
        BY <4>1, <4>2
    <3>3. CASE ~ identity_of(n, t).ok
      <4>1. PICK env \in Envelope : env = for_kind("Unauthenticated") /\ env.kind = "Unauthenticated"
        BY <3>1, ForKindIsEnvelope
      <4>2. TurnedAway(r, n, "mcp", op, t, ms, env, Unauthorized)
        BY <1>3, <3>3, <4>1 DEF Tool
      <4> QED
        BY <4>1, <4>2
    <3> QED
      BY <3>2, <3>3
  <2>0. PICK env \in Envelope : \E res :
          /\ TurnedAway(r, n, "mcp", op, t, ms, env, res)
          /\ \/ res = err_envelope(r, Err(env), n)
             \/ res = Unauthorized /\ env = for_kind("Unauthenticated")
          /\ env.kind = "Unauthenticated" \/ (env.kind = "InvalidValue" /\ "field" \in env.facts)
    BY <2>1
  <2>11. PICK res :
          /\ TurnedAway(r, n, "mcp", op, t, ms, env, res)
          /\ \/ res = err_envelope(r, Err(env), n)
             \/ res = Unauthorized /\ env = for_kind("Unauthenticated")
    BY <2>0
  <2>2. UNCHANGED frames
    BY <1>3 DEF Tool
  <2>3. PICK ask1 \in Requested : ask1 = Asked("mcp", op, t, ms) /\ ask1.surface = "mcp"
    BY DoorIs
  <2>4. Comes(r, ask1)
    BY <1>1, <2>11, <2>3 DEF Comes, TurnedAway, world
  <2>5. ask'[r] = ask1 /\ cause[r] = None
    BY <2>4, Blank
  <2>6. answer' = [ answer EXCEPT ![r] = res ] /\ Blame(r, n, Err(env))
    BY <2>11 DEF TurnedAway
  <2>7. cause'[r].env = env
    BY <2>5, <2>6, MadeResults DEF Blame, BlameVia, TypeOK
  <2>8. Unrecorded(r)'
    BY <2>0, <2>3, <2>5, <2>7 DEF Unrecorded
  <2>9. Trailed(r) /\ env.kind \notin CutKinds
    BY <1>1, <2>0 DEF Trailed, TypeOK, Records, CutKinds
  <2> QED
    BY <2>11, <2>2, <2>4, <2>6, <2>8, <2>9, TurnedAwayKeeps
<1> QED
  BY <1>2, <1>3

\* Every way a request may come.
LEMMA ArrivesKeeps ==
  ASSUME TypeOK, NEW r \in Requests, ReqInv(r), Arrives(r)
  PROVE  Kept(r)
<1>1. PICK n \in Nodes, t \in { None, "good" } :
        ToolCall(r, n, t) \/ SdkCall(r, n, t) \/ CliCall(r, n, t) \/ OtherCall(r, n, t)
  BY DEF Arrives
<1>2. \A op \in Operations : \A ms \in Nat \cup { None } : \A valid :
        Tool(r, n, op, t, ms, valid) => Kept(r)
  BY ToolKeeps
<1>3. \A op \in Operations : \A ms \in Nat \cup { None } : Rpc(r, n, op, t, ms) => Kept(r)
  BY RpcKeeps
<1>4. /\ { "allocate_pond", "describe_pond", "list_ponds", "read_query", "write_query", "read_arrow",
           "explain_query", "list_datasets", "list_catalogs", "load_dataset", "catalog_describe",
           "catalog_pull", "get_lineage" } \subseteq Operations
      /\ Timeouts \subseteq Nat /\ None \in Nat \cup { None } /\ 0 \in Nat
  BY PathAssumption DEF Operations, Streamed, Registry, Bare
<1>5. CASE ToolCall(r, n, t)
  BY <1>2, <1>4, <1>5
     DEF ToolCall, tool_allocate_pond, tool_describe_pond, tool_list_ponds, tool_read_query,
         tool_write_query, tool_explain_query, tool_list_datasets, tool_list_catalogs,
         tool_load_dataset, tool_describe_catalog, tool_pull_catalog, tool_get_lineage
<1>6. CASE SdkCall(r, n, t)
  BY <1>3, <1>4, <1>6
     DEF SdkCall, sdk_query_ipc, sdk_describe_pond, sdk_explain, sdk_load_dataset,
         sdk_describe_catalog, sdk_pull_catalog, describe_pond, explain_query, load_dataset,
         catalog_describe, catalog_pull, read_arrow, write_query
<1>7. CASE CliCall(r, n, t)
  BY <1>3, <1>4, <1>7
     DEF CliCall, run_query, cli_describe, cli_dataset_load, cli_catalog_describe,
         cli_catalog_pull, describe_pond, load_dataset, catalog_describe, catalog_pull,
         read_query, write_query
<1>8. CASE OtherCall(r, n, t)
  BY <1>3, <1>4, <1>8 DEF OtherCall, allocate_pond, get_lineage, read_arrow
<1> QED
  BY <1>1, <1>5, <1>6, <1>7, <1>8
-----------------------------------------------------------------------------
(* The engine call. *)

\* Statements that have been started and not been closed.
Open == { "queued", "running", "flowing", "ended" }

\* A stream that ends in a failure is the first to meet it.
Tailed(r) ==
  /\ cause' \in [ Requests -> Causes \cup { None } ]
  /\ \A q \in Requests \ { r } : cause'[q] = cause[q]
  /\ cause'[r] = IF tail'[r] # None /\ ~ tail'[r].ok /\ cause[r] = None
                 THEN Blamed(call[r].node, tail'[r].env) ELSE cause[r]

\* The call of r becomes c, and nothing else that the handlers see changes.
LEMMA CallKeeps ==
  ASSUME TypeOK, NEW r \in Requests, ReqInv(r), call[r].st \in Open,
         NEW c \in EngineCalls, call' = [ call EXCEPT ![r] = c ],
         c.node = call[r].node, c.op = call[r].op, c.st \in Open \cup { "closed" },
         EngineFor(r), CallInv(r)',
         tail'[r] # None => /\ c.st = "closed" /\ c.op \in Streamed /\ tail'[r] \in Results
                            /\ (tail'[r].ok => tail'[r].by = c.node) /\ Named(r, tail[r])',
         c.st = "closed" /\ c.op \in Streamed => tail'[r] # None,
         client' \in [ Requests -> { "idle", "absent", "waiting", "gone" } ],
         \A q \in Requests \ { r } : client'[q] = client[q],
         client'[r] = client[r] \/ client'[r] = "gone", faults' \in Nat,
         Tailed(r), UNCHANGED << conf, row, up, ask, frames, trail, answer, ran >>
  PROVE  Kept(r)
<1>1. StackInv(r) /\ JoinInv(r) /\ RanInv(r) /\ CauseInv(r) /\ CutInv(r) /\ TrailInv(r)
  BY DEF ReqInv
<1>2. call'[r] = c
  BY DEF TypeOK
<1>3. client[r] \in { "waiting", "gone" } /\ client'[r] \in { "waiting", "gone" }
  <2>1. client[r] \in { "idle", "absent", "waiting", "gone" }
    BY DEF TypeOK
  <2> QED
    BY <1>1, <2>1 DEF StackInv, Open
<1>4. TypeOK'
  BY DEF TypeOK, EngineFor, Tailed
<1>5. \A q \in Requests \ { r } : Same(q)
  BY DEF Same, EngineFor, Tailed
<1>6. UNCHANGED << Busy(r), Top(r), Depth(r), Loads(r), Need(r), Ran(r), Sofar(r) >>
  BY DEF Busy, Top, Depth, Loads, Need, Ran, Sofar
<1>7. StackInv(r)'
  <2>1. \A i : FrameInv(r, i) => FrameInv(r, i)'
    BY DEF FrameInv, OnTheWire
  <2> QED
    BY <1>1, <1>3, <1>6, <2>1 DEF StackInv
<1>8. JoinInv(r)'
  BY <1>1, <1>2, <1>6 DEF JoinInv, Open
<1>0. tail[r] = None /\ call[r].node \in Nodes
  BY <1>1 DEF ReqInv, CallInv, JoinInv, Open
<1>9. RanInv(r)'
  BY <1>1, <1>6 DEF RanInv
<1>10. CauseInv(r)'
  <2>1. CASE cause'[r] = cause[r]
    <3>1. tail'[r] # None /\ ~ tail'[r].ok => cause[r] # None
      <4> SUFFICES ASSUME tail'[r] # None, ~ tail'[r].ok, cause[r] = None PROVE FALSE
        OBVIOUS
      <4>1. cause'[r] = Blamed(call[r].node, tail'[r].env) /\ tail'[r].env \in Envelope
        BY <2>1 DEF Tailed, Results
      <4> QED
        BY <1>0, <2>1, <4>1, BlamedIs
    <3>2. ~ (Busy(r) /\ Ran(r)) \/ cause[r] = None
      BY <1>0, <1>1 DEF CauseInv
    <3>3. Busy(r) /\ Ran(r) => ~ (tail'[r] # None /\ ~ tail'[r].ok)
      BY <3>1, <3>2
    <3>4. /\ Rooted(r, Top(r).res.env, Top(r).node)' <=> Rooted(r, Top(r).res.env, Top(r).node)
          /\ (Stamped(r, cause[r].env, Span(cause[r])))' = Stamped(r, cause[r].env, Span(cause[r]))
      BY <1>6, <2>1 DEF Rooted, Traces, Stamped, Span
    <3> QED
      BY <1>1, <1>6, <2>1, <3>2, <3>3, <3>4 DEF CauseInv
  <2>2. CASE cause'[r] # cause[r]
    <3>1. /\ cause[r] = None /\ tail'[r] # None /\ ~ tail'[r].ok
          /\ cause'[r] = Blamed(call[r].node, tail'[r].env) /\ tail'[r].env \in Envelope
      BY <2>2 DEF Tailed, Results
    <3>2. Rooted(r, tail[r].env, call[r].node)'
      <4>1. Traces(r, Blamed(call[r].node, tail'[r].env), tail'[r].env, call[r].node)
        BY <1>0, <3>1, BlamedIs DEF Traces
      <4> QED
        BY <1>2, <3>1, <4>1 DEF Rooted, Traces, Stamped, Span
    <3>3. ~ (Busy(r) /\ Top(r).at \in Early)
      BY <1>1, <3>1 DEF JoinInv
    <3>4. /\ ~ (Busy(r) /\ Top(r).at = "relaying" /\ ~ Top(r).res.ok)
          /\ ~ (answer[r] # None /\ ~ answer[r].ok)
      BY <1>1, <3>1 DEF CauseInv, Rooted, Traces
    <3> QED
      BY <1>6, <3>1, <3>2, <3>3, <3>4 DEF CauseInv
  <2> QED
    BY <2>1, <2>2
<1>11. CutInv(r)'
  <2>1. \A res : Named(r, res) => Named(r, res)'
    BY DEF Named, Open
  <2> QED
    BY <1>1, <1>6, <2>1 DEF CutInv
<1>12. TrailInv(r)'
  <2>1. \A b \in BOOLEAN : Recorded(r, b)' = Recorded(r, b)
    BY DEF Recorded, OnTheWire
  <2>2. call'[r].node = call[r].node
    BY <1>2
  <2>3. /\ Silent(r)' <=> Silent(r)
        /\ \A n : OnlyOk(r, n)' <=> OnlyOk(r, n)
        /\ OnlyError(r)' <=> OnlyError(r)
        /\ Recorded(r, TRUE)' = Recorded(r, TRUE)
    BY <2>1 DEF Silent, OnlyOk, OnlyError
  <2>4. Listing(r)' <=> Listing(r)
    BY DEF Listing
  <2>8. \/ cause'[r] = cause[r]
        \/ /\ ~ (Busy(r) /\ Top(r).at = "relaying" /\ ~ Top(r).res.ok)
           /\ ~ (answer[r] # None /\ ~ answer[r].ok)
    BY <1>1 DEF Tailed, CauseInv, Rooted, Traces
  <2>9. cause'[r] = cause[r] => (Unrecorded(r)' <=> Unrecorded(r))
    BY <2>1 DEF Unrecorded
  <2>5. PICK f : f = Top(r) /\ Top(r)' = f
    BY <1>6
  <2>6. PICK n : n = call[r].node /\ call'[r].node = n
    BY <2>2
  <2>7. (Busy(r)' <=> Busy(r)) /\ (Loads(r)' <=> Loads(r))
    BY <1>6
  <2> QED
    BY <1>1, <2>3, <2>4, <2>5, <2>6, <2>7, <2>8, <2>9 DEF TrailInv
<1> QED
  BY <1>4, <1>5, <1>7, <1>8, <1>9, <1>10, <1>11, <1>12 DEF Kept, ReqInv

\* The same, for a step that leaves the call open.
LEMMA OpenKeeps ==
  ASSUME TypeOK, NEW r \in Requests, ReqInv(r), call[r].st \in Open,
         NEW c \in EngineCalls, call' = [ call EXCEPT ![r] = c ],
         c.node = call[r].node, c.op = call[r].op, c.st \in Open,
         c.cut <=> c.first # None,
         c.timer = "armed" => ~ c.expired /\ c.first \in { None, "drop" },
         c.expired => c.first \in { "timer", "drop" },
         c.first = "timer" => c.expired,
         c.first = "dropped" => call[r].first = "dropped",
         c.st = "ended" => c.out \in Outcomes /\ (c.out = "Cancelled" => c.cut),
         c.st # "ended" => c.out = None,
         ~ Timed(r) => ~ c.cut /\ c.timer = "off",
         client' \in [ Requests -> { "idle", "absent", "waiting", "gone" } ],
         \A q \in Requests \ { r } : client'[q] = client[q],
         client'[r] = client[r] \/ client'[r] = "gone", faults' \in Nat,
         UNCHANGED << conf, row, up, ask, frames, tail, inflight, gauge, trail, answer, ran, cause >>
  PROVE  Kept(r)
<1>1. CallInv(r) /\ JoinInv(r)
  BY DEF ReqInv
<1>2. tail[r] = None
  BY <1>1 DEF JoinInv, Open
<1>3. call'[r] = c /\ call' \in [ Requests -> EngineCalls ] /\ \A q \in Requests \ { r } : call'[q] = call[q]
  BY DEF TypeOK
<1>4. EngineFor(r)
  BY <1>3 DEF EngineFor, TypeOK
<1>5. UNCHANGED << Busy(r), Timed(r) >>
  BY DEF Busy, Timed
<1>6. CallInv(r)'
  BY <1>1, <1>3, <1>5 DEF CallInv, Open, OnTheWire, Counted
<1>7. Tailed(r) /\ tail'[r] = None
  BY <1>2 DEF Tailed, TypeOK
<1> QED
  BY <1>2, <1>3, <1>4, <1>6, <1>7, CallKeeps DEF Open

\* A token that fires.
LEMMA FireIs ==
  ASSUME NEW c \in EngineCalls, NEW who \in Whos
  PROVE  LET e == Fire(c, who)
         IN  /\ e \in EngineCalls /\ e.cut = TRUE /\ e.first = (IF c.first = None THEN who ELSE c.first)
             /\ e.node = c.node /\ e.op = c.op /\ e.st = c.st /\ e.out = c.out /\ e.expired = c.expired
             /\ e.timer = c.timer /\ e.heard = c.heard /\ e.flowed = c.flowed
  BY DEF Fire, EngineCalls

\* The read has its connection.
LEMMA CheckoutKeeps ==
  ASSUME TypeOK, NEW r \in Requests, ReqInv(r), checkout_read(r)
  PROVE  Kept(r)
<1>1. CallInv(r) /\ call[r] \in EngineCalls /\ call[r].st = "queued"
  BY DEF ReqInv, TypeOK, checkout_read
<1> DEFINE e == [ call[r] EXCEPT !.st = "running" ]
<1>2. /\ e \in EngineCalls /\ e.node = call[r].node /\ e.op = call[r].op /\ e.st = "running"
      /\ e.cut = call[r].cut /\ e.first = call[r].first /\ e.timer = call[r].timer
      /\ e.expired = call[r].expired /\ e.out = call[r].out
  BY <1>1 DEF EngineCalls
<1>3. call' = [ call EXCEPT ![r] = e ]
  BY <1>1 DEF checkout_read, TypeOK
<1> HIDE DEF e
<1>4. PICK c \in EngineCalls :
        /\ call' = [ call EXCEPT ![r] = c ] /\ c.node = call[r].node /\ c.op = call[r].op
        /\ c.st = "running" /\ c.cut = call[r].cut /\ c.first = call[r].first
        /\ c.timer = call[r].timer /\ c.expired = call[r].expired /\ c.out = call[r].out
  BY <1>2, <1>3
<1>5. UNCHANGED << conf, row, up, client, ask, frames, tail, inflight, gauge, trail, answer, ran, cause, faults >>
  BY DEF checkout_read, world
<1>6. client' \in [ Requests -> { "idle", "absent", "waiting", "gone" } ] /\ faults' \in Nat
  BY <1>5 DEF TypeOK
<1>7. call[r].st \in Open /\ c.st \in Open
  BY <1>1, <1>4 DEF Open
<1> QED
  BY <1>1, <1>4, <1>5, <1>6, <1>7, OpenKeeps DEF CallInv

\* The statement flows.
LEMMA FlowsKeeps ==
  ASSUME TypeOK, NEW r \in Requests, ReqInv(r), Flows(r)
  PROVE  Kept(r)
<1>1. CallInv(r) /\ call[r] \in EngineCalls /\ call[r].st = "running"
  BY DEF ReqInv, TypeOK, Flows
<1> DEFINE e == [ call[r] EXCEPT !.st = "flowing", !.flowed = TRUE ]
<1>2. /\ e \in EngineCalls /\ e.node = call[r].node /\ e.op = call[r].op /\ e.st = "flowing"
      /\ e.cut = call[r].cut /\ e.first = call[r].first /\ e.timer = call[r].timer
      /\ e.expired = call[r].expired /\ e.out = call[r].out
  BY <1>1 DEF EngineCalls
<1>3. call' = [ call EXCEPT ![r] = e ]
  BY <1>1 DEF Flows, TypeOK
<1> HIDE DEF e
<1>4. PICK c \in EngineCalls :
        /\ call' = [ call EXCEPT ![r] = c ] /\ c.node = call[r].node /\ c.op = call[r].op
        /\ c.st = "flowing" /\ c.cut = call[r].cut /\ c.first = call[r].first
        /\ c.timer = call[r].timer /\ c.expired = call[r].expired /\ c.out = call[r].out
  BY <1>2, <1>3
<1>5. UNCHANGED << conf, row, up, client, ask, frames, tail, inflight, gauge, trail, answer, ran, cause, faults >>
  BY DEF Flows, world
<1>6. client' \in [ Requests -> { "idle", "absent", "waiting", "gone" } ] /\ faults' \in Nat
  BY <1>5 DEF TypeOK
<1>7. call[r].st \in Open /\ c.st \in Open
  BY <1>1, <1>4 DEF Open
<1> QED
  BY <1>1, <1>4, <1>5, <1>6, <1>7, OpenKeeps DEF CallInv

\* The statement ends.
LEMMA EngineEndsKeeps ==
  ASSUME TypeOK, NEW r \in Requests, ReqInv(r), NEW out \in Outcomes, EngineEnds(r, out)
  PROVE  Kept(r)
<1>1. CallInv(r) /\ call[r] \in EngineCalls /\ call[r].st \in { "queued", "running", "flowing" }
      /\ (out = "Cancelled" => call[r].cut)
  BY DEF ReqInv, TypeOK, EngineEnds, Live
<1> DEFINE e == [ call[r] EXCEPT !.st = "ended", !.out = out ]
<1>2. /\ e \in EngineCalls /\ e.node = call[r].node /\ e.op = call[r].op /\ e.st = "ended"
      /\ e.cut = call[r].cut /\ e.first = call[r].first /\ e.timer = call[r].timer
      /\ e.expired = call[r].expired /\ e.out = out
  BY <1>1 DEF EngineCalls
<1>3. call' = [ call EXCEPT ![r] = e ]
  BY <1>1 DEF EngineEnds, TypeOK
<1> HIDE DEF e
<1>4. PICK c \in EngineCalls :
        /\ call' = [ call EXCEPT ![r] = c ] /\ c.node = call[r].node /\ c.op = call[r].op
        /\ c.st = "ended" /\ c.cut = call[r].cut /\ c.first = call[r].first
        /\ c.timer = call[r].timer /\ c.expired = call[r].expired /\ c.out = out
  BY <1>2, <1>3
<1>5. UNCHANGED << conf, row, up, client, ask, frames, tail, inflight, gauge, trail, answer, ran, cause >>
  BY DEF EngineEnds, world
<1>6. client' \in [ Requests -> { "idle", "absent", "waiting", "gone" } ] /\ faults' \in Nat
  BY <1>5 DEF TypeOK, EngineEnds
<1>7. call[r].st \in Open /\ c.st \in Open
  BY <1>1, <1>4 DEF Open
<1> QED
  BY <1>1, <1>4, <1>5, <1>6, <1>7, OpenKeeps DEF CallInv

\* The deadline passes.
LEMMA ExpireKeeps ==
  ASSUME TypeOK, NEW r \in Requests, ReqInv(r), Expire(r)
  PROVE  Kept(r)
<1>1. CallInv(r) /\ call[r] \in EngineCalls /\ call[r].st \in Open /\ call[r].timer = "armed"
  BY DEF ReqInv, TypeOK, Expire, Open, Live
<1> DEFINE a == Fire(call[r], "timer")
           e == [ a EXCEPT !.expired = TRUE, !.timer = "spent" ]
<1>2. /\ a \in EngineCalls /\ a.cut = TRUE
      /\ a.first = (IF call[r].first = None THEN "timer" ELSE call[r].first)
      /\ a.node = call[r].node /\ a.op = call[r].op /\ a.st = call[r].st /\ a.out = call[r].out
  BY <1>1, FireIs DEF Whos
<1>3. call' = [ call EXCEPT ![r] = e ]
  BY <1>1 DEF Expire
<1> HIDE DEF a
<1>4. /\ e \in EngineCalls /\ e.node = call[r].node /\ e.op = call[r].op /\ e.st = call[r].st
      /\ e.cut = TRUE /\ e.first = a.first /\ e.timer = "spent" /\ e.expired = TRUE /\ e.out = call[r].out
  BY <1>2 DEF EngineCalls
<1> HIDE DEF e
<1>5. PICK c \in EngineCalls :
        /\ call' = [ call EXCEPT ![r] = c ] /\ c.node = call[r].node /\ c.op = call[r].op
        /\ c.st = call[r].st /\ c.cut = TRUE /\ c.timer = "spent" /\ c.expired = TRUE /\ c.out = call[r].out
        /\ c.first = (IF call[r].first = None THEN "timer" ELSE call[r].first)
  BY <1>2, <1>3, <1>4
<1>6. UNCHANGED << conf, row, up, client, ask, frames, tail, inflight, gauge, trail, answer, ran, cause, faults >>
  BY DEF Expire, world
<1>7. client' \in [ Requests -> { "idle", "absent", "waiting", "gone" } ] /\ faults' \in Nat
  BY <1>6 DEF TypeOK
<1>8. /\ c.first \in { "timer", "drop" } /\ c.first # None /\ Timed(r)
      /\ c.st = "ended" => c.out \in Outcomes /\ (c.out = "Cancelled" => c.cut)
      /\ c.st # "ended" => c.out = None
  BY <1>1, <1>5, PathAssumption DEF CallInv, Open
<1> QED
  BY <1>1, <1>5, <1>6, <1>7, <1>8, OpenKeeps

\* The caller's cancel is seen.
LEMMA CancelSeenKeeps ==
  ASSUME TypeOK, NEW r \in Requests, ReqInv(r), CancelSeen(r)
  PROVE  Kept(r)
<1>1. CallInv(r) /\ call[r] \in EngineCalls /\ call[r].st \in Open /\ call[r].timer = "armed"
  BY DEF ReqInv, TypeOK, CancelSeen, Open, Live
<1> DEFINE a == Fire(call[r], "caller")
           e == [ a EXCEPT !.timer = "spent" ]
<1>2. /\ a \in EngineCalls /\ a.cut = TRUE
      /\ a.first = (IF call[r].first = None THEN "caller" ELSE call[r].first)
      /\ a.node = call[r].node /\ a.op = call[r].op /\ a.st = call[r].st /\ a.out = call[r].out
      /\ a.expired = call[r].expired
  BY <1>1, FireIs DEF Whos
<1>3. call' = [ call EXCEPT ![r] = e ]
  BY <1>1 DEF CancelSeen
<1> HIDE DEF a
<1>4. /\ e \in EngineCalls /\ e.node = call[r].node /\ e.op = call[r].op /\ e.st = call[r].st
      /\ e.cut = TRUE /\ e.first = a.first /\ e.timer = "spent" /\ e.expired = call[r].expired
      /\ e.out = call[r].out
  BY <1>2 DEF EngineCalls
<1> HIDE DEF e
<1>5. PICK c \in EngineCalls :
        /\ call' = [ call EXCEPT ![r] = c ] /\ c.node = call[r].node /\ c.op = call[r].op
        /\ c.st = call[r].st /\ c.cut = TRUE /\ c.timer = "spent" /\ c.out = call[r].out
        /\ c.expired = call[r].expired
        /\ c.first = (IF call[r].first = None THEN "caller" ELSE call[r].first)
  BY <1>2, <1>3, <1>4
<1>6. UNCHANGED << conf, row, up, client, ask, frames, tail, inflight, gauge, trail, answer, ran, cause, faults >>
  BY DEF CancelSeen, world
<1>7. client' \in [ Requests -> { "idle", "absent", "waiting", "gone" } ] /\ faults' \in Nat
  BY <1>6 DEF TypeOK
<1>8. /\ c.first \in { "caller", "drop" } /\ c.first # None /\ Timed(r) /\ ~ c.expired
      /\ c.st = "ended" => c.out \in Outcomes /\ (c.out = "Cancelled" => c.cut)
      /\ c.st # "ended" => c.out = None
  BY <1>1, <1>5, PathAssumption DEF CallInv, Open
<1> QED
  BY <1>1, <1>5, <1>6, <1>7, <1>8, OpenKeeps

\* A drop of the pond cancels the statement.
LEMMA DropCancelsKeeps ==
  ASSUME TypeOK, NEW r \in Requests, ReqInv(r), DropCancels(r)
  PROVE  Kept(r)
<1>1. CallInv(r) /\ call[r] \in EngineCalls /\ call[r].st \in { "queued", "running", "flowing" }
  BY DEF ReqInv, TypeOK, DropCancels, Live
<1>2. Timed(r)
  <2>1. call[r].node \in Nodes /\ r \in inflight[call[r].node]
    BY <1>1 DEF DropCancels, CallInv
  <2> QED
    BY <1>1, <2>1 DEF CallInv
<1> DEFINE e == Fire(call[r], "drop")
<1>3. /\ e \in EngineCalls /\ e.cut = TRUE
      /\ e.first = (IF call[r].first = None THEN "drop" ELSE call[r].first)
      /\ e.node = call[r].node /\ e.op = call[r].op /\ e.st = call[r].st /\ e.out = call[r].out
      /\ e.expired = call[r].expired /\ e.timer = call[r].timer
  BY <1>1, FireIs DEF Whos
<1>4. call' = [ call EXCEPT ![r] = e ]
  BY <1>1 DEF DropCancels
<1> HIDE DEF e
<1>5. PICK c \in EngineCalls :
        /\ call' = [ call EXCEPT ![r] = c ] /\ c.node = call[r].node /\ c.op = call[r].op
        /\ c.st = call[r].st /\ c.cut = TRUE /\ c.timer = call[r].timer /\ c.out = call[r].out
        /\ c.expired = call[r].expired
        /\ c.first = (IF call[r].first = None THEN "drop" ELSE call[r].first)
  BY <1>3, <1>4
<1>6. UNCHANGED << conf, row, up, client, ask, frames, tail, inflight, gauge, trail, answer, ran, cause >>
  BY DEF DropCancels, world
<1>7. client' \in [ Requests -> { "idle", "absent", "waiting", "gone" } ] /\ faults' \in Nat
  BY <1>6 DEF TypeOK, DropCancels, Fault
<1>8. /\ c.first # None /\ call[r].st \in Open /\ c.st \in Open
      /\ c.timer = "armed" => ~ c.expired /\ c.first \in { None, "drop" }
      /\ c.expired => c.first \in { "timer", "drop" }
      /\ c.first = "timer" => c.expired
      /\ c.first = "dropped" => call[r].first = "dropped"
      /\ c.st # "ended" /\ c.out = None
  BY <1>1, <1>5, PathAssumption DEF CallInv, Open
<1> QED
  BY <1>1, <1>2, <1>5, <1>6, <1>7, <1>8, OpenKeeps

\* The consumer of a stream goes away.
LEMMA StreamDroppedKeeps ==
  ASSUME TypeOK, NEW r \in Requests, ReqInv(r), StreamDropped(r)
  PROVE  Kept(r)
<1>1. CallInv(r) /\ call[r] \in EngineCalls /\ call[r].st \in { "queued", "running", "flowing" }
  BY DEF ReqInv, TypeOK, StreamDropped, Live
<1> DEFINE e == [ call[r] EXCEPT !.heard = FALSE ]
<1>2. /\ e \in EngineCalls /\ e.node = call[r].node /\ e.op = call[r].op /\ e.st = call[r].st
      /\ e.cut = call[r].cut /\ e.first = call[r].first /\ e.timer = call[r].timer
      /\ e.expired = call[r].expired /\ e.out = call[r].out
  BY <1>1 DEF EngineCalls
<1>3. call' = [ call EXCEPT ![r] = e ]
  BY <1>1 DEF StreamDropped, TypeOK
<1> HIDE DEF e
<1>4. PICK c \in EngineCalls :
        /\ call' = [ call EXCEPT ![r] = c ] /\ c.node = call[r].node /\ c.op = call[r].op
        /\ c.st = call[r].st /\ c.cut = call[r].cut /\ c.first = call[r].first
        /\ c.timer = call[r].timer /\ c.expired = call[r].expired /\ c.out = call[r].out
  BY <1>2, <1>3
<1>5. UNCHANGED << conf, row, up, ask, frames, tail, inflight, gauge, trail, answer, ran, cause >>
  BY DEF StreamDropped, world
<1>6. client' \in [ Requests -> { "idle", "absent", "waiting", "gone" } ] /\ faults' \in Nat
      /\ client'[r] = "gone" /\ \A q \in Requests \ { r } : client'[q] = client[q]
  BY DEF TypeOK, StreamDropped, Fault
<1>7. /\ call[r].st \in Open /\ c.st \in Open
      /\ c.st = "ended" => c.out \in Outcomes /\ (c.out = "Cancelled" => c.cut)
      /\ c.st # "ended" => c.out = None
  BY <1>1, <1>4 DEF CallInv, Open
<1> QED
  BY <1>1, <1>4, <1>5, <1>6, <1>7, OpenKeeps DEF CallInv

\* The blocking producer of a stream is done.
LEMMA ProducerEndsKeeps ==
  ASSUME TypeOK, NEW r \in Requests, ReqInv(r), ProducerEnds(r)
  PROVE  Kept(r)
<1>1. CallInv(r) /\ call[r] \in EngineCalls /\ call[r].st = "ended" /\ call[r].op \in Streamed
  BY DEF ReqInv, TypeOK, ProducerEnds
<1>2. PICK n \in Nodes : n = call[r].node
  BY <1>1 DEF CallInv
<1>3. Timed(r)
  BY <1>1 DEF CallInv, Counted
<1> DEFINE e == [ drop_guard(call[r]) EXCEPT !.st = "closed" ]
<1>4. /\ e \in EngineCalls /\ e.st = "closed" /\ e.timer = "off" /\ e.cut = TRUE
      /\ e.node = call[r].node /\ e.op = call[r].op /\ e.out = call[r].out /\ e.expired = call[r].expired
      /\ e.first = IF call[r].first = None THEN "dropped" ELSE call[r].first
  BY <1>1, ClosedCall
<1>5. call' = [ call EXCEPT ![r] = e ]
  BY DEF ProducerEnds
<1> HIDE DEF e
<1>6. PICK c \in EngineCalls :
        /\ call' = [ call EXCEPT ![r] = c ] /\ c.st = "closed" /\ c.timer = "off" /\ c.cut = TRUE
        /\ c.node = call[r].node /\ c.op = call[r].op /\ c.out = call[r].out /\ c.expired = call[r].expired
        /\ c.first = IF call[r].first = None THEN "dropped" ELSE call[r].first
  BY <1>4, <1>5
<1>7. call'[r] = c /\ call' \in [ Requests -> EngineCalls ] /\ \A q \in Requests \ { r } : call'[q] = call[q]
  BY <1>6 DEF TypeOK
<1>8. UNCHANGED << conf, row, up, client, ask, frames, trail, answer, ran, faults >>
  BY DEF ProducerEnds, world
<1>9. PICK res \in Results :
        /\ Blame(r, n, res)
        /\ tail' = [ tail EXCEPT ![r] = res ] /\ (res.ok => res.by = n)
        /\ ~ res.ok /\ res.env.kind = "QueryTimeout" => call[r].expired
        /\ ~ res.ok /\ res.env.kind = "QueryCancelled" => ~ call[r].expired /\ call[r].cut
  <2> DEFINE fate == Result(r, n, classify(call[r]))
  <2>1. /\ fate \in Results /\ (fate.ok => fate.by = n)
        /\ ~ fate.ok /\ fate.env.kind = "QueryTimeout" => call[r].expired
        /\ ~ fate.ok /\ fate.env.kind = "QueryCancelled" => ~ call[r].expired /\ call[r].cut
    BY <1>1, FateIs
  <2>2. \/ tail' = [ tail EXCEPT ![r] = fate ] /\ Blame(r, n, fate)
        \/ tail' = [ tail EXCEPT ![r] = Ok(n) ] /\ Blame(r, n, Ok(n))
    BY <1>2 DEF ProducerEnds
  <2>3. Ok(n) \in Results /\ Ok(n).ok = TRUE /\ Ok(n).by = n
    BY MadeResults
  <2> HIDE DEF fate
  <2> QED
    BY <2>1, <2>2, <2>3
<1>10. /\ tail' \in [ Requests -> Results \cup { None } ] /\ tail'[r] = res
       /\ \A q \in Requests \ { r } : tail'[q] = tail[q]
  BY <1>9 DEF TypeOK
<1>11. /\ inflight' \in [ Nodes -> SUBSET Requests ] /\ gauge' \in [ Nodes -> Int ]
       /\ \A q \in Requests \ { r } : \A m \in Nodes : q \in inflight'[m] <=> q \in inflight[m]
  <2>1. UNCHANGED << inflight, gauge >> \/ Completed(r)
    BY DEF ProducerEnds
  <2>2. CASE UNCHANGED << inflight, gauge >>
    BY <2>2 DEF TypeOK
  <2>3. CASE Completed(r)
    <3>1. /\ inflight' \in [ Nodes -> SUBSET Requests ] /\ gauge' \in [ Nodes -> Int ]
          /\ \A m \in Nodes : inflight'[m] = IF m = n THEN inflight[m] \ { r } ELSE inflight[m]
      BY <1>2, <2>3, CompletedDoes
    <3> QED
      BY <3>1
  <2> QED
    BY <2>1, <2>2, <2>3
<1>12. EngineFor(r)
  BY <1>7, <1>8, <1>10, <1>11 DEF EngineFor, TypeOK
<1>13. CallInv(r)'
  <2>1. Timed(r)' /\ ask'[r] = ask[r]
    BY <1>3, <1>8 DEF Timed
  <2>2. c.first # None /\ (c.expired => c.first \in { "timer", "drop" }) /\ (c.first = "timer" => c.expired)
    BY <1>1, <1>6, PathAssumption DEF CallInv
  <2> QED
    BY <1>1, <1>6, <1>7, <2>1, <2>2 DEF CallInv, OnTheWire, Counted
<1>14. Named(r, tail[r])'
  <2>1. call[r].cut => call[r].first \in { "timer", "caller", "drop" }
    BY <1>1 DEF CallInv, EngineCalls, Whos
  <2>2. call[r].cut /\ ~ call[r].expired => c.first \in { "caller", "drop" }
    BY <1>1, <1>6, <2>1 DEF CallInv
  <2>3. call[r].expired => c.first \in { "timer", "drop" }
    BY <1>1, <1>6, PathAssumption DEF CallInv
  <2> QED
    BY <1>6, <1>7, <1>9, <1>10, <2>2, <2>3 DEF Named
<1>15. tail'[r] # None
  BY <1>9, <1>10, PathAssumption DEF Results, Result0
<1>16. client' \in [ Requests -> { "idle", "absent", "waiting", "gone" } ] /\ faults' \in Nat
  BY <1>8 DEF TypeOK
<1>17. call[r].st \in Open /\ c.st \in Open \cup { "closed" }
  BY <1>1, <1>6 DEF Open
<1>18. Tailed(r)
  <2>1. cause' = [ cause EXCEPT ![r] = IF ~ res.ok /\ @ = None THEN Blamed(n, res.env) ELSE @ ]
    BY <1>9 DEF Blame, BlameVia, Blamed
  <2>2. ~ res.ok => Blamed(n, res.env) \in Causes
    BY BlamedIs DEF Results
  <2> QED
    BY <1>2, <1>10, <1>15, <2>1, <2>2 DEF Tailed, TypeOK
<1>19. c.op \in Streamed
  BY <1>1, <1>6
<1> QED
  BY <1>2, <1>6, <1>8, <1>9, <1>10, <1>12, <1>13, <1>14, <1>15, <1>16, <1>17, <1>18, <1>19, CallKeeps

\* A detached call ends.
LEMMA OrphanEndsKeeps ==
  ASSUME TypeOK, NEW r \in Requests, ReqInv(r), OrphanEnds(r)
  PROVE  Kept(r)
<1>1. /\ CallInv(r) /\ JoinInv(r) /\ call[r] \in EngineCalls /\ call[r].st = "ended"
      /\ call[r].op \notin Streamed
  BY DEF ReqInv, TypeOK, OrphanEnds
<1> DEFINE e == [ call[r] EXCEPT !.st = "closed" ]
<1>2. /\ e \in EngineCalls /\ e.node = call[r].node /\ e.op = call[r].op /\ e.st = "closed"
      /\ e.cut = call[r].cut /\ e.first = call[r].first /\ e.timer = call[r].timer
      /\ e.expired = call[r].expired /\ e.out = call[r].out
  BY <1>1 DEF EngineCalls
<1>3. call' = [ call EXCEPT ![r] = e ]
  BY <1>1 DEF OrphanEnds, TypeOK
<1> HIDE DEF e
<1>4. PICK c \in EngineCalls :
        /\ call' = [ call EXCEPT ![r] = c ] /\ c.node = call[r].node /\ c.op = call[r].op
        /\ c.st = "closed" /\ c.cut = call[r].cut /\ c.first = call[r].first
        /\ c.timer = call[r].timer /\ c.expired = call[r].expired /\ c.out = call[r].out
  BY <1>2, <1>3
<1>5. UNCHANGED << conf, row, up, client, ask, frames, tail, inflight, gauge, trail, answer, ran, cause, faults >>
  BY DEF OrphanEnds, world
<1>6. client' \in [ Requests -> { "idle", "absent", "waiting", "gone" } ] /\ faults' \in Nat
  BY <1>5 DEF TypeOK
<1>7. call'[r] = c /\ call' \in [ Requests -> EngineCalls ] /\ \A q \in Requests \ { r } : call'[q] = call[q]
  BY <1>4 DEF TypeOK
<1>8. EngineFor(r)
  BY <1>5, <1>7 DEF EngineFor, TypeOK
<1>9. CallInv(r)'
  <2>1. (Timed(r)' <=> Timed(r)) /\ ask'[r] = ask[r] /\ inflight' = inflight
    BY <1>5 DEF Timed
  <2> QED
    BY <1>1, <1>4, <1>7, <2>1 DEF CallInv, OnTheWire, Counted
<1>10. tail'[r] = None /\ call[r].st \in Open /\ c.st \in Open \cup { "closed" } /\ c.op \notin Streamed
  BY <1>1, <1>4, <1>5 DEF JoinInv, Open
<1>11. Tailed(r)
  BY <1>5, <1>10 DEF Tailed, TypeOK
<1> QED
  BY <1>4, <1>5, <1>6, <1>8, <1>9, <1>10, <1>11, CallKeeps

\* The caller cancels.
LEMMA CallerCancelsKeeps ==
  ASSUME TypeOK, NEW r \in Requests, ReqInv(r), CallerCancels(r)
  PROVE  Kept(r)
<1>1. UNCHANGED << conf, row, up, client, frames, call, tail, inflight, gauge, ran, trail, answer, cause >>
  BY DEF CallerCancels, world, engine
<1>2. /\ ask' \in [ Requests -> Requested ] /\ ask'[r].op = ask[r].op /\ ask'[r].surface = ask[r].surface
      /\ \A q \in Requests \ { r } : ask'[q] = ask[q]
  <2>1. ask \in [ Requests -> Requested ] /\ ask[r] \in Requested
    BY DEF TypeOK
  <2> DEFINE a == [ ask[r] EXCEPT !.cancel = TRUE ]
  <2>2. a \in Requested /\ a.op = ask[r].op /\ a.surface = ask[r].surface
    BY <2>1 DEF Requested
  <2>3. ask' = [ ask EXCEPT ![r] = a ]
    BY <2>1 DEF CallerCancels
  <2> HIDE DEF a
  <2> QED
    BY <2>1, <2>2, <2>3
<1>3. TypeOK'
  <2>1. faults' \in Nat
    BY DEF TypeOK, CallerCancels, Fault
  <2> QED
    BY <1>1, <1>2, <2>1 DEF TypeOK
<1>4. \A q \in Requests \ { r } : Same(q)
  BY <1>1, <1>2 DEF Same
<1>5. StackInv(r)'
  BY <1>1, <1>2 DEF ReqInv, StackInv, FrameInv, Busy, Loads, Top, Depth, OnTheWire, Timed
<1>6. CallInv(r)' /\ JoinInv(r)'
  BY <1>1, <1>2 DEF ReqInv, CallInv, JoinInv, Busy, Top, Timed, Counted, OnTheWire
<1>7. RanInv(r)'
  BY <1>1, <1>2 DEF ReqInv, RanInv, Busy, Top, Loads, Need, Sofar, Ran
<1>8. CauseInv(r)' /\ CutInv(r)'
  BY <1>1, <1>2 DEF ReqInv, CauseInv, CutInv, Busy, Top, Named, Ran, Rooted, Traces, Stamped, Span
<1>9. TrailInv(r)'
  <2>1. \A ok \in BOOLEAN : Recorded(r, ok)' = Recorded(r, ok)
    BY <1>1, <1>2 DEF Recorded
  <2> QED
    BY <1>1, <1>2, <2>1
       DEF ReqInv, TrailInv, Busy, Top, Loads, Silent, OnlyOk, OnlyError, Listing, Unrecorded
<1> QED
  BY <1>3, <1>4, <1>5, <1>6, <1>7, <1>8, <1>9 DEF Kept, ReqInv

\* The pond moves.
LEMMA RowMovesKeeps ==
  ASSUME TypeOK, NEW r \in Requests, ReqInv(r), RowGoes(r) \/ OwnerMoves(r)
  PROVE  Kept(r)
<1>1. /\ row' \in [ Requests -> Rows \cup { None } ] /\ faults' \in Nat
      /\ UNCHANGED << conf, up, client, ask, frames, engine, trail, answer, cause >>
  <2>1. row \in [ Requests -> Rows \cup { None } ] /\ faults \in Nat
    BY DEF TypeOK
  <2>2. CASE RowGoes(r)
    BY <2>1, <2>2 DEF RowGoes, Fault
  <2>3. CASE OwnerMoves(r)
    <3>1. PICK n \in Nodes : [ row[r] EXCEPT !.at = n ] \in Rows /\ row' = [ row EXCEPT ![r].at = n ]
      BY <2>3 DEF OwnerMoves
    <3>2. row' = [ row EXCEPT ![r] = [ row[r] EXCEPT !.at = n ] ]
      BY <2>1, <3>1
    <3> QED
      BY <2>1, <2>3, <3>1, <3>2 DEF OwnerMoves, Fault
  <2> QED
    BY <2>2, <2>3
<1> QED
  BY <1>1, NothingChanged

\* A step of the engine, or of one who cuts it.
LEMMA EngineKeeps ==
  ASSUME TypeOK, NEW r \in Requests, ReqInv(r),
         \/ EngineStep(r) \/ Expire(r) \/ CallerCancels(r) \/ CancelSeen(r) \/ DropCancels(r)
         \/ StreamDropped(r) \/ RowGoes(r) \/ OwnerMoves(r)
  PROVE  Kept(r)
  BY CheckoutKeeps, FlowsKeeps, ProducerEndsKeeps, OrphanEndsKeeps, EngineEndsKeeps, ExpireKeeps, CallerCancelsKeeps,
     CancelSeenKeeps, DropCancelsKeeps, StreamDroppedKeeps, RowMovesKeeps DEF EngineStep
-----------------------------------------------------------------------------
(* Handlers that are dropped. *)

\* What a dropped handler may do to its call: fire its token, or stop to listen; a crash kills it.
Left(r, c) ==
  /\ c \in EngineCalls /\ c.node = call[r].node /\ c.op = call[r].op /\ c.out = call[r].out
  /\ c.expired = call[r].expired
  /\ c.first = call[r].first \/ call[r].first = None
  /\ c.st = call[r].st \/ (call[r].st # "closed" /\ c.st = "dead")

\* What was told of the cut stays true.
LEMMA LeftNamed ==
  ASSUME NEW r \in Requests, Left(r, call'[r]), NEW res, Named(r, res)
  PROVE  Named(r, res)'
  BY PathAssumption DEF Left, Named

\* The rest of the stack.
LEMMA RestOfStack ==
  ASSUME TypeOK, NEW r \in Requests, Busy(r), StackInv(r),
         frames'[r] = SubSeq(frames[r], SameNode(frames[r]) + 1, Depth(r)),
         conf' = conf, ask'[r] = ask[r], answer'[r] = answer[r], client'[r] = "gone"
  PROVE  /\ frames'[r] \in Seq(Frames) /\ StackInv(r)' /\ ~ Loads(r)'
         /\ Busy(r)' => Top(r)' = Top(r) /\ Top(r).op # "read_query"
         /\ Busy(r)' <=> SameNode(frames[r]) < Depth(r)
         /\ \A i \in 1 .. Depth(r)' : frames'[r][i] = frames[r][i + SameNode(frames[r])]
         /\ Depth(r)' = Depth(r) - SameNode(frames[r])
<1>1. PICK s \in Seq(Frames) : s = frames[r] /\ s # << >>
  BY DEF TypeOK, Busy
<1>2. PICK k \in 1 .. Len(s) : k = SameNode(s)
  BY <1>1, SameNodeIs
<1>3. PICK d \in Nat : d = Len(s) /\ d = Depth(r) /\ d > 0 /\ k \in 1 .. d
  BY <1>1, <1>2, StackParts DEF Depth
<1>4. PICK t \in Seq(Frames) :
        /\ t = frames'[r] /\ Len(t) = d - k /\ \A i \in 1 .. d - k : t[i] = s[i + k]
        /\ t # << >> => k < d /\ Last(t) = Last(s)
  <2>1. /\ SubSeq(s, k + 1, Len(s)) \in Seq(Frames) /\ Len(SubSeq(s, k + 1, Len(s))) = Len(s) - k
        /\ \A i \in 1 .. Len(s) - k : SubSeq(s, k + 1, Len(s))[i] = s[i + k]
        /\ SubSeq(s, k + 1, Len(s)) # << >> => k < Len(s) /\ Last(SubSeq(s, k + 1, Len(s))) = Last(s)
    BY BottomGone
  <2>2. frames'[r] = SubSeq(s, k + 1, Len(s))
    BY <1>1, <1>2, <1>3
  <2> QED
    BY <1>3, <2>1, <2>2
<1>5. /\ Busy(r)' <=> t # << >>
      /\ Depth(r)' = d - k
      /\ Busy(r)' => Top(r)' = Top(r) /\ k < d
  BY <1>1, <1>4 DEF Busy, Depth, Top
<1>6. t # << >> <=> k < d
  <2>1. t # << >> <=> Len(t) > 0
    BY StackParts
  <2>2. Len(t) = d - k /\ k \in Int /\ d \in Int
    BY <1>3, <1>4
  <2> QED
    BY <2>1, <2>2
<1>7. \A i \in 1 .. d - k : /\ i + k \in 1 .. d /\ i + k > 1 /\ t[i] = frames[r][i + k]
                            /\ (i < d - k => i + k \in 1 .. d - 1)
  BY <1>1, <1>3, <1>4
<1>8. \A i \in 1 .. d - k : FrameInv(r, i)' /\ t[i].op \notin { "read_query", "load_dataset" }
  <2> SUFFICES ASSUME NEW i \in 1 .. d - k
               PROVE  FrameInv(r, i)' /\ t[i].op \notin { "read_query", "load_dataset" }
    OBVIOUS
  <2>1. PICK j \in 1 .. d : j = i + k /\ j > 1 /\ t[i] = frames[r][j]
    BY <1>7
  <2>2. FrameInv(r, j) /\ j # 1
    BY <1>3, <2>1 DEF StackInv
  <2>3. t[i].op \notin { "read_query", "load_dataset" }
    <3>1. ask[r].op # "load_dataset" => OnTheWire(ask[r].op) # "load_dataset"
      BY DEF OnTheWire
    <3> QED
      BY <2>1, <2>2, <3>1 DEF FrameInv
  <2>4. frames'[r][i] = frames[r][j]
    BY <1>4, <2>1
  <2>5. frames[r][j].op \notin { "read_query", "load_dataset" }
    BY <2>1, <2>3
  <2>6. FrameInv(r, i)'
    BY <2>2, <2>4, <2>5 DEF FrameInv, OnTheWire
  <2> QED
    BY <2>3, <2>6
<1>9. \A i \in 1 .. (d - k) - 1 : frames'[r][i].at = "waiting"
  <2> SUFFICES ASSUME NEW i \in 1 .. (d - k) - 1 PROVE frames'[r][i].at = "waiting"
    OBVIOUS
  <2>1. i \in 1 .. d - k /\ i < d - k
    BY <1>3
  <2>2. i + k \in 1 .. d - 1 /\ frames'[r][i] = frames[r][i + k]
    BY <1>4, <1>7, <2>1
  <2> QED
    BY <1>3, <2>2 DEF StackInv
<1>10. Busy(r)' => 1 \in 1 .. d - k /\ d - k \in 1 .. d - k /\ frames'[r][1] = t[1] /\ Top(r)' = t[d - k]
  <2>1. t # << >> => Last(t) = t[d - k]
    BY <1>4, StackParts
  <2>2. k < d => 1 \in 1 .. d - k /\ d - k \in 1 .. d - k
    <3>1. k \in Int /\ d \in Int
      BY <1>3
    <3> QED
      BY <3>1
  <2>3. t = frames'[r]
    BY <1>4
  <2> QED
    BY <1>5, <2>1, <2>2, <2>3 DEF Top
<1>11. ~ Loads(r)' /\ (Busy(r)' => Top(r).op # "read_query")
  BY <1>5, <1>8, <1>10 DEF Loads
<1>12. answer[r] = None
  BY DEF StackInv
<1>13. StackInv(r)'
  BY <1>5, <1>8, <1>9, <1>11, <1>12 DEF StackInv
<1>14. SameNode(frames[r]) = k
  BY <1>1, <1>2
<1>15. \A i \in 1 .. Depth(r)' : frames'[r][i] = frames[r][i + SameNode(frames[r])]
  BY <1>4, <1>5, <1>7, <1>14
<1> QED
  BY <1>3, <1>4, <1>5, <1>6, <1>11, <1>13, <1>14, <1>15

\* Nothing that holds of a request is lost with its first handlers.
LEMMA BottomDropped ==
  ASSUME TypeOK, NEW r \in Requests, ReqInv(r), Busy(r),
         frames'[r] = SubSeq(frames[r], SameNode(frames[r]) + 1, Depth(r)),
         conf' = conf, client'[r] = "gone", ask'[r] = ask[r], trail'[r] = trail[r],
         answer'[r] = answer[r], ran'[r] = ran[r], cause'[r] = cause[r], tail'[r] = tail[r],
         Left(r, call'[r]), CallInv(r)',
         Busy(r)' /\ Top(r).at = "running" => call'[r].st = call[r].st
  PROVE  ReqInv(r)' /\ frames'[r] \in Seq(Frames)
<1>1. StackInv(r) /\ JoinInv(r) /\ RanInv(r) /\ CauseInv(r) /\ CutInv(r) /\ TrailInv(r)
  BY DEF ReqInv
<1>2. /\ frames'[r] \in Seq(Frames) /\ StackInv(r)' /\ ~ Loads(r)'
      /\ Busy(r)' => Top(r)' = Top(r) /\ Top(r).op # "read_query"
  BY <1>1, RestOfStack
<1>3. answer[r] = None /\ Top(r) \in Frames /\ (Top(r).at = "collecting" => Top(r).op = "read_query")
  BY <1>1, TopIs DEF StackInv, FrameInv
<1>4. JoinInv(r)'
  BY <1>1, <1>2, <1>3 DEF JoinInv, Left
<1>5. RanInv(r)'
  <2>1. Need(r)' = Need(r) /\ (Busy(r)' => (Ran(r)' <=> Ran(r)))
    BY <1>2 DEF Need, Ran
  <2> QED
    BY <1>1, <1>2, <1>3, <2>1 DEF RanInv
<1>6. CauseInv(r)'
  <2>1. Busy(r)' => (Ran(r)' <=> Ran(r))
    BY <1>2 DEF Ran
  <2>2. call'[r].node = call[r].node
    BY DEF Left
  <2>3. /\ Rooted(r, tail[r].env, call[r].node)' <=> Rooted(r, tail[r].env, call[r].node)
        /\ Busy(r)' => (Rooted(r, Top(r).res.env, Top(r).node)' <=> Rooted(r, Top(r).res.env, Top(r).node))
    BY <1>2, <2>2 DEF Rooted, Traces, Stamped, Span
  <2> QED
    BY <1>1, <1>2, <1>3, <2>1, <2>3 DEF CauseInv
<1>7. CutInv(r)'
  <2>1. tail[r] # None => Named(r, tail[r])
    BY <1>1 DEF CutInv
  <2>2. PICK res : res = tail[r]
    OBVIOUS
  <2>3. tail'[r] # None => Named(r, tail[r])'
    BY <2>1, <2>2, LeftNamed
  <2>4. PICK top : top = Top(r).res
    OBVIOUS
  <2>5. Busy(r)' /\ Top(r)'.at = "relaying" => Named(r, Top(r).res)'
    <3>1. Busy(r)' /\ Top(r)'.at = "relaying" => Named(r, top) /\ Top(r)'.res = top
      BY <1>1, <1>2, <2>4 DEF CutInv
    <3> QED
      BY <3>1, LeftNamed
  <2> QED
    BY <1>3, <2>3, <2>5 DEF CutInv
<1>8. TrailInv(r)'
  <2>1. PICK n : n = call[r].node /\ call'[r].node = n
    BY DEF Left
  <2>2. /\ \A b \in BOOLEAN : Recorded(r, b)' = Recorded(r, b)
        /\ Silent(r) => Silent(r)'
        /\ OnlyError(r) => OnlyError(r)'
        /\ \A m : OnlyOk(r, m) => OnlyOk(r, m)'
    BY NoAudit
  <2>3. PICK f : f = Top(r)
    OBVIOUS
  <2>4. Busy(r)' => Top(r)' = f /\ f.at # "collecting"
    BY <1>2, <1>3, <2>3
  <2>5. /\ f.at \in Early \cup { "running" } => Silent(r) \/ (ask[r].op = "load_dataset" /\ ~ Loads(r))
        /\ f.at = "relaying" /\ ask[r].op # "load_dataset" =>
             IF f.res.ok THEN OnlyOk(r, f.res.by) /\ f.res.by = n
             ELSE OnlyError(r) \/ "detail" \in cause[r].env.facts \/ Recorded(r, TRUE) # {}
    BY <1>1, <2>1, <2>3 DEF TrailInv
  <2>6. /\ f.at \in Early \cup { "running" } => Silent(r)' \/ (ask'[r].op = "load_dataset" /\ ~ Loads(r)')
        /\ f.at = "relaying" /\ ask'[r].op # "load_dataset" =>
             IF f.res.ok THEN OnlyOk(r, f.res.by)' /\ f.res.by = n
             ELSE OnlyError(r)' \/ "detail" \in cause'[r].env.facts \/ Recorded(r, TRUE)' # {}
    BY <1>2, <2>2, <2>5
  <2> QED
    BY <1>2, <1>3, <2>1, <2>4, <2>6 DEF TrailInv
<1> QED
  BY <1>2, <1>4, <1>5, <1>6, <1>7, <1>8 DEF ReqInv

\* A call whose handler is gone.
LEMMA AbandonedIs ==
  ASSUME NEW c \in EngineCalls
  PROVE  LET e == Abandoned(c)
         IN  /\ e \in EngineCalls /\ e.node = c.node /\ e.op = c.op /\ e.out = c.out /\ e.st = c.st
             /\ e.expired = c.expired
             /\ \/ e.first = c.first /\ e.cut = c.cut /\ e.timer = c.timer
                \/ /\ c.op = "write_query" /\ e.cut = TRUE /\ e.timer = "off"
                   /\ e.first = IF c.first = None THEN "dropped" ELSE c.first
<1>1. CASE c.op = "write_query"
  <2>1. Abandoned(c) = drop_guard(c)
    BY <1>1 DEF Abandoned, Streamed
  <2> DEFINE a == Fire(c, "dropped")
  <2>2. /\ a \in EngineCalls /\ a.cut = TRUE /\ a.first = (IF c.first = None THEN "dropped" ELSE c.first)
        /\ a.node = c.node /\ a.op = c.op /\ a.st = c.st /\ a.out = c.out /\ a.expired = c.expired
    BY FireIs DEF Whos
  <2> HIDE DEF a
  <2>3. drop_guard(c) = [ a EXCEPT !.timer = "off" ]
    BY DEF drop_guard, a
  <2> QED
    BY <1>1, <2>1, <2>2, <2>3 DEF EngineCalls
<1>2. CASE c.op # "write_query" /\ c.op \in Streamed
  <2>1. Abandoned(c) = [ c EXCEPT !.heard = FALSE ]
    BY <1>2 DEF Abandoned
  <2> QED
    BY <2>1 DEF EngineCalls
<1>3. CASE c.op # "write_query" /\ c.op \notin Streamed
  <2>1. Abandoned(c) = c
    BY <1>3 DEF Abandoned
  <2> QED
    BY <2>1
<1> QED
  BY <1>1, <1>2, <1>3

\* It is left behind as the invariants say.
LEMMA AbandonedLeft ==
  ASSUME TypeOK, NEW r \in Requests, CallInv(r), call[r].st # "none",
         ask'[r] = ask[r], call'[r] = Abandoned(call[r]), ~ Busy(r)',
         \A n \in Nodes : r \in inflight'[n] => r \in inflight[n]
  PROVE  Left(r, call'[r]) /\ CallInv(r)'
<1>1. PICK c \in EngineCalls : c = call[r]
  BY DEF TypeOK
<1>2. PICK e \in EngineCalls :
        /\ e = call'[r] /\ e.node = c.node /\ e.op = c.op /\ e.out = c.out /\ e.st = c.st
        /\ e.expired = c.expired
        /\ \/ e.first = c.first /\ e.cut = c.cut /\ e.timer = c.timer
           \/ /\ c.op = "write_query" /\ e.cut = TRUE /\ e.timer = "off"
              /\ e.first = IF c.first = None THEN "dropped" ELSE c.first
  BY <1>1, AbandonedIs
<1>3. Left(r, call'[r])
  BY <1>1, <1>2 DEF Left
<1>4. (Timed(r)' <=> Timed(r)) /\ (c.op = "write_query" => Timed(r)) /\ ask'[r].op = ask[r].op
  BY <1>1 DEF CallInv, Timed, Counted
<1>0. call'[r] = e
  BY <1>2
<1>7. \A n \in Nodes : r \in inflight'[n] => Timed(r)'
  BY <1>4 DEF CallInv
<1>8. /\ (c.st # "none" => c.node \in Nodes /\ c.op \in Operations /\ (Counted(c.op) <=> Timed(r)))
      /\ c.op \notin Registry \cup { "load_dataset" }
      /\ IF ask[r].op = "load_dataset" THEN c.op = "write_query"
         ELSE c.op \in { ask[r].op, OnTheWire(ask[r].op) }
      /\ (c.st \in { "queued", "running", "flowing" } => c.out = None)
      /\ (c.st \in { "ended", "closed" } => c.out \in Outcomes)
      /\ (c.cut <=> c.first # None) /\ (c.expired => c.first \in { "timer", "drop" })
      /\ (c.timer = "armed" => ~ c.expired /\ c.first \in { None, "drop" })
      /\ (c.first = "timer" => c.expired)
      /\ (c.st \in { "ended", "closed" } /\ c.out = "Cancelled" => c.cut)
      /\ (c.first = "dropped" /\ c.st \in { "queued", "running", "flowing", "ended" } => c.op \notin Streamed)
      /\ (~ Timed(r) => ~ c.cut /\ c.timer = "off") /\ c.st # "none"
  BY <1>1 DEF CallInv
<1>5. CASE e.first = c.first /\ e.cut = c.cut /\ e.timer = c.timer
  <2>1. e.cut <=> e.first # None
    BY <1>5, <1>8
  <2>2. e.timer = "armed" => ~ e.expired /\ e.first \in { None, "drop" }
    BY <1>2, <1>5, <1>8
  <2>3. (e.expired => e.first \in { "timer", "drop" }) /\ (e.first = "timer" => e.expired)
    BY <1>2, <1>5, <1>8
  <2>4. e.st \in { "ended", "closed" } /\ e.out = "Cancelled" => e.cut
    BY <1>2, <1>5, <1>8
  <2>5. e.node \in Nodes /\ e.op \in Operations /\ (Counted(e.op) <=> Timed(r)')
    BY <1>2, <1>4, <1>8 DEF Counted
  <2>6. e.op \notin Registry \cup { "load_dataset" } /\ e.st # "none"
        /\ IF ask'[r].op = "load_dataset" THEN e.op = "write_query"
           ELSE e.op \in { ask'[r].op, OnTheWire(ask'[r].op) }
    BY <1>2, <1>4, <1>8
  <2>7. ~ Timed(r)' => ~ e.cut /\ e.timer = "off"
    BY <1>2, <1>4, <1>5, <1>8
  <2>8. e.first = "dropped" /\ e.st \in { "queued", "running", "flowing", "ended" } => e.op \notin Streamed
    BY <1>2, <1>5, <1>8
  <2>9. (e.st \in { "none", "queued", "running", "flowing" } => e.out = None) /\ (e.st \in { "ended", "closed" } => e.out \in Outcomes)
    BY <1>2, <1>8
  <2> QED
    BY <1>0, <1>3, <1>7, <2>1, <2>2, <2>3, <2>4, <2>5, <2>6, <2>7, <2>8, <2>9 DEF CallInv, Counted, OnTheWire
<1>6. CASE /\ c.op = "write_query" /\ e.cut = TRUE /\ e.timer = "off"
           /\ e.first = IF c.first = None THEN "dropped" ELSE c.first
  <2>1. /\ e.first # None /\ (e.expired => e.first \in { "timer", "drop" })
        /\ (e.first = "timer" => e.expired) /\ e.op \notin Streamed
    BY <1>1, <1>2, <1>6, PathAssumption DEF CallInv, Streamed
  <2> QED
    BY <1>2, <1>3, <1>4, <1>6, <1>7, <1>8, <2>1 DEF CallInv, Counted, OnTheWire
<1> QED
  BY <1>2, <1>3, <1>5, <1>6

\* A call that nobody touches.
LEMMA UntouchedLeft ==
  ASSUME TypeOK, NEW r \in Requests, CallInv(r), ask'[r] = ask[r], call'[r] = call[r], Busy(r)' => Busy(r),
         \A n \in Nodes : r \in inflight'[n] => r \in inflight[n]
  PROVE  Left(r, call'[r]) /\ CallInv(r)'
<1>1. Timed(r)' <=> Timed(r)
  BY DEF Timed
<1>2. CallInv(r)'
  BY <1>1 DEF CallInv, OnTheWire, Counted
<1> QED
  BY <1>2 DEF Left, TypeOK

\* A hang-up, or a reset.
LEMMA DropFuturesKeeps ==
  ASSUME TypeOK, NEW r \in Requests, ReqInv(r), Busy(r), DropFutures(r), faults' \in Nat,
         client' \in [ Requests -> { "idle", "absent", "waiting", "gone" } ], client'[r] = "gone",
         \A q \in Requests \ { r } : client'[q] = client[q]
  PROVE  Kept(r)
<1>1. StackInv(r) /\ CallInv(r) /\ JoinInv(r)
  BY DEF ReqInv
<1>2. /\ frames' = [ frames EXCEPT ![r] = SubSeq(frames[r], SameNode(frames[r]) + 1, Depth(r)) ]
      /\ call' = IF SameNode(frames[r]) = Depth(r) /\ Top(r).at \in { "running", "collecting" }
                 THEN [ call EXCEPT ![r] = Abandoned(call[r]) ] ELSE call
      /\ UNCHANGED << conf, row, up, ask, tail, inflight, gauge, trail, answer, ran, cause >>
  BY DEF DropFutures
<1>3. frames'[r] = SubSeq(frames[r], SameNode(frames[r]) + 1, Depth(r))
      /\ \A q \in Requests \ { r } : frames'[q] = frames[q]
  BY <1>2 DEF TypeOK
<1>4. frames'[r] \in Seq(Frames) /\ (Busy(r)' <=> SameNode(frames[r]) < Depth(r))
  BY <1>1, <1>2, <1>3, RestOfStack
<1>5. frames' \in [ Requests -> Seq(Frames) ]
  <2>1. frames \in [ Requests -> Seq(Frames) ]
    BY DEF TypeOK
  <2> QED
    BY <1>2, <1>3, <1>4, <2>1
<1>6. /\ call' \in [ Requests -> EngineCalls ] /\ \A q \in Requests \ { r } : call'[q] = call[q]
      /\ Left(r, call'[r]) /\ CallInv(r)'
      /\ Busy(r)' => call'[r] = call[r]
  <2>1. CASE SameNode(frames[r]) = Depth(r) /\ Top(r).at \in { "running", "collecting" }
    <3>1. call' = [ call EXCEPT ![r] = Abandoned(call[r]) ] /\ Abandoned(call[r]) \in EngineCalls
      BY <1>2, <2>1, AbandonedIs DEF TypeOK
    <3>2. /\ call' \in [ Requests -> EngineCalls ] /\ \A q \in Requests \ { r } : call'[q] = call[q]
          /\ call'[r] = Abandoned(call[r])
      BY <3>1 DEF TypeOK
    <3>3. ~ Busy(r)' /\ call[r].st # "none"
      <4>1. Depth(r) \in Nat
        BY <1>1, TopIs
      <4>2. ~ (Depth(r) < Depth(r))
        BY <4>1
      <4> QED
        BY <1>1, <1>4, <2>1, <4>2 DEF JoinInv
    <3>4. Left(r, call'[r]) /\ CallInv(r)'
      BY <1>1, <1>2, <3>2, <3>3, AbandonedLeft
    <3> QED
      BY <3>2, <3>3, <3>4
  <2>2. CASE ~ (SameNode(frames[r]) = Depth(r) /\ Top(r).at \in { "running", "collecting" })
    <3>1. call' = call
      BY <1>2, <2>2
    <3>2. Left(r, call'[r]) /\ CallInv(r)'
      BY <1>1, <1>2, <3>1, UntouchedLeft
    <3> QED
      BY <3>1, <3>2 DEF TypeOK
  <2> QED
    BY <2>1, <2>2
<1>7. ReqInv(r)'
  <2>1. Busy(r)' /\ Top(r).at = "running" => call'[r].st = call[r].st
    BY <1>6
  <2>2. /\ conf' = conf /\ ask'[r] = ask[r] /\ trail'[r] = trail[r] /\ answer'[r] = answer[r]
        /\ ran'[r] = ran[r] /\ cause'[r] = cause[r] /\ tail'[r] = tail[r]
    BY <1>2
  <2> QED
    BY <1>3, <1>6, <2>1, <2>2, BottomDropped
<1>8. UNCHANGED << conf, row, up, ask, tail, inflight, gauge, trail, answer, ran, cause >>
  BY <1>2
<1>9. TypeOK'
  BY <1>5, <1>6, <1>8 DEF TypeOK
<1>10. \A q \in Requests \ { r } : Same(q)
  BY <1>3, <1>6, <1>8 DEF Same
<1> QED
  BY <1>7, <1>9, <1>10 DEF Kept

\* The caller hangs up, or the reset arrives.
LEMMA HangupKeeps ==
  ASSUME TypeOK, NEW r \in Requests, ReqInv(r), Hangup(r) \/ Reset(r)
  PROVE  Kept(r)
<1>1. /\ Busy(r) /\ DropFutures(r) /\ faults' \in Nat
      /\ client' \in [ Requests -> { "idle", "absent", "waiting", "gone" } ] /\ client'[r] = "gone"
      /\ \A q \in Requests \ { r } : client'[q] = client[q]
  <2>1. client \in [ Requests -> { "idle", "absent", "waiting", "gone" } ] /\ faults \in Nat
    BY DEF TypeOK
  <2>2. CASE Hangup(r)
    BY <2>1, <2>2 DEF Hangup, Fault, Busy
  <2>3. CASE Reset(r)
    BY <2>1, <2>3 DEF Reset, Busy
  <2> QED
    BY <2>2, <2>3
<1> QED
  BY <1>1, DropFuturesKeeps
-----------------------------------------------------------------------------
(* A crash. *)

\* A call that dies with its node.
LEMMA DeadLeft ==
  ASSUME TypeOK, NEW r \in Requests, CallInv(r), call[r].st \notin { "none", "closed" },
         ask'[r] = ask[r], call'[r] = [ call[r] EXCEPT !.st = "dead" ],
         \A n \in Nodes : r \in inflight'[n] => r \in inflight[n]
  PROVE  Left(r, call'[r]) /\ CallInv(r)' /\ call'[r].st = "dead"
<1>1. PICK c \in EngineCalls : c = call[r]
  BY DEF TypeOK
<1> DEFINE e == [ c EXCEPT !.st = "dead" ]
<1>2. /\ e \in EngineCalls /\ e.node = c.node /\ e.op = c.op /\ e.out = c.out /\ e.st = "dead"
      /\ e.expired = c.expired /\ e.first = c.first /\ e.cut = c.cut /\ e.timer = c.timer
  BY DEF EngineCalls
<1>3. call'[r] = e
  BY <1>1
<1> HIDE DEF e
<1>4. Left(r, call'[r])
  BY <1>1, <1>2, <1>3 DEF Left
<1>5. (Timed(r)' <=> Timed(r)) /\ ask'[r].op = ask[r].op
  BY DEF Timed
<1>6. CallInv(r)'
  BY <1>1, <1>2, <1>3, <1>5 DEF CallInv, OnTheWire, Counted
<1> QED
  BY <1>2, <1>3, <1>4, <1>6

\* A request with no handler on the node that crashed.
LEMMA Elsewhere ==
  ASSUME TypeOK, NEW r \in Requests, ReqInv(r), conf' = conf, frames'[r] = frames[r],
         client'[r] = client[r], ask'[r] = ask[r], trail'[r] = trail[r],
         answer'[r] = answer[r], ran'[r] = ran[r], cause'[r] = cause[r], tail'[r] = tail[r],
         Left(r, call'[r]), CallInv(r)', call[r].st = "none" => call'[r].st = "none",
         Busy(r) /\ Top(r).at = "running" => call'[r].st = call[r].st,
         Busy(r) /\ Top(r).at = "collecting" /\ Top(r).to = None => call'[r].st = call[r].st
  PROVE  ReqInv(r)'
<1>1. StackInv(r) /\ JoinInv(r) /\ RanInv(r) /\ CauseInv(r) /\ CutInv(r) /\ TrailInv(r)
  BY DEF ReqInv
<1>2. StackInv(r)'
  BY <1>1 DEF StackInv, FrameInv, Busy, Loads, Top, Depth, OnTheWire, Timed
<1>3. RanInv(r)'
  BY <1>1 DEF RanInv, Busy, Top, Loads, Need, Sofar, Ran
<1>5. Top(r)' = Top(r) /\ (Busy(r)' <=> Busy(r))
  BY DEF Top, Busy
<1>4. CauseInv(r)'
  <2>1. Ran(r)' <=> Ran(r)
    BY <1>5 DEF Ran
  <2>2. call'[r].node = call[r].node
    BY DEF Left
  <2>3. /\ Rooted(r, tail[r].env, call[r].node)' <=> Rooted(r, tail[r].env, call[r].node)
        /\ Rooted(r, Top(r).res.env, Top(r).node)' <=> Rooted(r, Top(r).res.env, Top(r).node)
    BY <1>5, <2>2 DEF Rooted, Traces, Stamped, Span
  <2>4. answer[r].env = Stamped(r, cause[r].env, Span(cause[r])) =>
          answer'[r].env = Stamped(r, cause[r].env, Span(cause[r]))'
    BY DEF Stamped, Span
  <2> QED
    BY <1>1, <1>5, <2>1, <2>3, <2>4 DEF CauseInv
<1>6. JoinInv(r)'
  BY <1>1, <1>5 DEF JoinInv, Left
<1>7. CutInv(r)'
  <2>1. \A res : Named(r, res) => Named(r, res)'
    BY LeftNamed
  <2> QED
    BY <1>1, <1>5, <2>1 DEF CutInv
<1>8. TrailInv(r)'
  <2>1. \A ok \in BOOLEAN : Recorded(r, ok)' = Recorded(r, ok)
    BY DEF Recorded, OnTheWire
  <2>2. call'[r].node = call[r].node
    BY DEF Left
  <2> QED
    BY <1>1, <2>1, <2>2, ZenonT(60)
       DEF TrailInv, Busy, Top, Loads, Silent, OnlyOk, OnlyError, Listing, Unrecorded
<1> QED
  BY <1>2, <1>3, <1>4, <1>6, <1>7, <1>8 DEF ReqInv

\* The handlers below one.
LEMMA FirstPart ==
  ASSUME NEW s \in Seq(Frames), NEW k \in 1 .. Len(s)
  PROVE  /\ SubSeq(s, 1, k) \in Seq(Frames) /\ Len(SubSeq(s, 1, k)) = k
         /\ \A i \in 1 .. k : SubSeq(s, 1, k)[i] = s[i]
<1>1. Len(s) \in Nat /\ \A i \in 1 .. Len(s) : s[i] \in Frames
  BY StackParts
<1>2. k \in Int /\ k >= 1 /\ k <= Len(s)
  BY <1>1
<1>3. \A i \in 1 .. k : i \in 1 .. Len(s)
  BY <1>1, <1>2
<1>4. \A i \in 1 .. k : s[i] \in Frames
  BY <1>1, <1>3
<1>5. /\ SubSeq(s, 1, k) \in Seq(Frames)
      /\ Len(SubSeq(s, 1, k)) = (IF 1 <= k THEN k - 1 + 1 ELSE 0)
      /\ \A i \in 1 .. k - 1 + 1 : SubSeq(s, 1, k)[i] = s[1 + i - 1]
  BY <1>2, <1>4, SubSeqProperties
<1>6. Len(SubSeq(s, 1, k)) = k
  BY <1>2, <1>5
<1>7. k - 1 + 1 = k
  BY <1>2
<1>8. \A i \in 1 .. k : i \in 1 .. k - 1 + 1 /\ 1 + i - 1 = i
  BY <1>2
<1>9. \A i \in 1 .. k : SubSeq(s, 1, k)[i] = s[i]
  BY <1>5, <1>8
<1> QED
  BY <1>5, <1>6, <1>9

\* A request whose owner crashed while a handler waited for it.
LEMMA HopLost ==
  ASSUME TypeOK, NEW r \in Requests, ReqInv(r), Busy(r), NEW n \in Nodes,
         frames[r][1].node # n, Top(r).node = n,
         frames'[r] = LostHop(frames[r], n),
         cause'[r] = Blamed(Last(LostHop(frames[r], n)).node, unreachable_owner),
         conf' = conf, client'[r] = client[r], ask'[r] = ask[r], trail'[r] = trail[r],
         answer'[r] = answer[r], ran'[r] = ran[r], tail'[r] = tail[r],
         Left(r, call'[r]), CallInv(r)'
  PROVE  ReqInv(r)' /\ frames'[r] \in Seq(Frames)
         /\ cause'[r] \in Causes
<1>1. StackInv(r) /\ JoinInv(r) /\ RanInv(r) /\ CauseInv(r) /\ CutInv(r) /\ TrailInv(r)
  BY DEF ReqInv
<1>2. PICK s \in Seq(Frames) : s = frames[r] /\ s # << >>
  BY DEF TypeOK, Busy
<1>3. PICK d \in Nat : d = Len(s) /\ d = Depth(r) /\ d > 0 /\ s[d] = Top(r)
  BY <1>1, <1>2, TopIs, StackParts DEF Depth
<1>4. PICK k \in 1 .. d - 1 : s[k].node # n /\ LostHop(s, n) = UpTo(s, k)
  <2>1. s[1].node # n /\ s[Len(s)].node = n
    BY <1>2, <1>3
  <2>2. \E k \in 1 .. Len(s) - 1 : s[k].node # n /\ LostHop(s, n) = UpTo(s, k)
    BY <1>2, <2>1, LostHopIs
  <2>3. 1 .. Len(s) - 1 = 1 .. d - 1
    BY <1>3
  <2> QED
    BY <2>2, <2>3
<1>5. k \in 1 .. d /\ s[k] \in Frames /\ k \in Nat /\ k >= 1 /\ k < d
  <2>1. k \in 1 .. d /\ k \in Nat /\ k >= 1 /\ k < d
    <3>1. \A m \in 1 .. d - 1 : m \in 1 .. d /\ m \in Nat /\ m >= 1 /\ m < d
      OBVIOUS
    <3> QED
      BY <1>4, <3>1
  <2>2. k \in 1 .. Len(s)
    BY <1>3, <2>1
  <2> QED
    BY <2>1, <2>2, StackParts
<1>6. PICK res \in Results : res = Err(unreachable_owner) /\ res.ok = FALSE /\ res.env = unreachable_owner
  BY OwnErrors, MadeResults
<1>7. PICK g \in Frames :
        /\ g = CutOff(s[k]) /\ Still(s[k], g)
        /\ g.at = "relaying" /\ g.res = res
  <2> DEFINE h == CutOff(s[k])
  <2>1. h \in Frames /\ Still(s[k], h) /\ h.at = "relaying" /\ h.res = res
    BY <1>5, <1>6 DEF Frames, Places, Still, CutOff
  <2> HIDE DEF h
  <2>2. PICK g \in Frames : g = h
    BY <2>1
  <2> QED
    BY <2>1, <2>2 DEF h
<1>8. PICK t \in Seq(Frames) :
        /\ t = frames'[r] /\ Len(t) = k /\ t # << >> /\ Last(t) = g /\ t[k] = g
        /\ \A i \in 1 .. k - 1 : t[i] = s[i]
  <2>1. PICK u \in Seq(Frames) : u = SubSeq(s, 1, k) /\ Len(u) = k /\ \A i \in 1 .. k : u[i] = s[i]
    <3>1. k \in 1 .. Len(s)
      BY <1>3, <1>5
    <3>2. /\ SubSeq(s, 1, k) \in Seq(Frames) /\ Len(SubSeq(s, 1, k)) = k
          /\ \A i \in 1 .. k : SubSeq(s, 1, k)[i] = s[i]
      BY <3>1, FirstPart
    <3> QED
      BY <3>2
  <2>2. u # << >>
    <3>1. Len(u) = k /\ k \in Nat /\ k >= 1
      BY <1>5, <2>1
    <3>2. Len(u) > 0
      BY <3>1
    <3> QED
      BY <3>2, StackParts
  <2>3. PICK t \in Seq(Frames) :
          t = [ u EXCEPT ![Len(u)] = g ] /\ Len(t) = Len(u) /\ Last(t) = g /\ \A i \in 1 .. Len(u) - 1 : t[i] = u[i]
    BY <2>2, TopChanged
  <2>4. t # << >> /\ t[k] = g
    <3>1. Len(t) = k /\ k > 0
      BY <1>5, <2>1, <2>3
    <3>2. Last(t) = t[Len(t)] /\ (t # << >> <=> Len(t) > 0)
      BY StackParts
    <3> QED
      BY <2>3, <3>1, <3>2
  <2>5. t = frames'[r]
    BY <1>2, <1>4, <1>7, <2>1, <2>3 DEF UpTo
  <2>6. Len(t) = k /\ Last(t) = g /\ \A i \in 1 .. k - 1 : t[i] = u[i]
    BY <2>1, <2>3
  <2>7. \A i \in 1 .. k - 1 : i \in 1 .. k
    BY <1>5
  <2>8. \A i \in 1 .. k - 1 : t[i] = s[i]
    BY <2>1, <2>6, <2>7
  <2> QED
    BY <2>4, <2>5, <2>6, <2>8
<1>9. Busy(r)' /\ Top(r)' = g /\ Depth(r)' = k
  BY <1>8 DEF Busy, Top, Depth
<1>10. \A i \in 1 .. k : frames[r][i].at = "waiting" /\ FrameInv(r, i) /\ frames[r][i] = s[i]
  <2>1. \A i \in 1 .. k : i \in 1 .. d - 1 /\ i \in 1 .. d
    BY <1>5
  <2>2. \A i \in 1 .. Depth(r) - 1 : frames[r][i].at = "waiting"
    BY <1>1 DEF StackInv
  <2>3. \A i \in 1 .. Depth(r) : FrameInv(r, i)
    BY <1>1 DEF StackInv
  <2> QED
    BY <1>2, <1>3, <2>1, <2>2, <2>3
<1>11. \A i \in 1 .. k : FrameInv(r, i)' /\ frames'[r][i].op = frames[r][i].op
                         /\ frames'[r][i].node = frames[r][i].node /\ frames'[r][i].left = frames[r][i].left
  <2> SUFFICES ASSUME NEW i \in 1 .. k
               PROVE  FrameInv(r, i)' /\ frames'[r][i].op = frames[r][i].op
                      /\ frames'[r][i].node = frames[r][i].node /\ frames'[r][i].left = frames[r][i].left
    OBVIOUS
  <2>1. frames[r][i].at = "waiting" /\ FrameInv(r, i) /\ frames[r][i] = s[i]
    BY <1>10
  <2>2. CASE i = k
    <3>1. frames'[r][i] = g
      BY <1>8, <2>2
    <3>2. Still(frames[r][i], g)
      BY <1>7, <2>1, <2>2
    <3> QED
      BY <1>7, <2>1, <3>1, <3>2 DEF FrameInv, OnTheWire, Still
  <2>3. CASE i # k
    <3>1. i \in 1 .. k - 1
      BY <1>5, <2>3
    <3>2. frames'[r][i] = frames[r][i]
      BY <1>8, <2>1, <3>1
    <3> QED
      BY <2>1, <3>2 DEF FrameInv, OnTheWire
  <2> QED
    BY <2>2, <2>3
<1>12. \A i \in 1 .. k - 1 : frames'[r][i].at = "waiting"
  <2>1. \A i \in 1 .. k - 1 : i \in 1 .. k /\ frames'[r][i] = s[i]
    BY <1>5, <1>8
  <2> QED
    BY <1>10, <2>1
<1>13. 1 \in 1 .. k /\ (Loads(r)' <=> Loads(r))
  <2>1. 1 \in 1 .. k
    BY <1>5
  <2> QED
    BY <1>9, <1>11, <2>1 DEF Loads
<1>14. StackInv(r)'
  <2>1. Loads(r)' /\ k > 1 => frames'[r][2].node = frames'[r][1].node
    <3>1. k > 1 => 2 \in 1 .. k
      BY <1>5
    <3>2. Depth(r) > 1
      BY <1>3, <1>5
    <3> QED
      BY <1>1, <1>11, <1>13, <3>1, <3>2 DEF StackInv
  <2>2. client[r] \in { "waiting", "gone" } /\ answer[r] = None
        /\ (client[r] = "waiting" => frames'[r][1].op = ask'[r].op)
    BY <1>1, <1>11, <1>13 DEF StackInv
  <2> QED
    BY <1>7, <1>9, <1>11, <1>12, <2>1, <2>2 DEF StackInv
<1>15. JoinInv(r)'
  BY <1>1, <1>7, <1>9 DEF JoinInv, Left, Early
<1>16. answer'[r] = None
  BY <1>1 DEF StackInv
<1>17. RanInv(r)'
  <2>1. ~ Ran(r)' /\ Top(r)'.at = "relaying" /\ Need(r)' = Need(r)
    BY <1>6, <1>7, <1>9 DEF Ran, Serving, Need
  <2> QED
    BY <1>1, <1>16, <2>1 DEF RanInv, Early
<1>18. /\ cause'[r] \in Causes /\ Span(cause'[r]) = g.node
       /\ cause'[r].env = unreachable_owner /\ cause'[r] # None
  <2>1. Last(LostHop(frames[r], n)) = g
    BY <1>8
  <2>2. g.node \in Nodes /\ unreachable_owner \in Envelope
    BY OwnErrors DEF Frames
  <2>3. cause'[r] = Blamed(g.node, unreachable_owner)
    BY <2>1
  <2> QED
    BY <2>2, <2>3, BlamedIs
<1>19. CauseInv(r)'
  <2>1. ~ Ran(r)' /\ Top(r)'.at \notin Early
    BY <1>6, <1>7, <1>9 DEF Ran, Serving, Early
  <2>2. Stamped(r, res.env, g.node) = Stamped(r, cause'[r].env, Span(cause'[r]))
    BY <1>6, <1>18
  <2>3. Rooted(r, Top(r).res.env, Top(r).node)'
    BY <1>7, <1>9, <1>18, <2>2 DEF Rooted, Traces
  <2> QED
    BY <1>9, <1>16, <2>1, <2>3 DEF CauseInv
<1>20. CutInv(r)'
  <2>1. tail'[r] # None => Named(r, tail[r])'
    <3>1. PICK end : end = tail[r]
      OBVIOUS
    <3> QED
      BY <1>1, <3>1, LeftNamed DEF CutInv
  <2>2. Named(r, Top(r).res)'
    BY <1>6, <1>7, <1>9, OwnErrors DEF Named, CutKinds
  <2> QED
    BY <1>16, <2>1, <2>2 DEF CutInv
<1>21. TrailInv(r)'
  <2>1. Loads(r)' => Silent(r)'
    BY <1>1, <1>13, NoAudit DEF TrailInv
  <2>2. "detail" \in cause'[r].env.facts
    BY <1>18, OwnErrors
  <2> QED
    BY <1>6, <1>7, <1>9, <1>16, <2>1, <2>2 DEF TrailInv, Early
<1> QED
  BY <1>8, <1>14, <1>15, <1>17, <1>18, <1>19, <1>20, <1>21 DEF ReqInv

\* Whose first handler, or whose owner's, is on the node.
Based(r, n) == Busy(r) /\ frames[r][1].node = n

Hopped(r, n) == ~ Based(r, n) /\ At(r, n) # {}

\* What a crash does to a request.
LEMMA CrashIs ==
  ASSUME TypeOK, NEW n \in Nodes, Crash(n), NEW r \in Requests
  PROVE  /\ conf' = conf /\ ask'[r] = ask[r] /\ trail'[r] = trail[r] /\ answer'[r] = answer[r]
         /\ ran'[r] = ran[r] /\ tail'[r] = tail[r]
         /\ \A m \in Nodes : r \in inflight'[m] => r \in inflight[m]
         /\ Based(r, n) =>
              /\ frames'[r] = SubSeq(frames[r], SameNode(frames[r]) + 1, Depth(r))
              /\ client'[r] = "gone" /\ cause'[r] = cause[r]
              /\ \A i, j \in At(r, n) : i <= j => i .. j \subseteq At(r, n)
         /\ Hopped(r, n) =>
              /\ frames'[r] = LostHop(frames[r], n) /\ client'[r] = client[r]
              /\ cause'[r] = Blamed(Last(LostHop(frames[r], n)).node, unreachable_owner)
              /\ Depth(r) \in At(r, n)
         /\ ~ Based(r, n) /\ ~ Hopped(r, n) =>
              frames'[r] = frames[r] /\ client'[r] = client[r] /\ cause'[r] = cause[r]
         /\ call'[r] = IF call[r].node = n /\ call[r].st # "closed" THEN [ call[r] EXCEPT !.st = "dead" ]
                       ELSE IF Based(r, n) /\ Top(r).node = n /\ Top(r).at = "collecting"
                       THEN Abandoned(call[r]) ELSE call[r]
<1> DEFINE base == { q \in Requests : frames[q] # << >> /\ frames[q][1].node = n }
           hop  == { q \in Requests \ base : At(q, n) # {} }
<1>1. r \in base <=> Based(r, n)
  BY DEF Based, Busy
<1>2. r \in hop <=> Hopped(r, n)
  BY <1>1 DEF Hopped
<1>3. UNCHANGED << conf, row, ask, tail, trail, answer, ran >>
  BY DEF Crash
<1>4. \A m \in Nodes : r \in inflight'[m] => r \in inflight[m]
  <2>1. inflight' = [ inflight EXCEPT ![n] = {} ] /\ inflight \in [ Nodes -> SUBSET Requests ]
    BY DEF Crash, TypeOK
  <2> QED
    BY <2>1
<1>5. /\ frames' = [ q \in Requests |->
                      IF q \in base THEN SubSeq(frames[q], SameNode(frames[q]) + 1, Depth(q))
                      ELSE IF q \in hop THEN LostHop(frames[q], n) ELSE frames[q] ]
      /\ client' = [ q \in Requests |-> IF q \in base THEN "gone" ELSE client[q] ]
      /\ cause' = [ q \in Requests |->
                     IF q \in hop
                     THEN LET m == Last(LostHop(frames[q], n)).node
                          IN [ node |-> m, by |-> m, env |-> unreachable_owner ]
                     ELSE cause[q] ]
      /\ call' = [ q \in Requests |->
                    IF call[q].node = n /\ call[q].st # "closed" THEN [ call[q] EXCEPT !.st = "dead" ]
                    ELSE IF q \in base /\ frames[q] # << >> /\ Top(q).node = n /\ Top(q).at = "collecting"
                    THEN Abandoned(call[q]) ELSE call[q] ]
      /\ \A q \in base \cup hop : \A i, j \in At(q, n) : i <= j => i .. j \subseteq At(q, n)
      /\ \A q \in hop : Depth(q) \in At(q, n)
  BY Zenon DEF Crash
<1> HIDE DEF base, hop
<1>6. frames'[r] = IF r \in base THEN SubSeq(frames[r], SameNode(frames[r]) + 1, Depth(r))
                   ELSE IF r \in hop THEN LostHop(frames[r], n) ELSE frames[r]
  BY <1>5, Zenon
<1>7. client'[r] = IF r \in base THEN "gone" ELSE client[r]
  BY <1>5, Zenon
<1>8. cause'[r] = IF r \in hop THEN Blamed(Last(LostHop(frames[r], n)).node, unreachable_owner)
                  ELSE cause[r]
  BY <1>5, Zenon DEF Blamed
<1>9. call'[r] = IF call[r].node = n /\ call[r].st # "closed" THEN [ call[r] EXCEPT !.st = "dead" ]
                 ELSE IF r \in base /\ frames[r] # << >> /\ Top(r).node = n /\ Top(r).at = "collecting"
                 THEN Abandoned(call[r]) ELSE call[r]
  BY <1>5, Zenon
<1>10. Based(r, n) => frames[r] # << >>
  BY DEF Based, Busy
<1>11. call'[r] = IF call[r].node = n /\ call[r].st # "closed" THEN [ call[r] EXCEPT !.st = "dead" ]
                  ELSE IF Based(r, n) /\ Top(r).node = n /\ Top(r).at = "collecting"
                  THEN Abandoned(call[r]) ELSE call[r]
  BY <1>1, <1>9, <1>10, Zenon
<1>12. Based(r, n) => /\ frames'[r] = SubSeq(frames[r], SameNode(frames[r]) + 1, Depth(r))
                      /\ client'[r] = "gone" /\ cause'[r] = cause[r]
                      /\ \A i, j \in At(r, n) : i <= j => i .. j \subseteq At(r, n)
  <2>1. Based(r, n) => ~ Hopped(r, n)
    BY DEF Hopped
  <2>2. Based(r, n) => \A i, j \in At(r, n) : i <= j => i .. j \subseteq At(r, n)
    BY <1>1, <1>5, Zenon
  <2> QED
    BY <1>1, <1>2, <1>6, <1>7, <1>8, <2>1, <2>2, Zenon
<1>13. Hopped(r, n) =>
         /\ frames'[r] = LostHop(frames[r], n) /\ client'[r] = client[r]
         /\ cause'[r] = Blamed(Last(LostHop(frames[r], n)).node, unreachable_owner)
         /\ Depth(r) \in At(r, n)
  <2>1. Hopped(r, n) => ~ Based(r, n)
    BY DEF Hopped
  <2>2. Hopped(r, n) => Depth(r) \in At(r, n)
    BY <1>2, <1>5, Zenon
  <2> QED
    BY <1>1, <1>2, <1>6, <1>7, <1>8, <2>1, <2>2, Zenon
<1>14. ~ Based(r, n) /\ ~ Hopped(r, n) =>
         frames'[r] = frames[r] /\ client'[r] = client[r] /\ cause'[r] = cause[r]
  BY <1>1, <1>2, <1>6, <1>7, <1>8, Zenon
<1> QED
  BY <1>3, <1>4, <1>11, <1>12, <1>13, <1>14, Zenon

\* What a crash leaves of a request.
Outlives(r) ==
  /\ ReqInv(r)' /\ client'[r] \in { "idle", "absent", "waiting", "gone" }
  /\ frames'[r] \in Seq(Frames) /\ call'[r] \in EngineCalls
  /\ cause'[r] \in Causes \cup { None }

\* A request with a first handler on the node that crashed.
LEMMA CrashBased ==
  ASSUME TypeOK, NEW n \in Nodes, Crash(n), NEW r \in Requests, ReqInv(r), Based(r, n)
  PROVE  Outlives(r)
<1>1. StackInv(r) /\ CallInv(r) /\ JoinInv(r) /\ Busy(r) /\ frames[r][1].node = n
  BY DEF ReqInv, Based
<1>2. /\ conf' = conf /\ ask'[r] = ask[r] /\ trail'[r] = trail[r] /\ answer'[r] = answer[r]
      /\ ran'[r] = ran[r] /\ tail'[r] = tail[r] /\ client'[r] = "gone" /\ cause'[r] = cause[r]
      /\ \A m \in Nodes : r \in inflight'[m] => r \in inflight[m]
      /\ frames'[r] = SubSeq(frames[r], SameNode(frames[r]) + 1, Depth(r))
  BY CrashIs
<1>3. Busy(r)' <=> SameNode(frames[r]) < Depth(r)
  BY <1>1, <1>2, RestOfStack
<1>4. Busy(r)' => Top(r).node # n
  <2> SUFFICES ASSUME Busy(r)', Top(r).node = n PROVE FALSE
    OBVIOUS
  <2>1. \A i, j \in At(r, n) : i <= j => i .. j \subseteq At(r, n)
    BY CrashIs
  <2>2. PICK d \in Nat : /\ d = Depth(r) /\ d > 0 /\ d \in 1 .. d /\ 1 \in 1 .. d
                         /\ frames[r][d].node = n /\ d = Len(frames[r])
    BY <1>1, TopIs DEF Depth
  <2>3. 1 \in At(r, n) /\ d \in At(r, n) /\ 1 <= d
    BY <1>1, <2>2 DEF At
  <2>4. 1 .. d \subseteq At(r, n)
    BY <2>1, <2>3
  <2>5. \A i \in 1 .. d : frames[r][i].node = n
    BY <2>4 DEF At
  <2>6. PICK s \in Seq(Frames) : s = frames[r] /\ s # << >>
    BY <1>1 DEF TypeOK, Busy
  <2>7. PICK k \in 1 .. Len(s) : k = SameNode(s) /\ (k < Len(s) => s[k + 1].node # s[1].node)
    BY <2>6, SameNodeIs
  <2>8. Len(s) = d /\ k < d
    BY <1>3, <2>2, <2>6, <2>7
  <2>9. k + 1 \in 1 .. d
    <3>1. k \in Int /\ k >= 1
      BY <2>7, <2>8
    <3> QED
      BY <2>8, <3>1
  <2>10. s[k + 1].node = n /\ s[1].node = n
    BY <1>1, <2>5, <2>6, <2>9
  <2> QED
    BY <2>7, <2>8, <2>10
<1>5. Left(r, call'[r]) /\ CallInv(r)' /\ (Busy(r)' /\ Top(r).at = "running" => call'[r].st = call[r].st)
  <2>1. CASE call[r].node = n /\ call[r].st # "closed"
    <3>1. call'[r] = [ call[r] EXCEPT !.st = "dead" ]
      BY <2>1, CrashIs
    <3>2. call[r].st \notin { "none", "closed" }
      BY <1>1, <2>1, PathAssumption DEF CallInv
    <3>3. Left(r, call'[r]) /\ CallInv(r)'
      BY <1>1, <1>2, <3>1, <3>2, DeadLeft
    <3>4. ~ (Busy(r)' /\ Top(r).at = "running")
      BY <1>1, <1>4, <2>1 DEF JoinInv
    <3> QED
      BY <3>3, <3>4
  <2>2. CASE ~ (call[r].node = n /\ call[r].st # "closed") /\ Top(r).node = n /\ Top(r).at = "collecting"
    <3>1. call'[r] = Abandoned(call[r])
      BY <2>2, CrashIs
    <3>2. call[r].st # "none" /\ ~ Busy(r)'
      BY <1>1, <1>4, <2>2 DEF JoinInv
    <3> QED
      BY <1>1, <1>2, <3>1, <3>2, AbandonedLeft
  <2>3. CASE ~ (call[r].node = n /\ call[r].st # "closed")
             /\ ~ (Top(r).node = n /\ Top(r).at = "collecting")
    <3>1. call'[r] = call[r]
      BY <2>3, CrashIs
    <3>2. Left(r, call'[r]) /\ CallInv(r)'
      BY <1>1, <1>2, <3>1, UntouchedLeft
    <3> QED
      BY <3>1, <3>2
  <2> QED
    BY <2>1, <2>2, <2>3
<1>6. ReqInv(r)' /\ frames'[r] \in Seq(Frames)
  BY <1>1, <1>2, <1>5, BottomDropped
<1>7. call'[r] \in EngineCalls
  BY <1>5 DEF Left
<1>8. cause'[r] \in Causes \cup { None }
  BY <1>2 DEF TypeOK
<1> QED
  BY <1>2, <1>6, <1>7, <1>8 DEF Outlives

\* A request whose handlers are all elsewhere, or all but the working ones.
LEMMA CrashOthers ==
  ASSUME TypeOK, NEW n \in Nodes, Crash(n), NEW r \in Requests, ReqInv(r), ~ Based(r, n)
  PROVE  Outlives(r)
<1>1. StackInv(r) /\ CallInv(r) /\ JoinInv(r)
  BY DEF ReqInv
<1>2. /\ conf' = conf /\ ask'[r] = ask[r] /\ trail'[r] = trail[r] /\ answer'[r] = answer[r]
      /\ ran'[r] = ran[r] /\ tail'[r] = tail[r] /\ client'[r] = client[r]
      /\ \A m \in Nodes : r \in inflight'[m] => r \in inflight[m]
  BY CrashIs
<1>3. \/ call'[r] = call[r]
      \/ call'[r] = [ call[r] EXCEPT !.st = "dead" ] /\ call[r].node = n /\ call[r].st # "closed"
  BY CrashIs
<1>4. client'[r] \in { "idle", "absent", "waiting", "gone" }
  BY <1>2 DEF TypeOK
<1>5. ASSUME Busy(r)' => Busy(r)
      PROVE  Left(r, call'[r]) /\ CallInv(r)' /\ (call[r].st = "none" => call'[r].st = "none")
  <2>1. CASE call'[r] = call[r]
    <3>1. Left(r, call'[r]) /\ CallInv(r)'
      BY <1>1, <1>2, <1>5, <2>1, UntouchedLeft
    <3> QED
      BY <2>1, <3>1
  <2>2. CASE call'[r] = [ call[r] EXCEPT !.st = "dead" ] /\ call[r].node = n /\ call[r].st # "closed"
    <3>1. call[r].st \notin { "none", "closed" }
      BY <1>1, <2>2, PathAssumption DEF CallInv
    <3>2. Left(r, call'[r]) /\ CallInv(r)'
      BY <1>1, <1>2, <2>2, <3>1, DeadLeft
    <3> QED
      BY <3>1, <3>2
  <2> QED
    BY <1>3, <2>1, <2>2
<1>6. CASE Hopped(r, n)
  <2>1. PICK i \in 1 .. Depth(r) : TRUE
    BY <1>6 DEF Hopped, At
  <2>2. Busy(r)
    <3>1. frames[r] \in Seq(Frames)
      BY DEF TypeOK
    <3>2. Depth(r) \in Nat /\ (frames[r] # << >> <=> Depth(r) > 0)
      BY <3>1, StackParts DEF Depth
    <3>3. Depth(r) > 0
      BY <2>1, <3>2
    <3> QED
      BY <3>2, <3>3 DEF Busy
  <2>3. frames[r][1].node # n
    BY <2>2 DEF Based
  <2>4. Top(r).node = n
    <3>1. Depth(r) \in At(r, n)
      BY <1>6, CrashIs
    <3>2. frames[r][Depth(r)].node = n
      BY <3>1 DEF At
    <3> QED
      BY <1>1, <2>2, <3>2, TopIs
  <2>5. /\ frames'[r] = LostHop(frames[r], n)
        /\ cause'[r] = Blamed(Last(LostHop(frames[r], n)).node, unreachable_owner)
    BY <1>6, CrashIs
  <2>6. Left(r, call'[r]) /\ CallInv(r)'
    BY <1>5, <2>2
  <2>7. /\ ReqInv(r)' /\ frames'[r] \in Seq(Frames)
        /\ cause'[r] \in Causes
    BY <1>2, <2>2, <2>3, <2>4, <2>5, <2>6, HopLost
  <2>8. call'[r] \in EngineCalls
    BY <2>6 DEF Left
  <2> QED
    BY <1>4, <2>7, <2>8 DEF Outlives
<1>7. CASE ~ Hopped(r, n)
  <2>1. frames'[r] = frames[r] /\ cause'[r] = cause[r]
    BY <1>7, CrashIs
  <2>2. Busy(r)' => Busy(r)
    BY <2>1 DEF Busy
  <2>3. Left(r, call'[r]) /\ CallInv(r)' /\ (call[r].st = "none" => call'[r].st = "none")
    BY <1>5, <2>2
  <2>4. Busy(r) => Top(r).node # n
    <3>1. At(r, n) = {}
      BY <1>7 DEF Hopped
    <3>2. Busy(r) => Depth(r) \in 1 .. Depth(r) /\ Top(r) = frames[r][Depth(r)]
      BY <1>1, TopIs
    <3> QED
      BY <3>1, <3>2 DEF At
  <2>5. /\ Busy(r) /\ Top(r).at = "running" => call'[r].st = call[r].st
        /\ Busy(r) /\ Top(r).at = "collecting" /\ Top(r).to = None => call'[r].st = call[r].st
    BY <1>1, <1>3, <2>4 DEF JoinInv
  <2>6. ReqInv(r)'
    BY <1>2, <2>1, <2>3, <2>5, Elsewhere
  <2>7. call'[r] \in EngineCalls
    BY <2>3 DEF Left
  <2>8. frames'[r] \in Seq(Frames) /\ cause'[r] \in Causes \cup { None }
    BY <2>1 DEF TypeOK
  <2> QED
    BY <1>4, <2>6, <2>7, <2>8 DEF Outlives
<1> QED
  BY <1>6, <1>7

\* A crash.
LEMMA CrashKeeps ==
  ASSUME TypeOK, NEW n \in Nodes, Crash(n), \A r \in Requests : ReqInv(r)
  PROVE  TypeOK' /\ \A r \in Requests : ReqInv(r)'
<1>1. \A r \in Requests : Outlives(r)
  BY CrashBased, CrashOthers
<1>2. /\ conf' = conf /\ row' = row /\ ask' = ask /\ tail' = tail /\ trail' = trail
      /\ answer' = answer /\ ran' = ran /\ up' \subseteq up /\ faults' = faults + 1
      /\ inflight' = [ inflight EXCEPT ![n] = {} ] /\ gauge' = [ gauge EXCEPT ![n] = 0 ]
  BY DEF Crash, Fault
<1>3. /\ DOMAIN frames' = Requests /\ frames' = [ r \in Requests |-> frames'[r] ]
      /\ client' = [ r \in Requests |-> client'[r] ] /\ call' = [ r \in Requests |-> call'[r] ]
      /\ cause' = [ r \in Requests |-> cause'[r] ]
  BY DEF Crash
<1>4. frames' \in [ Requests -> Seq(Frames) ]
  BY <1>1, <1>3 DEF Outlives
<1>5. client' \in [ Requests -> { "idle", "absent", "waiting", "gone" } ]
  BY <1>1, <1>3 DEF Outlives
<1>6. call' \in [ Requests -> EngineCalls ]
  BY <1>1, <1>3 DEF Outlives
<1>7. cause' \in [ Requests -> Causes \cup { None } ]
  BY <1>1, <1>3 DEF Outlives
<1>8. inflight' \in [ Nodes -> SUBSET Requests ] /\ gauge' \in [ Nodes -> Int ]
  BY <1>2 DEF TypeOK
<1>9. TypeOK'
  <2>1. faults' \in Nat
    BY <1>2 DEF TypeOK
  <2>2. up' \subseteq Nodes
    BY <1>2 DEF TypeOK
  <2>3. conf' = conf /\ row' = row /\ ask' = ask /\ tail' = tail /\ trail' = trail
        /\ answer' = answer /\ ran' = ran
    BY <1>2
  <2> QED
    BY <1>4, <1>5, <1>6, <1>7, <1>8, <2>1, <2>2, <2>3 DEF TypeOK
<1> QED
  BY <1>1, <1>9 DEF Outlives
-----------------------------------------------------------------------------
(* The copy a lookup brought back. *)

\* The row is still there with its owner, or gone; the handler at work did not just look it up.
Rests(r) == row'[r] = row[r] \/ row'[r] = None \/ (row[r] # None /\ row'[r].id = row[r].id)

Looks(r) == frames'[r] = << >> \/ Last(frames'[r]).at # "routing"
            \/ (Busy(r) /\ Last(frames'[r]) = Last(frames[r]))

\* Then the copy stays what it was.
LEMMA LookupKept ==
  ASSUME NEW r \in Requests, LookupInv(r), Rests(r), Looks(r)
  PROVE  LookupInv(r)'
  BY DEF LookupInv, Rests, Looks, Busy, Top

\* One element of a sequence is replaced.
LEMMA Replaced ==
  ASSUME NEW S, NEW s \in Seq(S), NEW i \in 1 .. Len(s), NEW g
  PROVE  LET t == [ s EXCEPT ![i] = g ]
         IN  t \in Seq(S \cup { g }) /\ Len(t) = Len(s) /\ t[i] = g
<1>1. Len(s) \in Nat /\ s \in [ 1 .. Len(s) -> S ]
  OBVIOUS
<1>2. s \in [ 1 .. Len(s) -> S \cup { g } ]
  BY <1>1
<1>3. s \in Seq(S \cup { g })
  BY <1>1, <1>2
<1> QED
  BY <1>1, <1>3, ExceptSeq

\* The working handler is moved.
LEMMA MovedLooks ==
  ASSUME TypeOK, NEW r \in Requests, Busy(r), NEW g, g.at # "routing",
         frames'[r] = [ frames[r] EXCEPT ![Depth(r)] = g ]
  PROVE  Looks(r)
<1>1. frames[r] \in Seq(Frames) /\ Depth(r) \in 1 .. Len(frames[r]) /\ Depth(r) = Len(frames[r])
  BY StackParts DEF TypeOK, Busy, Depth
<1>2. Len(frames'[r]) = Len(frames[r]) /\ frames'[r][Depth(r)] = g
  BY <1>1, Replaced
<1> QED
  BY <1>1, <1>2 DEF Looks, Last

\* A handler is put on top.
LEMMA AddedLooks ==
  ASSUME TypeOK, NEW r \in Requests, NEW i \in 1 .. Len(frames[r]), NEW g, NEW h, h.at # "routing",
         frames'[r] = Append([ frames[r] EXCEPT ![i] = g ], h)
  PROVE  Looks(r)
<1>1. frames[r] \in Seq(Frames)
  BY DEF TypeOK
<1>2. PICK t : t = [ frames[r] EXCEPT ![i] = g ]
  OBVIOUS
<1>3. t \in Seq(Frames \cup { g })
  BY <1>1, <1>2, Replaced
<1>4. t \in Seq((Frames \cup { g }) \cup { h })
  BY <1>3
<1>5. Append(t, h)[Len(t) + 1] = h /\ Len(Append(t, h)) = Len(t) + 1
  BY <1>4, AppendProperties
<1> QED
  BY <1>2, <1>5 DEF Looks, Last

\* A return leaves a handler that relays, or none.
LEMMA ReturnLooks ==
  ASSUME TypeOK, NEW r \in Requests, Busy(r), NEW res, Return(r, res)
  PROVE  Looks(r)
<1>1. PICK s \in Seq(Frames) : s = frames[r] /\ s # << >>
  BY DEF TypeOK, Busy
<1>2. PICK d \in Nat : d = Len(s) /\ d = Depth(r) /\ d > 0
  BY <1>1, StackParts DEF Depth
<1>3. PICK back : frames' = [ frames EXCEPT ![r] =
                                IF d = 1 THEN << >>
                                ELSE [ SubSeq(s, 1, d - 1) EXCEPT ![d - 1].at = "relaying", ![d - 1].res = back ] ]
  BY <1>1, <1>2 DEF Return
<1>4. frames'[r] = IF d = 1 THEN << >>
                   ELSE [ SubSeq(s, 1, d - 1) EXCEPT ![d - 1].at = "relaying", ![d - 1].res = back ]
  BY <1>3 DEF TypeOK
<1>5. CASE d = 1
  BY <1>4, <1>5 DEF Looks
<1>6. CASE d # 1
  <2>1. PICK k \in 1 .. Len(s) : k = d - 1
    BY <1>2, <1>6
  <2>2. PICK u \in Seq(Frames) : u = SubSeq(s, 1, k) /\ Len(u) = k
    BY FirstPart
  <2>3. k \in 1 .. Len(u) /\ u[k] \in Frames
    BY <1>2, <2>1, <2>2
  <2>7. PICK f \in Frames : f = u[k]
    BY <2>3
  <2>8. [ f EXCEPT !.at = "relaying", !.res = back ].at = "relaying"
    BY DEF Frames
  <2>4. PICK g : g = [ u[k] EXCEPT !.at = "relaying", !.res = back ] /\ g.at = "relaying"
    BY <2>7, <2>8
  <2>5. frames'[r] = [ u EXCEPT ![k] = g ]
    BY <1>4, <1>6, <2>1, <2>2, <2>3, <2>4
  <2>6. Len(frames'[r]) = k /\ frames'[r][k] = g
    BY <2>2, <2>3, <2>5, Replaced
  <2> QED
    BY <2>4, <2>6 DEF Looks, Last
<1> QED
  BY <1>5, <1>6

\* What a request that comes changes.
LEMMA Came ==
  ASSUME TypeOK, NEW r \in Requests, Arrives(r)
  PROVE  /\ client[r] = "idle" /\ client'[r] = "waiting" /\ UNCHANGED << row, engine, faults >>
         /\ frames'[r] = frames[r] \/ \E h : frames'[r] = << h >> /\ h.at # "routing"
<1>1. PICK n \in Nodes, t \in { None, "good" } :
        ToolCall(r, n, t) \/ SdkCall(r, n, t) \/ CliCall(r, n, t) \/ OtherCall(r, n, t)
  BY DEF Arrives
<1> DEFINE Comer ==
      /\ client[r] = "idle" /\ client'[r] = "waiting" /\ UNCHANGED << row, engine, faults >>
      /\ frames'[r] = frames[r] \/ \E h : frames'[r] = << h >> /\ h.at # "routing"
<1>2. ASSUME NEW surface, NEW op, NEW ms, NEW id, Enter(r, n, surface, op, t, ms, id)
      PROVE  client'[r] = "waiting" /\ \E h : frames'[r] = << h >> /\ h.at # "routing"
  <2>1. PICK h : h = Handler(n, op, FirstStep(op), id.who, id.bearer)
    OBVIOUS
  <2>2. h.at = FirstStep(op) /\ FirstStep(op) # "routing"
    BY <2>1 DEF Handler, FirstStep
  <2>3. client'[r] = "waiting" /\ frames'[r] = << h >>
    BY <1>2, <2>1 DEF Enter, TypeOK
  <2> QED
    BY <2>2, <2>3
<1>3. ASSUME NEW surface, NEW op, NEW ms, NEW env, NEW res, TurnedAway(r, n, surface, op, t, ms, env, res)
      PROVE  client'[r] = "waiting"
  BY <1>3 DEF TurnedAway, TypeOK
<1>4. ASSUME NEW op, NEW ms, NEW valid, Tool(r, n, op, t, ms, valid) PROVE Comer
  <2>1. client[r] = "idle" /\ UNCHANGED << row, engine, faults >>
    BY <1>4 DEF Tool, Fresh, world
  <2>2. PICK id : id = identity_of(n, t)
    OBVIOUS
  <2>3. \/ Enter(r, n, "mcp", op, t, ms, id)
        \/ UNCHANGED frames /\ \E env, res : TurnedAway(r, n, "mcp", op, t, ms, env, res)
    BY <1>4, <2>2 DEF Tool
  <2> QED
    BY <1>2, <1>3, <2>1, <2>3
<1>5. ASSUME NEW op, NEW ms, Rpc(r, n, op, t, ms) PROVE Comer
  <2>1. client[r] = "idle" /\ UNCHANGED << row, engine, faults >>
    BY <1>5 DEF Rpc, Fresh, world
  <2>2. PICK id : id = identity_of(n, t)
    OBVIOUS
  <2>3. \/ Enter(r, n, "grpc", op, t, ms, id)
        \/ UNCHANGED frames /\ \E env, res : TurnedAway(r, n, "grpc", op, t, ms, env, res)
    BY <1>5, <2>2 DEF Rpc
  <2> QED
    BY <1>2, <1>3, <2>1, <2>3
<1> HIDE DEF Comer
<1>6. ToolCall(r, n, t) => Comer
  BY <1>4
     DEF ToolCall, tool_allocate_pond, tool_describe_pond, tool_list_ponds, tool_read_query,
         tool_write_query, tool_explain_query, tool_list_datasets, tool_list_catalogs,
         tool_load_dataset, tool_describe_catalog, tool_pull_catalog, tool_get_lineage
<1>7. SdkCall(r, n, t) => Comer
  BY <1>5
     DEF SdkCall, sdk_query_ipc, sdk_describe_pond, sdk_explain, sdk_load_dataset,
         sdk_describe_catalog, sdk_pull_catalog, describe_pond, explain_query, load_dataset,
         catalog_describe, catalog_pull, read_arrow, write_query
<1>8. CliCall(r, n, t) => Comer
  BY <1>5
     DEF CliCall, run_query, cli_describe, cli_dataset_load, cli_catalog_describe,
         cli_catalog_pull, describe_pond, load_dataset, catalog_describe, catalog_pull,
         read_query, write_query
<1>9. OtherCall(r, n, t) => Comer
  BY <1>5 DEF OtherCall, allocate_pond, get_lineage, read_arrow
<1>10. Comer
  BY <1>1, <1>6, <1>7, <1>8, <1>9
<1> QED
  BY <1>10 DEF Comer

\* The working handler is moved, or told something.
LEMMA PutLooks ==
  ASSUME TypeOK, NEW r \in Requests, Busy(r), NEW at, at # "routing", NEW to, NEW res,
         \/ Move(r, at)
         \/ frames' = [ frames EXCEPT ![r][Depth(r)].at = at, ![r][Depth(r)].to = to ]
         \/ frames' = [ frames EXCEPT ![r][Depth(r)].at = at, ![r][Depth(r)].res = res ]
  PROVE  Looks(r)
<1>1. /\ frames[r] \in Seq(Frames) /\ Depth(r) \in 1 .. Len(frames[r])
      /\ frames \in [ Requests -> Seq(Frames) ]
  BY StackParts DEF TypeOK, Busy, Depth
<1>2. PICK f \in Frames : f = frames[r][Depth(r)]
  BY <1>1
<1>3. /\ [ f EXCEPT !.at = at ].at = at
      /\ [ f EXCEPT !.at = at, !.to = to ].at = at
      /\ [ f EXCEPT !.at = at, !.res = res ].at = at
  BY DEF Frames
<1>4. \/ frames'[r] = [ frames[r] EXCEPT ![Depth(r)] = [ f EXCEPT !.at = at ] ]
      \/ frames'[r] = [ frames[r] EXCEPT ![Depth(r)] = [ f EXCEPT !.at = at, !.to = to ] ]
      \/ frames'[r] = [ frames[r] EXCEPT ![Depth(r)] = [ f EXCEPT !.at = at, !.res = res ] ]
  <2>1. Move(r, at) => frames'[r] = [ frames[r] EXCEPT ![Depth(r)] = [ f EXCEPT !.at = at ] ]
    BY <1>1, <1>2 DEF Move
  <2>2. frames' = [ frames EXCEPT ![r][Depth(r)].at = at, ![r][Depth(r)].to = to ] =>
          frames'[r] = [ frames[r] EXCEPT ![Depth(r)] = [ f EXCEPT !.at = at, !.to = to ] ]
    BY <1>1, <1>2, ZenonT(60)
  <2>3. frames' = [ frames EXCEPT ![r][Depth(r)].at = at, ![r][Depth(r)].res = res ] =>
          frames'[r] = [ frames[r] EXCEPT ![Depth(r)] = [ f EXCEPT !.at = at, !.res = res ] ]
    BY <1>1, <1>2, ZenonT(60)
  <2> QED
    BY <2>1, <2>2, <2>3
<1> QED
  BY <1>3, <1>4, MovedLooks

\* A hop, or a write of a load_dataset.
LEMMA PushLooks ==
  ASSUME TypeOK, NEW r \in Requests, Busy(r), NEW left, NEW n, NEW op, NEW who, NEW bearer,
         \/ frames' = [ frames EXCEPT ![r] = Append([ @ EXCEPT ![Depth(r)].at = "waiting" ],
                                                    Handler(n, op, "resolving", who, bearer)) ]
         \/ frames' = [ frames EXCEPT ![r] = Append([ @ EXCEPT ![1].at = "waiting", ![1].left = left ],
                                                    Handler(n, op, "resolving", who, bearer)) ]
  PROVE  Looks(r)
<1>1. /\ frames[r] \in Seq(Frames) /\ Depth(r) \in 1 .. Len(frames[r]) /\ 1 \in 1 .. Len(frames[r])
      /\ frames \in [ Requests -> Seq(Frames) ]
  BY StackParts DEF TypeOK, Busy, Depth
<1>2. PICK h : h = Handler(n, op, "resolving", who, bearer)
  OBVIOUS
<1>3. h.at # "routing"
  BY <1>2 DEF Handler
<1>4. PICK f, g : f = [ frames[r][Depth(r)] EXCEPT !.at = "waiting" ]
                  /\ g = [ frames[r][1] EXCEPT !.at = "waiting", !.left = left ]
  OBVIOUS
<1>5. \/ frames'[r] = Append([ frames[r] EXCEPT ![Depth(r)] = f ], h)
      \/ frames'[r] = Append([ frames[r] EXCEPT ![1] = g ], h)
  BY <1>1, <1>2, <1>4
<1> QED
  BY <1>1, <1>3, <1>5, AddedLooks

\* A step of a handler.
LEMMA HandlerLooks ==
  ASSUME TypeOK, NEW r \in Requests, LookupInv(r), HandlerStep(r)
  PROVE  row' = row /\ LookupInv(r)'
<1>1. \A res : Busy(r) /\ Return(r, res) => Looks(r)
  BY ReturnLooks
<1>2. \A at : Busy(r) /\ at # "routing" /\ Move(r, at) => Looks(r)
  BY PutLooks
<1>3. ASSUME Looks(r), row' = row PROVE row' = row /\ LookupInv(r)'
  BY <1>3, LookupKept DEF Rests
<1>4. CASE AllocatePond(r) \/ ListPonds(r) \/ ListDatasets(r) \/ ListCatalogs(r)
  <2>1. Busy(r) /\ row' = row /\ \E res : Return(r, res)
    BY <1>4 DEF AllocatePond, ListPonds, ListDatasets, ListCatalogs, Asking, Busy, world
  <2> QED
    BY <1>1, <1>3, <2>1
<1>5. CASE pond_info_audited(r)
  <2>1. Busy(r) /\ row' = row
    BY <1>5 DEF pond_info_audited, Busy, world
  <2>2. CASE \E env : Refused(r, Top(r), env)
    BY <1>1, <1>3, <2>1, <2>2 DEF Refused
  <2>3. CASE /\ row[r] # None
             /\ frames' = [ frames EXCEPT ![r][Depth(r)].at = "routing", ![r][Depth(r)].info = row[r] ]
    <3>1. /\ frames[r] \in Seq(Frames) /\ Depth(r) \in 1 .. Len(frames[r])
          /\ frames \in [ Requests -> Seq(Frames) ] /\ Depth(r) = Len(frames[r])
      BY <2>1, StackParts DEF TypeOK, Busy, Depth
    <3>2. PICK f \in Frames : f = frames[r][Depth(r)]
      BY <3>1
    <3>3. PICK g : g = [ f EXCEPT !.at = "routing", !.info = row[r] ] /\ g.info = row[r]
      <4>1. [ f EXCEPT !.at = "routing", !.info = row[r] ].info = row[r]
        BY DEF Frames
      <4> QED
        BY <4>1
    <3>4. frames'[r] = [ frames[r] EXCEPT ![Depth(r)] = g ]
      BY <2>3, <3>1, <3>2, <3>3
    <3>5. Len(frames'[r]) = Depth(r) /\ frames'[r][Depth(r)] = g
      BY <3>1, <3>4, Replaced
    <3>6. Top(r)' = g
      BY <3>5 DEF Top, Last
    <3> QED
      BY <2>1, <2>3, <3>3, <3>6 DEF LookupInv
  <2> QED
    BY <1>5, <2>2, <2>3 DEF pond_info_audited
<1>6. CASE Route(r)
  <2>1. Busy(r) /\ row' = row
    BY <1>6 DEF Route, Busy, world
  <2>2. \/ Refused(r, Top(r), pond_unavailable) \/ Launch(r, Top(r)) \/ StorageFails(r, Top(r))
        \/ frames' = [ frames EXCEPT ![r][Depth(r)].at = "dialling", ![r][Depth(r)].to = Top(r).info.at ]
    BY <1>6 DEF Route
  <2>3. Launch(r, Top(r)) => Move(r, "running")
    BY DEF Launch
  <2>4. CASE frames' = [ frames EXCEPT ![r][Depth(r)].at = "dialling", ![r][Depth(r)].to = Top(r).info.at ]
    <3>1. PICK to : to = Top(r).info.at
      OBVIOUS
    <3>2. frames' = [ frames EXCEPT ![r][Depth(r)].at = "dialling", ![r][Depth(r)].to = to ]
      BY <2>4, <3>1
    <3>3. Looks(r)
      BY <2>1, <3>2, PutLooks
    <3> QED
      BY <1>3, <2>1, <3>3
  <2> QED
    BY <1>1, <1>2, <1>3, <2>1, <2>2, <2>3, <2>4 DEF Refused, StorageFails
<1>7. CASE RefusesArguments(r)
  <2>1. Busy(r) /\ row' = row /\ \E res : Return(r, res)
    BY <1>7 DEF RefusesArguments, ZeroLimit, prepare_pull, NoLineage, Refused, Busy, world
  <2> QED
    BY <1>1, <1>3, <2>1
<1>8. CASE CachedClient(r) \/ Connected(r)
  <2>1. Busy(r) /\ row' = row /\ Send(r, Top(r))
    BY <1>8 DEF CachedClient, Connected, Dialling, Busy, world
  <2>2. PICK id, op : id = identity_of(Top(r).to, with_identity(Top(r))) /\ op = OnTheWire(Top(r).op)
    OBVIOUS
  <2>3. \/ \E res : frames' = [ frames EXCEPT ![r][Depth(r)].at = "relaying", ![r][Depth(r)].res = res ]
        \/ \E n, who, bearer :
             frames' = [ frames EXCEPT ![r] = Append([ @ EXCEPT ![Depth(r)].at = "waiting" ],
                                                     Handler(n, op, "resolving", who, bearer)) ]
    <3>1. \/ \E env : frames' = [ frames EXCEPT ![r][Depth(r)].at = "relaying", ![r][Depth(r)].res = Err(env) ]
          \/ frames' = [ frames EXCEPT ![r] = Append([ @ EXCEPT ![Depth(r)].at = "waiting" ],
                                                     Handler(Top(r).to, op, "resolving", id.who, id.bearer)) ]
      BY <2>1, <2>2 DEF Send
    <3> QED
      BY <3>1, Zenon
  <2>4. Looks(r)
    BY <2>1, <2>3, PutLooks, PushLooks
  <2> QED
    BY <1>3, <2>1, <2>4
<1>9. CASE Connect(r)
  <2>1. row' = row /\ frames' = frames /\ Busy(r)
    BY <1>9 DEF Connect, Dialling, Busy
  <2> QED
    BY <1>3, <2>1 DEF Looks
<1>10. CASE Relay(r) \/ Established(r)
  <2>1. Busy(r) /\ row' = row /\ (Move(r, "collecting") \/ \E res : Return(r, res))
    BY <1>10 DEF Relay, Established, Waits, Busy, world
  <2> QED
    BY <1>1, <1>2, <1>3, <2>1
<1>11. CASE LoadBegins(r) \/ LoadGoesOn(r)
  <2>1. Busy(r) /\ row' = row
    BY <1>11 DEF LoadBegins, LoadGoesOn, Busy, world
  <2>2. PICK n, who, bearer : n = Top(r).node /\ who = Top(r).who /\ bearer = Top(r).bearer
    OBVIOUS
  <2>3. \/ \E res : Return(r, res)
        \/ \E left : frames' =
             [ frames EXCEPT ![r] = Append([ @ EXCEPT ![1].at = "waiting", ![1].left = left ],
                                           Handler(n, "write_query", "resolving", who, bearer)) ]
    BY <1>11, <2>2 DEF LoadBegins, LoadGoesOn
  <2>4. ASSUME NEW left,
               frames' = [ frames EXCEPT ![r] = Append([ @ EXCEPT ![1].at = "waiting", ![1].left = left ],
                                                       Handler(n, "write_query", "resolving", who, bearer)) ]
        PROVE  Looks(r)
    BY <2>1, <2>4, PushLooks
  <2>5. Looks(r)
    BY <1>1, <2>1, <2>3, <2>4
  <2> QED
    BY <1>3, <2>1, <2>5
<1>12. CASE Joins(r) \/ \E op : JoinsBare(r, op)
  <2>1. Busy(r) /\ row' = row /\ \E res : Return(r, res)
    BY <1>12 DEF Joins, JoinsBare, Waits, Busy, world
  <2> QED
    BY <1>1, <1>3, <2>1
<1>13. CASE \E capped \in BOOLEAN : Collected(r, capped)
  <2>1. Busy(r) /\ row' = row /\ \E res : Return(r, res)
    BY <1>13 DEF Collected, Busy, world
  <2> QED
    BY <1>1, <1>3, <2>1
<1> QED
  BY <1>4, <1>5, <1>6, <1>7, <1>8, <1>9, <1>10, <1>11, <1>12, <1>13
     DEF HandlerStep, ControlStep, NodeStep, describe_pond_local, explain_query_local,
         catalog_describe_local, catalog_pull_local, get_lineage_local

\* Any other step of a request.
LEMMA OthersLook ==
  ASSUME TypeOK, NEW r \in Requests, ReqInv(r),
         \/ Arrives(r) \/ EngineStep(r) \/ Expire(r) \/ CallerCancels(r) \/ CancelSeen(r)
         \/ DropCancels(r) \/ Hangup(r) \/ Reset(r) \/ StreamDropped(r) \/ RowGoes(r) \/ OwnerMoves(r)
  PROVE  (\A q \in Requests : Rests(q)) /\ Looks(r)
<1>1. CASE Arrives(r)
  <2>1. row' = row /\ ~ Busy(r) /\ (frames'[r] = frames[r] \/ \E h : frames'[r] = << h >> /\ h.at # "routing")
    BY <1>1, Came DEF ReqInv, StackInv
  <2>2. \A h : Last(<< h >>) = h
    BY DEF Last
  <2> QED
    BY <2>1, <2>2 DEF Rests, Looks, Busy
<1>2. CASE EngineStep(r) \/ Expire(r) \/ CallerCancels(r) \/ CancelSeen(r) \/ DropCancels(r) \/ StreamDropped(r)
  <2>1. row' = row /\ frames' = frames
    BY <1>2 DEF EngineStep, checkout_read, Flows, ProducerEnds, OrphanEnds, EngineEnds, Expire,
                CallerCancels, CancelSeen, DropCancels, StreamDropped, world
  <2> QED
    BY <2>1 DEF Rests, Looks, Busy
<1>3. CASE Hangup(r) \/ Reset(r)
  <2>1. /\ row' = row /\ Busy(r) /\ conf' = conf /\ ask' = ask /\ answer' = answer /\ client'[r] = "gone"
        /\ frames' = [ frames EXCEPT ![r] = SubSeq(frames[r], SameNode(frames[r]) + 1, Depth(r)) ]
    BY <1>3 DEF Hangup, Reset, DropFutures, Busy, TypeOK
  <2>2. frames'[r] = SubSeq(frames[r], SameNode(frames[r]) + 1, Depth(r))
    BY <2>1 DEF TypeOK
  <2>3. Busy(r)' => Top(r)' = Top(r)
    BY <2>1, <2>2, RestOfStack DEF ReqInv
  <2> QED
    BY <2>1, <2>3 DEF Rests, Looks, Busy, Top
<1>4. CASE RowGoes(r) \/ OwnerMoves(r)
  <2>1. /\ frames' = frames /\ Busy(r)
        /\ row' = [ row EXCEPT ![r] = None ] \/ \E n : row[r] # None /\ row' = [ row EXCEPT ![r].at = n ]
    BY <1>4 DEF RowGoes, OwnerMoves, Busy
  <2>2. row \in [ Requests -> Rows \cup { None } ]
    BY DEF TypeOK
  <2>3. row[r] # None => row[r] \in [ id : Nodes \cup { None }, at : Nodes \cup { None } ]
    BY <2>2, PathAssumption
  <2>4. row[r] # None => \A n : [ row[r] EXCEPT !.at = n ].id = row[r].id
    BY <2>3
  <2>5. \A q \in Requests : Rests(q)
    <3>1. CASE row' = [ row EXCEPT ![r] = None ]
      BY <2>2, <3>1 DEF Rests
    <3>2. CASE \E n : row[r] # None /\ row' = [ row EXCEPT ![r].at = n ]
      <4>1. PICK n : row[r] # None /\ row' = [ row EXCEPT ![r].at = n ]
        BY <3>2
      <4>2. \A q \in Requests : row'[q] = IF q = r THEN [ row[r] EXCEPT !.at = n ] ELSE row[q]
        BY <2>2, <4>1
      <4> QED
        BY <2>4, <4>1, <4>2 DEF Rests
    <3> QED
      BY <2>1, <3>1, <3>2
  <2> QED
    BY <2>1, <2>5 DEF Looks
<1> QED
  BY <1>1, <1>2, <1>3, <1>4

\* A crash.
LEMMA CrashLooks ==
  ASSUME TypeOK, NEW n \in Nodes, Crash(n), NEW r \in Requests, ReqInv(r)
  PROVE  Rests(r) /\ Looks(r)
<1>1. row' = row /\ StackInv(r)
  BY DEF Crash, ReqInv
<1>2. CASE Based(r, n)
  <2>1. /\ conf' = conf /\ ask'[r] = ask[r] /\ answer'[r] = answer[r] /\ client'[r] = "gone"
        /\ frames'[r] = SubSeq(frames[r], SameNode(frames[r]) + 1, Depth(r)) /\ Busy(r)
    BY <1>2, CrashIs DEF Based
  <2>2. Busy(r)' => Top(r)' = Top(r)
    BY <1>1, <2>1, RestOfStack
  <2> QED
    BY <1>1, <2>1, <2>2 DEF Rests, Looks, Busy, Top
<1>3. CASE Hopped(r, n)
  <2>1. frames'[r] = LostHop(frames[r], n) /\ Depth(r) \in At(r, n) /\ ~ Based(r, n)
    BY <1>3, CrashIs DEF Hopped
  <2>2. PICK s \in Seq(Frames) : s = frames[r]
    BY DEF TypeOK
  <2>3. s # << >> /\ s[Len(s)].node = n /\ s[1].node # n
    BY <2>1, <2>2, StackParts DEF At, Depth, Based, Busy
  <2>4. PICK k \in 1 .. Len(s) - 1 : LostHop(s, n) = UpTo(s, k)
    BY <2>3, LostHopIs
  <2>5. k \in 1 .. Len(s)
    BY <2>3, StackParts
  <2>6. PICK u \in Seq(Frames) : u = SubSeq(s, 1, k) /\ Len(u) = k
    BY <2>5, FirstPart
  <2>7. s[k] \in Frames /\ k \in 1 .. Len(u)
    BY <2>5, <2>6, StackParts
  <2>8. PICK g : g = CutOff(s[k]) /\ g.at = "relaying"
    <3>1. CutOff(s[k]).at = "relaying"
      BY <2>7 DEF CutOff, Frames
    <3> QED
      BY <3>1
  <2>9. Len(frames'[r]) = k /\ frames'[r][k] = g
    BY <2>1, <2>2, <2>4, <2>6, <2>7, <2>8, Replaced DEF UpTo
  <2> QED
    BY <1>1, <2>8, <2>9 DEF Rests, Looks, Last
<1>4. CASE ~ Based(r, n) /\ ~ Hopped(r, n)
  <2>1. frames'[r] = frames[r]
    BY <1>4, CrashIs
  <2> QED
    BY <1>1, <2>1 DEF Rests, Looks, Busy
<1> QED
  BY <1>2, <1>3, <1>4
-----------------------------------------------------------------------------
(* The specification. *)

\* What always holds of the requests.
PathInv == TypeOK /\ \A r \in Requests : ReqInv(r) /\ LookupInv(r)

\* It holds before the first request.
LEMMA InitPath ==
  ASSUME Init
  PROVE  PathInv
<1>1. TypeOK
  <2>1. conf \in [ auth : SUBSET Nodes, clustered : BOOLEAN ]
    BY PathAssumption DEF Init
  <2>2. up \subseteq Nodes
    BY DEF Init
  <2>3. Asked("grpc", None, None, None) \in Requested
    BY DEF Asked, Requested
  <2>4. NoCall \in EngineCalls
    BY DEF NoCall, EngineCalls
  <2>5. ask \in [ Requests -> Requested ] /\ call \in [ Requests -> EngineCalls ]
    BY <2>3, <2>4 DEF Init
  <2>6. /\ client \in [ Requests -> { "idle", "absent", "waiting", "gone" } ]
        /\ row \in [ Requests -> Rows \cup { None } ] /\ tail \in [ Requests -> Results \cup { None } ]
        /\ answer \in [ Requests -> Results \cup { None, Unauthorized } ]
    BY DEF Init
  <2>7. \A S : << >> \in Seq(S)
    BY EmptySeq
  <2>8. frames \in [ Requests -> Seq(Frames) ]
    BY <2>7 DEF Init
  <2>9. trail \in [ Requests ->
           Seq([ node : Nodes, op : Operations, who : { "claimed", "verified" }, ok : BOOLEAN ]) ]
    BY <2>7 DEF Init
  <2>10. ran \in [ Requests ->
           Seq([ node : Nodes, who : { "claimed", "verified" }, owner : Nodes \cup { None } ]) ]
    BY <2>7 DEF Init
  <2>11. /\ cause \in [ Requests -> Causes \cup { None } ]
         /\ inflight \in [ Nodes -> SUBSET Requests ] /\ gauge \in [ Nodes -> Int ] /\ faults \in Nat
    BY DEF Init
  <2> QED
    BY <2>1, <2>2, <2>5, <2>6, <2>8, <2>9, <2>10, <2>11 DEF TypeOK
<1>2. ASSUME NEW r \in Requests PROVE ReqInv(r) /\ LookupInv(r)
  <2>1. /\ client[r] \in { "idle", "absent" } /\ ask[r].op = None /\ frames[r] = << >>
        /\ tail[r] = None /\ trail[r] = << >> /\ answer[r] = None /\ ran[r] = << >> /\ cause[r] = None
        /\ \A n \in Nodes : r \notin inflight[n]
    BY DEF Init, Asked
  <2>2. /\ call[r].st = "none" /\ call[r].node = None /\ call[r].op = None /\ call[r].out = None /\ call[r].cut = FALSE
        /\ call[r].first = None /\ call[r].expired = FALSE /\ call[r].timer = "off"
    BY DEF Init, NoCall
  <2>3. ~ Timed(r) /\ ~ Busy(r) /\ ~ Loads(r)
    BY <2>1, PathAssumption DEF Timed, Streamed, Busy, Loads
  <2>4. Len(frames[r]) = 0 /\ Len(ran[r]) = 0 /\ DOMAIN ran[r] = {}
    <3>1. ran[r] = << >> /\ frames[r] = << >>
      BY <2>1
    <3> QED
      BY <3>1
  <2>5. StackInv(r)
    <3>1. 1 .. Depth(r) - 1 = {} /\ 1 .. Depth(r) = {}
      BY <2>4 DEF Depth
    <3> QED
      BY <2>1, <2>2, <2>3, <3>1 DEF StackInv
  <2>6. CallInv(r)
    BY <2>1, <2>2, <2>3, PathAssumption DEF CallInv
  <2>7. JoinInv(r) /\ CauseInv(r) /\ CutInv(r) /\ TrailInv(r)
    BY <2>1, <2>2, <2>3 DEF JoinInv, CauseInv, CutInv, TrailInv
  <2>8. RanInv(r)
    <3>1. Len(ran[r]) <= Need(r)
      BY <2>4, PathAssumption DEF Need
    <3> QED
      BY <2>1, <2>3, <2>4, <3>1 DEF RanInv
  <2> QED
    BY <2>3, <2>5, <2>6, <2>7, <2>8 DEF ReqInv, LookupInv
<1> QED
  BY <1>1, <1>2 DEF PathInv

\* Every step keeps it.
LEMMA StepPath ==
  ASSUME PathInv, [Next]_vars
  PROVE  PathInv'
<1>1. TypeOK /\ \A r \in Requests : ReqInv(r) /\ LookupInv(r)
  BY DEF PathInv
<1>2. CASE UNCHANGED vars
  <2>1. UNCHANGED << conf, row, up, client, ask, frames, call, tail, inflight, gauge, trail, answer,
                     ran, cause, faults >>
    BY <1>2 DEF vars
  <2>2. TypeOK'
    BY <1>1, <2>1 DEF TypeOK
  <2>3. \A r \in Requests : Same(r)
    BY <2>1 DEF Same
  <2>4. \A r \in Requests : LookupInv(r)'
    BY <1>1, <2>1 DEF LookupInv, Busy, Top
  <2> QED
    BY <1>1, <2>2, <2>3, <2>4, SameKeeps DEF PathInv
<1>3. ASSUME NEW r \in Requests, Kept(r), \A q \in Requests : Rests(q), LookupInv(r)'
      PROVE  PathInv'
  <2>1. ASSUME NEW q \in Requests, q # r PROVE LookupInv(q)'
    <3>1. frames'[q] = frames[q]
      BY <1>3, <2>1 DEF Kept, Same
    <3>2. Looks(q)
      BY <3>1 DEF Looks, Busy
    <3> QED
      BY <1>1, <1>3, <3>2, LookupKept
  <2>2. TypeOK' /\ \A q \in Requests : ReqInv(q)'
    BY <1>1, <1>3, KeptIsEnough
  <2> QED
    BY <1>3, <2>1, <2>2 DEF PathInv
<1>4. CASE \E r \in Requests :
             \/ Arrives(r) \/ HandlerStep(r) \/ EngineStep(r) \/ Expire(r) \/ CallerCancels(r)
             \/ CancelSeen(r) \/ DropCancels(r) \/ Hangup(r) \/ Reset(r) \/ StreamDropped(r) \/ RowGoes(r) \/ OwnerMoves(r)
  <2>1. PICK r \in Requests :
             \/ Arrives(r) \/ HandlerStep(r) \/ EngineStep(r) \/ Expire(r) \/ CallerCancels(r)
             \/ CancelSeen(r) \/ DropCancels(r) \/ Hangup(r) \/ Reset(r) \/ StreamDropped(r) \/ RowGoes(r) \/ OwnerMoves(r)
    BY <1>4
  <2>2. Kept(r)
    BY <1>1, <2>1, ArrivesKeeps, HandlerKeeps, EngineKeeps, HangupKeeps
  <2>3. (\A q \in Requests : Rests(q)) /\ LookupInv(r)'
    <3>1. CASE HandlerStep(r)
      BY <1>1, <3>1, HandlerLooks DEF Rests
    <3>2. CASE ~ HandlerStep(r)
      <4>1. (\A q \in Requests : Rests(q)) /\ Looks(r)
        BY <1>1, <2>1, <3>2, OthersLook
      <4> QED
        BY <1>1, <4>1, LookupKept
    <3> QED
      BY <3>1, <3>2
  <2> QED
    BY <1>3, <2>2, <2>3
<1>5. CASE \E n \in Nodes : Crash(n)
  <2>1. TypeOK' /\ \A r \in Requests : ReqInv(r)'
    BY <1>1, <1>5, CrashKeeps
  <2>2. \A r \in Requests : LookupInv(r)'
    BY <1>1, <1>5, CrashLooks, LookupKept
  <2> QED
    BY <2>1, <2>2 DEF PathInv
<1> QED
  BY <1>2, <1>4, <1>5 DEF Next

\* So it always holds.
LEMMA PathInvariant == Spec => []PathInv
  BY InitPath, StepPath, PTL DEF Spec

(* Every answered operation has its one access record: an ok record on the *)
(* node that served it, or an error record where it failed, and relaying   *)
(* an answer makes no second one (ops.rs audit, audit_err).                *)
THEOREM RecordedOnce == Spec => []OneRecordPerAnswer
<1>1. PathInv => OneRecordPerAnswer
  <2> SUFFICES ASSUME PathInv, NEW r \in Requests, answer[r] # None,
                      ask[r].op \notin { "list_datasets", "list_catalogs" }
               PROVE  IF answer[r].ok
                      THEN /\ \E i \in DOMAIN trail[r] :
                                Recorded(r, TRUE) = { i } /\ trail[r][i].node = answer[r].by
                           /\ Recorded(r, FALSE) = {}
                      ELSE ~ Unrecorded(r) => \E i \in DOMAIN trail[r] : Recorded(r, FALSE) = { i }
    BY DEF OneRecordPerAnswer
  <2>1. TrailInv(r) /\ ~ Listing(r)
    BY DEF PathInv, ReqInv, Listing
  <2> QED
    BY <2>1 DEF TrailInv, OnlyOk, OnlyError
<1> QED
  BY <1>1, PathInvariant, PTL

(* The failure a caller reads is the one that arose, through every hop     *)
(* (forward_client.rs status_to_error, error.rs with_traceparent).         *)
THEOREM CauseReachesCaller == Spec => []CauseSurvives
<1>1. PathInv => CauseSurvives
  BY DEF PathInv, ReqInv, CauseInv, CauseSurvives, Stamped, Span
<1> QED
  BY <1>1, PathInvariant, PTL

(* A statement runs on no node but its pond's owner by the row of the      *)
(* moment it starts, if the row is still there, although the copy it is    *)
(* routed by was made earlier; as a verified caller where callers are      *)
(* verified; and at most once for every request and every table of a load  *)
(* (ops.rs pond_info_audited, placement, route).                           *)
THEOREM OwnerRunsOnce == Spec => []OnceAndByTheOwner
<1>1. PathInv => OnceAndByTheOwner
  BY DEF PathInv, ReqInv, RanInv, OnceAndByTheOwner, Need
<1> QED
  BY <1>1, PathInvariant, PTL

(* A caller told of a timeout or a cancel is told the truth of who cut its *)
(* statement (deadline.rs classify).                                       *)
THEOREM CutNamed == Spec => []CutIsNamed
<1>1. PathInv => CutIsNamed
  BY DEF PathInv, ReqInv, CutInv, Named, CutIsNamed
<1> QED
  BY <1>1, PathInvariant, PTL
-----------------------------------------------------------------------------
(* The books: the in-flight registries and the gauges, while nothing fails. *)

\* What a step of r has to leave in the books.
Books(r) ==
  /\ client'[r] # "gone" /\ WaitedFor(r)'
  /\ \A n \in Nodes : /\ IsFiniteSet(inflight'[n]) /\ gauge'[n] = Cardinality(inflight'[n])
                      /\ r \in inflight'[n] <=> OnBooks(r, n)'

\* What the books say before a step.
LEMMA BooksAre ==
  ASSUME BooksInv, faults = 0, NEW r \in Requests
  PROVE  /\ client[r] # "gone" /\ WaitedFor(r)
         /\ \A n \in Nodes : /\ IsFiniteSet(inflight[n]) /\ gauge[n] = Cardinality(inflight[n])
                             /\ r \in inflight[n] <=> OnBooks(r, n)
  BY DEF BooksInv

\* It is enough: the entries of the other requests are as they were.
LEMMA BooksKept ==
  ASSUME BooksInv, faults = 0, NEW r \in Requests, Kept(r), Books(r)
  PROVE  BooksInv'
<1>1. ASSUME NEW q \in Requests
      PROVE  /\ client'[q] # "gone" /\ WaitedFor(q)'
             /\ \A n \in Nodes : q \in inflight'[n] <=> OnBooks(q, n)'
  <2>1. CASE q = r
    BY <2>1 DEF Books
  <2>2. CASE q # r
    <3>1. Same(q)
      BY <2>2 DEF Kept
    <3>2. /\ client[q] # "gone" /\ WaitedFor(q) /\ \A n \in Nodes : q \in inflight[n] <=> OnBooks(q, n)
      BY BooksAre
    <3>3. WaitedFor(q)'
      BY <3>1, <3>2 DEF Same, WaitedFor, Busy, Top
    <3>4. \A n \in Nodes : q \in inflight'[n] <=> OnBooks(q, n)'
      BY <3>1, <3>2 DEF Same, OnBooks, Counted
    <3> QED
      BY <3>1, <3>2, <3>3, <3>4 DEF Same
  <2> QED
    BY <2>1, <2>2
<1> QED
  BY <1>1 DEF BooksInv, Books

\* Nothing is entered or taken out, and the call is as open as it was.
LEMMA BooksStand ==
  ASSUME BooksInv, faults = 0, NEW r \in Requests, UNCHANGED << inflight, gauge >>,
         call'[r].node = call[r].node, call'[r].op = call[r].op,
         call'[r].st \in Open <=> call[r].st \in Open,
         client'[r] # "gone", WaitedFor(r)'
  PROVE  Books(r)
<1>1. \A n \in Nodes : OnBooks(r, n)' <=> OnBooks(r, n)
  BY DEF OnBooks, Open, Counted
<1> QED
  BY <1>1, BooksAre DEF Books

\* A step of a handler that leaves its call alone.
LEMMA HandlerStands ==
  ASSUME TypeOK, BooksInv, faults = 0, NEW r \in Requests, ReqInv(r), Kept(r), Busy(r),
         UNCHANGED << inflight, gauge >>, ran'[r] = ran[r], ask'[r] = ask[r], client'[r] = client[r],
         call'[r].node = call[r].node, call'[r].op = call[r].op, call'[r].st = call[r].st,
         call'[r].out = call[r].out, Top(r).at # "running" \/ call[r].op \in Streamed,
         Top(r).at = "relaying" /\ call[r].op \in Streamed => cause'[r] = cause[r]
  PROVE  Books(r)
<1>1. WaitedFor(r) /\ client[r] # "gone" /\ call[r] \in EngineCalls
  BY BooksAre DEF TypeOK
<1>2. CASE call[r].st \in { "none", "closed" }
  <2>1. WaitedFor(r)'
    BY <1>2 DEF WaitedFor
  <2> QED
    BY <1>1, <2>1, BooksStand
<1>3. CASE call[r].st \notin { "none", "closed" }
  <2>1. call[r].st \in Open /\ call[r].op \in Streamed
    BY <1>1, <1>3 DEF WaitedFor, Open, EngineCalls
  <2>2. Top(r).at \in { "relaying", "running", "collecting" }
    <3>1. Top(r).at \in Places /\ Top(r).at \notin Early /\ Top(r).at # "waiting"
      BY <1>1, <1>3, TopIs DEF WaitedFor, ReqInv, StackInv, Frames
    <3> QED
      BY <3>1 DEF Places, Early
  <2>3. ask[r].op # "load_dataset"
    BY <2>1 DEF ReqInv, CallInv, Streamed, Open
  <2>4. Busy(r)' => Top(r)'.at \notin Early
    <3>1. CASE Ran(r)
      <4>1. Len(ran[r]) = 1
        BY <2>3, <3>1 DEF ReqInv, RanInv
      <4>2. Busy(r)' /\ Top(r)'.at \in Early => Len(ran'[r]) < 1
        <5>1. RanInv(r)' /\ ask'[r].op # "load_dataset"
          BY <2>3 DEF Kept, ReqInv
        <5> QED
          BY <5>1 DEF RanInv, Need
      <4>3. ~ (1 < 1)
        OBVIOUS
      <4> QED
        BY <4>1, <4>2, <4>3
    <3>2. CASE ~ Ran(r)
      <4>1. Top(r).at = "relaying" /\ ~ Top(r).res.ok
        BY <2>2, <3>2 DEF Ran, Serving
      <4>2. cause'[r] # None
        BY <2>1, <4>1 DEF ReqInv, CauseInv, Rooted, Traces
      <4>3. CauseInv(r)'
        BY DEF Kept, ReqInv
      <4> QED
        BY <4>2, <4>3 DEF CauseInv
    <3> QED
      BY <3>1, <3>2
  <2>5. WaitedFor(r)'
    BY <1>1, <2>1, <2>4 DEF WaitedFor
  <2> QED
    BY <1>1, <2>5, BooksStand
<1> QED
  BY <1>2, <1>3

\* An entry more.
LEMMA Entered ==
  ASSUME TypeOK, BooksInv, faults = 0, NEW r \in Requests, NEW n \in Nodes, r \notin inflight[n],
         inflight' = [ inflight EXCEPT ![n] = inflight[n] \cup { r } ],
         gauge' = [ gauge EXCEPT ![n] = gauge[n] + 1 ]
  PROVE  \A m \in Nodes : /\ IsFiniteSet(inflight'[m]) /\ gauge'[m] = Cardinality(inflight'[m])
                          /\ r \in inflight'[m] <=> (m = n \/ r \in inflight[m])
<1> SUFFICES ASSUME NEW m \in Nodes
             PROVE  /\ IsFiniteSet(inflight'[m]) /\ gauge'[m] = Cardinality(inflight'[m])
                    /\ r \in inflight'[m] <=> (m = n \/ r \in inflight[m])
  OBVIOUS
<1>1. IsFiniteSet(inflight[m]) /\ gauge[m] = Cardinality(inflight[m])
  BY BooksAre
<1>2. /\ inflight'[m] = IF m = n THEN inflight[m] \cup { r } ELSE inflight[m]
      /\ gauge'[m] = IF m = n THEN gauge[m] + 1 ELSE gauge[m]
  BY DEF TypeOK
<1>3. CASE m = n
  <2>1. /\ IsFiniteSet(inflight[m] \cup { r })
        /\ Cardinality(inflight[m] \cup { r }) = Cardinality(inflight[m]) + 1
    BY <1>1, <1>3, FS_AddElement
  <2> QED
    BY <1>1, <1>2, <1>3, <2>1
<1>4. CASE m # n
  BY <1>1, <1>2, <1>4
<1> QED
  BY <1>3, <1>4

\* An entry less.
LEMMA TakenOut ==
  ASSUME TypeOK, BooksInv, faults = 0, NEW r \in Requests, NEW n \in Nodes, n = call[r].node,
         OnBooks(r, n), Completed(r)
  PROVE  \A m \in Nodes : /\ IsFiniteSet(inflight'[m]) /\ gauge'[m] = Cardinality(inflight'[m])
                          /\ r \notin inflight'[m]
<1> SUFFICES ASSUME NEW m \in Nodes
             PROVE  /\ IsFiniteSet(inflight'[m]) /\ gauge'[m] = Cardinality(inflight'[m])
                    /\ r \notin inflight'[m]
  OBVIOUS
<1>1. /\ IsFiniteSet(inflight[m]) /\ gauge[m] = Cardinality(inflight[m])
      /\ r \in inflight[m] <=> OnBooks(r, m)
  BY BooksAre
<1>2. /\ inflight'[m] = IF m = n THEN inflight[m] \ { r } ELSE inflight[m]
      /\ gauge'[m] = IF m = n THEN gauge[m] - 1 ELSE gauge[m]
  BY CompletedDoes
<1>3. CASE m = n
  <2>1. r \in inflight[m]
    BY <1>1, <1>3
  <2>2. /\ IsFiniteSet(inflight[m] \ { r })
        /\ Cardinality(inflight[m] \ { r }) = Cardinality(inflight[m]) - 1
    BY <1>1, <2>1, FS_RemoveElement
  <2> QED
    BY <1>1, <1>2, <1>3, <2>2
<1>4. CASE m # n
  BY <1>1, <1>2, <1>4 DEF OnBooks
<1> QED
  BY <1>3, <1>4

\* The call is over, and so is its entry, if it had one.
LEMMA BooksClosed ==
  ASSUME TypeOK, BooksInv, faults = 0, NEW r \in Requests, ReqInv(r), call[r].st = "ended",
         call'[r].st = "closed", client'[r] = client[r],
         \/ Counted(call[r].op) /\ Completed(r)
         \/ ~ Counted(call[r].op) /\ UNCHANGED << inflight, gauge >>
  PROVE  Books(r)
<1>1. client'[r] # "gone" /\ WaitedFor(r)'
  BY BooksAre DEF WaitedFor
<1>2. \A n \in Nodes : ~ OnBooks(r, n)'
  BY DEF OnBooks
<1>3. CASE Counted(call[r].op) /\ Completed(r)
  <2>1. PICK n \in Nodes : n = call[r].node
    BY DEF ReqInv, CallInv
  <2>2. OnBooks(r, n)
    BY <1>3, <2>1 DEF OnBooks
  <2>3. \A m \in Nodes : /\ IsFiniteSet(inflight'[m]) /\ gauge'[m] = Cardinality(inflight'[m])
                         /\ r \notin inflight'[m]
    BY <1>3, <2>1, <2>2, TakenOut
  <2> QED
    BY <1>1, <1>2, <2>3 DEF Books
<1>4. CASE ~ Counted(call[r].op) /\ UNCHANGED << inflight, gauge >>
  <2>1. \A n \in Nodes : ~ OnBooks(r, n)
    BY <1>4 DEF OnBooks
  <2> QED
    BY <1>1, <1>2, <1>4, <2>1, BooksAre DEF Books
<1> QED
  BY <1>3, <1>4

\* A relayed failure is already blamed.
LEMMA AlreadyBlamed ==
  ASSUME TypeOK, NEW r \in Requests, ReqInv(r), Busy(r), Top(r).at = "relaying",
         NEW res, res.ok = TRUE \/ res = Top(r).res, Return(r, res)
  PROVE  cause'[r] = cause[r]
<1>1. PICK n : Blame(r, n, res)
  BY DEF Return
<1>2. ~ res.ok => cause[r] # None
  BY DEF ReqInv, CauseInv, Rooted, Traces
<1> QED
  BY <1>1, <1>2 DEF Blame, BlameVia, TypeOK

\* The handlers that do not touch their call: those that ask, resolve and dial, ...
LEMMA EarlyBooks ==
  ASSUME TypeOK, BooksInv, faults = 0, NEW r \in Requests, ReqInv(r), Kept(r), Busy(r), Top(r).at \in Early,
         UNCHANGED << client, ask, engine >>
  PROVE  Books(r)
<1>1. /\ UNCHANGED << inflight, gauge >> /\ ran'[r] = ran[r] /\ ask'[r] = ask[r] /\ client'[r] = client[r]
      /\ call'[r] = call[r] /\ Top(r).at # "running" /\ Top(r).at # "relaying"
  BY DEF engine, Early
<1> QED
  BY <1>1, HandlerStands

\* ... relay an answer, or go on with a load.
LEMMA RelayBooks ==
  ASSUME TypeOK, BooksInv, faults = 0, NEW r \in Requests, ReqInv(r), Relay(r) \/ LoadGoesOn(r)
  PROVE  Books(r)
<1>1. Kept(r)
  BY RelayKeeps, LoadGoesOnKeeps
<1>2. Busy(r) /\ Top(r).at = "relaying" /\ UNCHANGED << client, ask, engine >>
  BY DEF Relay, LoadGoesOn, Busy
<1>3. cause'[r] = cause[r]
  <2>1. CASE Relay(r)
    <3>1. UNCHANGED cause \/ Return(r, Top(r).res)
      BY <2>1 DEF Relay
    <3> QED
      BY <1>2, <3>1, AlreadyBlamed
  <2>2. CASE LoadGoesOn(r)
    <3>1. PICK res : res = IF Top(r).res.ok THEN Ok(Top(r).node) ELSE Top(r).res
      OBVIOUS
    <3>2. UNCHANGED cause \/ Return(r, res)
      BY <2>2, <3>1 DEF LoadGoesOn
    <3>3. res.ok = TRUE \/ res = Top(r).res
      BY <3>1 DEF Ok
    <3> QED
      BY <1>2, <3>2, <3>3, AlreadyBlamed
  <2> QED
    BY <2>1, <2>2
<1>4. /\ UNCHANGED << inflight, gauge >> /\ ran'[r] = ran[r] /\ ask'[r] = ask[r] /\ client'[r] = client[r]
      /\ call'[r] = call[r] /\ Top(r).at # "running"
  BY <1>2 DEF engine
<1> QED
  BY <1>1, <1>2, <1>3, <1>4, HandlerStands

\* A read that flows, or is collected.
LEMMA ReadBooks ==
  ASSUME TypeOK, BooksInv, faults = 0, NEW r \in Requests, ReqInv(r),
         Established(r) \/ \E capped \in BOOLEAN : Collected(r, capped)
  PROVE  Books(r)
<1>1. Kept(r)
  BY EstablishedKeeps, CollectedKeeps
<1>2. CASE Established(r)
  <2>1. /\ Busy(r) /\ Top(r).at = "running" /\ Top(r).op \in Streamed
        /\ UNCHANGED << client, ask, engine >>
    BY <1>2 DEF Established, Waits, Busy
  <2>2. call[r].op \in Streamed
    BY <2>1 DEF ReqInv, JoinInv
  <2>3. /\ UNCHANGED << inflight, gauge >> /\ ran'[r] = ran[r] /\ ask'[r] = ask[r] /\ client'[r] = client[r]
        /\ call'[r] = call[r] /\ Top(r).at # "relaying"
    BY <2>1 DEF engine
  <2> QED
    BY <1>1, <2>1, <2>2, <2>3, HandlerStands
<1>3. CASE \E capped \in BOOLEAN : Collected(r, capped)
  <2>1. PICK capped \in BOOLEAN : Collected(r, capped)
    BY <1>3
  <2>2. /\ Busy(r) /\ Top(r).at = "collecting" /\ UNCHANGED << client, ask, inflight, gauge, ran >>
        /\ call' = IF capped THEN [ call EXCEPT ![r].heard = FALSE ] ELSE call
    BY <2>1 DEF Collected, Busy
  <2>3. /\ call'[r].node = call[r].node /\ call'[r].op = call[r].op /\ call'[r].st = call[r].st
        /\ call'[r].out = call[r].out
    <3>1. call \in [ Requests -> EngineCalls ] /\ call[r] \in EngineCalls
      BY DEF TypeOK
    <3>2. call'[r] = call[r] \/ call'[r] = [ call[r] EXCEPT !.heard = FALSE ]
      BY <2>2, <3>1
    <3> QED
      BY <3>1, <3>2 DEF EngineCalls
  <2>4. /\ UNCHANGED << inflight, gauge >> /\ ran'[r] = ran[r] /\ ask'[r] = ask[r] /\ client'[r] = client[r]
        /\ Top(r).at # "running" /\ Top(r).at # "relaying"
    BY <2>2
  <2> QED
    BY <1>1, <2>2, <2>3, <2>4, HandlerStands
<1> QED
  BY <1>2, <1>3

\* A statement that is joined.
LEMMA JoinBooks ==
  ASSUME TypeOK, BooksInv, faults = 0, NEW r \in Requests, ReqInv(r),
         Joins(r) \/ \E op \in Bare : JoinsBare(r, op)
  PROVE  Books(r)
<1>1. StackInv(r) /\ JoinInv(r) /\ call[r] \in EngineCalls /\ call \in [ Requests -> EngineCalls ]
  BY DEF ReqInv, TypeOK
<1>2. ASSUME Busy(r), Top(r).at \in { "running", "collecting" }, Top(r).op # "read_query"
      PROVE  call[r].op = Top(r).op
  <2>1. Top(r).at = "running"
    BY <1>1, <1>2, TopIs DEF FrameInv
  <2> QED
    BY <1>1, <1>2, <2>1 DEF JoinInv
<1>3. CASE Joins(r)
  <2>1. /\ Busy(r) /\ Top(r).at \in { "running", "collecting" } /\ Top(r).op = "write_query"
        /\ call[r].st = "ended" /\ Completed(r) /\ client' = client
        /\ call' = [ call EXCEPT ![r] = [ drop_guard(call[r]) EXCEPT !.st = "closed" ] ]
    BY <1>3 DEF Joins, Waits, Busy
  <2>2. Counted(call[r].op)
    BY <1>2, <2>1 DEF Counted
  <2>3. call'[r].st = "closed"
    BY <1>1, <2>1, ClosedCall
  <2> QED
    BY <2>1, <2>2, <2>3, BooksClosed
<1>4. CASE \E op \in Bare : JoinsBare(r, op)
  <2>1. PICK op \in Bare : JoinsBare(r, op)
    BY <1>4
  <2>2. /\ Busy(r) /\ Top(r).at \in { "running", "collecting" } /\ Top(r).op = op
        /\ call[r].st = "ended" /\ UNCHANGED << client, inflight, gauge >>
        /\ call' = [ call EXCEPT ![r].st = "closed" ]
    BY <2>1 DEF JoinsBare, Waits, Busy
  <2>3. op # "read_query" /\ ~ Counted(op)
    BY DEF Bare, Counted, Streamed
  <2>4. ~ Counted(call[r].op)
    BY <1>2, <2>2, <2>3
  <2>5. call'[r].st = "closed"
    BY <1>1, <2>2 DEF EngineCalls
  <2> QED
    BY <2>2, <2>4, <2>5, BooksClosed
<1> QED
  BY <1>3, <1>4

\* A statement that starts.
LEMMA LaunchBooks ==
  ASSUME TypeOK, BooksInv, faults = 0, NEW r \in Requests, ReqInv(r), Busy(r), Top(r).at = "routing",
         Launch(r, Top(r)), UNCHANGED << conf, client, ask >>
  PROVE  Books(r)
<1>1. StackInv(r) /\ WaitedFor(r) /\ client[r] # "gone"
  BY BooksAre DEF ReqInv
<1>2. PICK f \in Frames : f = Top(r) /\ f.node \in Nodes
  BY <1>1, TopIs DEF Frames
<1>3. Launch(r, f) /\ Move(r, "running") /\ answer' = answer
  BY <1>2 DEF Launch
<1>4. call'[r].node = f.node /\ call'[r].op = f.op /\ call'[r].st \in { "queued", "running" }
  BY <1>3, LaunchedCall
<1>5. Busy(r)' /\ Top(r)'.at = "running"
  <2>1. PICK g \in Frames :
          /\ Still(Top(r), g) /\ g.at = "running"
          /\ frames' = [ frames EXCEPT ![r] = [ frames[r] EXCEPT ![Depth(r)] = g ] ]
    BY <1>1, <1>3, MoveIs, ZenonT(60) DEF Places
  <2>2. g.node = Top(r).node /\ g.op = Top(r).op /\ g.who = Top(r).who /\ g.to = Top(r).to
    BY <2>1 DEF Still
  <2>3. Top(r).op \notin Registry \cup { "load_dataset" } /\ Top(r).to = None
    BY <1>1, TopIs DEF FrameInv
  <2>4. Busy(r)' /\ Top(r)' = g
    BY <1>1, <1>3, <2>1, <2>2, <2>3, TopMoves
  <2> QED
    BY <2>1, <2>4
<1>6. WaitedFor(r)'
  BY <1>4, <1>5 DEF WaitedFor, Early
<1>7. \A n \in Nodes : r \notin inflight[n]
  <2>1. call[r].st \in { "none", "closed" }
    BY <1>1 DEF WaitedFor, Early
  <2> QED
    BY <2>1, BooksAre DEF OnBooks
<1>8. CASE Counted(f.op)
  <2>1. /\ inflight' = [ inflight EXCEPT ![f.node] = inflight[f.node] \cup { r } ]
        /\ gauge' = [ gauge EXCEPT ![f.node] = gauge[f.node] + 1 ]
    BY <1>3, <1>8 DEF Launch
  <2>2. PICK n \in Nodes : n = f.node
    BY <1>2
  <2>3. \A m \in Nodes : /\ IsFiniteSet(inflight'[m]) /\ gauge'[m] = Cardinality(inflight'[m])
                         /\ r \in inflight'[m] <=> (m = n \/ r \in inflight[m])
    BY <1>7, <2>1, <2>2, Entered
  <2>4. \A m \in Nodes : OnBooks(r, m)' <=> m = n
    BY <1>4, <1>8, <2>2 DEF OnBooks, Counted
  <2> QED
    BY <1>1, <1>6, <1>7, <2>3, <2>4 DEF Books
<1>9. CASE ~ Counted(f.op)
  <2>1. UNCHANGED << inflight, gauge >>
    BY <1>3, <1>9 DEF Launch
  <2>2. \A m \in Nodes : ~ OnBooks(r, m)'
    BY <1>4, <1>9 DEF OnBooks, Counted
  <2> QED
    BY <1>1, <1>6, <1>7, <2>1, <2>2, BooksAre DEF Books
<1> QED
  BY <1>8, <1>9

\* The way the registry's answer names.
LEMMA RouteBooks ==
  ASSUME TypeOK, BooksInv, faults' = 0, NEW r \in Requests, ReqInv(r), LookupInv(r), Route(r)
  PROVE  faults = 0 /\ Books(r)
<1>1. /\ Busy(r) /\ Top(r).at = "routing" /\ Top(r).at \in Early /\ faults \in Nat
      /\ UNCHANGED << conf, client, ask >>
  BY DEF Route, Busy, Early, world, TypeOK
<1>2. Kept(r)
  BY RouteKeeps
<1>3. \/ Launch(r, Top(r)) /\ faults' = faults
      \/ faults' = faults + 1
      \/ UNCHANGED << engine, faults >>
  BY DEF Route, Refused, Launch, StorageFails
<1>4. faults' # faults + 1
  BY <1>1
<1> QED
  BY <1>1, <1>2, <1>3, <1>4, LaunchBooks, EarlyBooks

\* A step of a handler.
LEMMA HandlerBooks ==
  ASSUME TypeOK, BooksInv, faults' = 0, NEW r \in Requests, ReqInv(r), LookupInv(r), HandlerStep(r)
  PROVE  faults = 0 /\ Books(r)
<1>0. Kept(r)
  BY HandlerKeeps
<1>1. CASE AllocatePond(r) \/ ListPonds(r) \/ ListDatasets(r) \/ ListCatalogs(r)
  <2>1. Busy(r) /\ Top(r).at = "asking" /\ UNCHANGED << client, ask, engine, faults >>
    BY <1>1 DEF AllocatePond, ListPonds, ListDatasets, ListCatalogs, Asking, Busy
  <2>2. Top(r).at \in Early /\ faults = 0
    BY <2>1 DEF Early
  <2> QED
    BY <1>0, <2>1, <2>2, EarlyBooks
<1>2. CASE RefusesArguments(r)
  <2>1. Busy(r) /\ Top(r).at = "routing" /\ UNCHANGED << client, ask, engine, faults >>
    BY <1>2 DEF RefusesArguments, ZeroLimit, prepare_pull, NoLineage, Refused, Busy
  <2>2. Top(r).at \in Early /\ faults = 0
    BY <2>1 DEF Early
  <2> QED
    BY <1>0, <2>1, <2>2, EarlyBooks
<1>3. CASE CachedClient(r) \/ Connect(r) \/ Connected(r)
  <2>1. Busy(r) /\ Top(r).at = "dialling" /\ UNCHANGED << client, ask, engine, faults >>
    BY <1>3 DEF CachedClient, Connect, Connected, Dialling, Busy
  <2>2. Top(r).at \in Early /\ faults = 0
    BY <2>1 DEF Early
  <2> QED
    BY <1>0, <2>1, <2>2, EarlyBooks
<1>4. CASE LoadBegins(r)
  <2>1. Busy(r) /\ Top(r).at = "loading" /\ UNCHANGED << client, ask, engine, faults >>
    BY <1>4 DEF LoadBegins, Busy
  <2>2. Top(r).at \in Early /\ faults = 0
    BY <2>1 DEF Early
  <2> QED
    BY <1>0, <2>1, <2>2, EarlyBooks
<1>5. CASE Route(r)
  BY <1>5, RouteBooks
<1>10. CASE pond_info_audited(r)
  <2>1. Busy(r) /\ Top(r).at = "resolving" /\ UNCHANGED << client, ask, engine, faults >>
    BY <1>10 DEF pond_info_audited, Refused, Busy
  <2>2. Top(r).at \in Early /\ faults = 0
    BY <2>1 DEF Early
  <2> QED
    BY <1>0, <2>1, <2>2, EarlyBooks
<1>6. CASE Relay(r) \/ LoadGoesOn(r)
  <2>1. faults = 0
    BY <1>6 DEF Relay, LoadGoesOn
  <2> QED
    BY <1>6, <2>1, RelayBooks
<1>7. CASE Established(r) \/ \E capped \in BOOLEAN : Collected(r, capped)
  <2>1. faults = 0
    BY <1>7 DEF Established, Collected
  <2> QED
    BY <1>7, <2>1, ReadBooks
<1>8. CASE Joins(r) \/ \E op \in Bare : JoinsBare(r, op)
  <2>1. faults = 0
    BY <1>8 DEF Joins, JoinsBare
  <2> QED
    BY <1>8, <2>1, JoinBooks
<1>9. describe_pond_local(r) \/ explain_query_local(r) \/ catalog_describe_local(r)
      \/ catalog_pull_local(r) \/ get_lineage_local(r) => \E op \in Bare : JoinsBare(r, op)
  BY DEF Bare, describe_pond_local, explain_query_local, catalog_describe_local,
         catalog_pull_local, get_lineage_local
<1> QED
  BY <1>1, <1>2, <1>3, <1>4, <1>5, <1>6, <1>7, <1>8, <1>9, <1>10
     DEF HandlerStep, ControlStep, NodeStep

\* A request that comes.
LEMMA ArrivesBooks ==
  ASSUME TypeOK, BooksInv, faults' = 0, NEW r \in Requests, ReqInv(r), Arrives(r)
  PROVE  faults = 0 /\ Books(r)
<1>1. client[r] = "idle" /\ client'[r] = "waiting" /\ UNCHANGED << call, inflight, gauge, faults >>
  BY Came DEF engine
<1>2. call[r].st = "none" /\ faults = 0
  BY <1>1 DEF ReqInv, StackInv
<1>3. WaitedFor(r)'
  BY <1>1, <1>2 DEF WaitedFor
<1> QED
  BY <1>1, <1>2, <1>3, BooksStand

\* A call that runs on, and the handlers do not move.
LEMMA RunsOn ==
  ASSUME TypeOK, BooksInv, faults = 0, NEW r \in Requests, UNCHANGED << client, frames, inflight, gauge >>,
         call[r].st \in Open, call'[r].st \in Open, call'[r].node = call[r].node, call'[r].op = call[r].op,
         call'[r].st = "ended" => call'[r].out # "panic"
  PROVE  Books(r)
<1>1. WaitedFor(r) /\ client'[r] # "gone"
  BY BooksAre
<1>2. WaitedFor(r)'
  BY <1>1 DEF WaitedFor, Busy, Top, Open
<1> QED
  BY <1>1, <1>2, BooksStand

\* The engine and the timers.
LEMMA EngineBooks ==
  ASSUME TypeOK, BooksInv, faults' = 0, NEW r \in Requests, ReqInv(r),
         EngineStep(r) \/ Expire(r) \/ CancelSeen(r)
  PROVE  faults = 0 /\ Books(r)
<1>1. call \in [ Requests -> EngineCalls ] /\ call[r] \in EngineCalls /\ faults \in Nat
  BY DEF TypeOK
<1>2. CASE Flows(r)
  <2>1. /\ UNCHANGED << client, frames, inflight, gauge, faults >> /\ call[r].st = "running"
        /\ call' = [ call EXCEPT ![r].st = "flowing", ![r].flowed = TRUE ]
    BY <1>2 DEF Flows
  <2>2. call'[r].st = "flowing" /\ call'[r].node = call[r].node /\ call'[r].op = call[r].op
    BY <1>1, <2>1 DEF EngineCalls
  <2> QED
    BY <2>1, <2>2, RunsOn DEF Open
<1>7. CASE checkout_read(r)
  <2>1. /\ UNCHANGED << client, frames, inflight, gauge, faults >> /\ call[r].st = "queued"
        /\ call' = [ call EXCEPT ![r].st = "running" ]
    BY <1>7 DEF checkout_read
  <2>2. call'[r].st = "running" /\ call'[r].node = call[r].node /\ call'[r].op = call[r].op
    BY <1>1, <2>1 DEF EngineCalls
  <2> QED
    BY <2>1, <2>2, RunsOn DEF Open
<1>3. ASSUME NEW out \in Outcomes, EngineEnds(r, out) PROVE faults = 0 /\ Books(r)
  <2>1. /\ UNCHANGED << client, frames, inflight, gauge >> /\ call[r].st \in { "queued", "running", "flowing" }
        /\ call' = [ call EXCEPT ![r].st = "ended", ![r].out = out ]
        /\ IF out = "panic" THEN faults' = faults + 1 ELSE faults' = faults
    BY <1>3 DEF EngineEnds, Live
  <2>2. faults' # faults + 1
    BY <1>1
  <2>3. out # "panic" /\ faults = 0
    BY <2>1, <2>2
  <2>4. /\ call'[r].st = "ended" /\ call'[r].node = call[r].node /\ call'[r].op = call[r].op
        /\ call'[r].out = out
    BY <1>1, <2>1 DEF EngineCalls
  <2> QED
    BY <2>1, <2>3, <2>4, RunsOn DEF Open
<1>4. ASSUME Expire(r) \/ CancelSeen(r) PROVE faults = 0 /\ Books(r)
  <2>1. /\ UNCHANGED << client, frames, inflight, gauge, faults >> /\ call[r].st \in Open
    BY <1>4 DEF Expire, CancelSeen, Open, Live
  <2>2. call'[r].st = call[r].st /\ call'[r].node = call[r].node /\ call'[r].op = call[r].op
        /\ call'[r].out = call[r].out
    <3>1. PICK who \in Whos : \/ call' = [ call EXCEPT ![r] = [ Fire(call[r], who) EXCEPT !.expired = TRUE, !.timer = "spent" ] ]
                              \/ call' = [ call EXCEPT ![r] = [ Fire(call[r], who) EXCEPT !.timer = "spent" ] ]
      BY <1>4 DEF Expire, CancelSeen, Whos
    <3>2. PICK e \in EngineCalls : /\ e = Fire(call[r], who) /\ e.st = call[r].st /\ e.node = call[r].node
                                   /\ e.op = call[r].op /\ e.out = call[r].out
      BY <1>1, FireIs, ZenonT(60)
    <3>3. call'[r] = [ e EXCEPT !.expired = TRUE, !.timer = "spent" ] \/ call'[r] = [ e EXCEPT !.timer = "spent" ]
      BY <1>1, <3>1, <3>2
    <3> QED
      BY <3>2, <3>3 DEF EngineCalls
  <2>3. call[r].st = "ended" => call[r].out # "panic"
    BY <2>1, BooksAre DEF WaitedFor
  <2> QED
    BY <2>1, <2>2, <2>3, RunsOn
<1>5. CASE ProducerEnds(r)
  <2>1. /\ UNCHANGED << client, faults >> /\ call[r].st = "ended" /\ call[r].op \in Streamed
        /\ call' = [ call EXCEPT ![r] = [ drop_guard(call[r]) EXCEPT !.st = "closed" ] ]
    BY <1>5 DEF ProducerEnds
  <2>2. call[r].out # "panic" /\ faults = 0
    BY <2>1, BooksAre DEF WaitedFor
  <2>3. Completed(r) /\ Counted(call[r].op)
    BY <1>5, <2>1, <2>2 DEF ProducerEnds, Counted
  <2>4. call'[r].st = "closed"
    BY <1>1, <2>1, ClosedCall
  <2> QED
    BY <2>1, <2>2, <2>3, <2>4, BooksClosed
<1>6. CASE OrphanEnds(r)
  <2>1. faults = 0 /\ call[r].st = "ended" /\ call[r].op \notin Streamed /\ ~ Waits(r)
    BY <1>6 DEF OrphanEnds
  <2>2. Busy(r) /\ Top(r).at = "running"
    BY <2>1, BooksAre DEF WaitedFor
  <2>3. Waits(r)
    BY <2>2 DEF ReqInv, JoinInv, Waits, Busy
  <2> QED
    BY <2>1, <2>3
<1> QED
  BY <1>2, <1>3, <1>4, <1>5, <1>6, <1>7 DEF EngineStep

\* Every step keeps the books.
LEMMA StepBooks ==
  ASSUME PathInv, BooksInv, [Next]_vars
  PROVE  BooksInv'
<1>1. TypeOK /\ (\A r \in Requests : ReqInv(r) /\ LookupInv(r)) /\ faults \in Nat
  BY DEF PathInv, TypeOK
<1>2. CASE UNCHANGED vars
  BY <1>2 DEF vars, BooksInv, WaitedFor, OnBooks, Busy, Top
<1>3. SUFFICES ASSUME Next, faults' = 0 PROVE BooksInv'
  BY <1>2 DEF BooksInv
<1>4. faults' # faults + 1
  BY <1>1, <1>3
<1>5. \A n \in Nodes : ~ Crash(n)
  BY <1>4 DEF Crash, Fault
<1>6. PICK r \in Requests :
         \/ Arrives(r) \/ HandlerStep(r) \/ EngineStep(r) \/ Expire(r) \/ CallerCancels(r)
         \/ CancelSeen(r) \/ DropCancels(r) \/ Hangup(r) \/ Reset(r) \/ StreamDropped(r) \/ RowGoes(r) \/ OwnerMoves(r)
  BY <1>3, <1>5 DEF Next
<1>7. ~ CallerCancels(r) /\ ~ DropCancels(r) /\ ~ Hangup(r) /\ ~ StreamDropped(r) /\ ~ RowGoes(r) /\ ~ OwnerMoves(r)
  BY <1>4 DEF CallerCancels, DropCancels, Hangup, StreamDropped, RowGoes, OwnerMoves, Fault
<1>8. ~ Reset(r)
  <2>1. Reset(r) => client[r] = "gone" /\ faults = 0
    BY <1>3 DEF Reset
  <2> QED
    BY <2>1, BooksAre
<1>9. Kept(r)
  BY <1>1, <1>6, <1>7, <1>8, ArrivesKeeps, HandlerKeeps, EngineKeeps
<1>10. faults = 0 /\ Books(r)
  BY <1>1, <1>3, <1>6, <1>7, <1>8, ArrivesBooks, HandlerBooks, EngineBooks
<1> QED
  BY <1>9, <1>10, BooksKept

\* The books at the start.
LEMMA InitBooks ==
  ASSUME Init
  PROVE  BooksInv
<1>1. ASSUME NEW r \in Requests
      PROVE  client[r] # "gone" /\ WaitedFor(r) /\ \A n \in Nodes : ~ OnBooks(r, n)
  <2>1. call[r] = NoCall /\ client[r] \in { "idle", "absent" }
    BY DEF Init
  <2>2. call[r].st = "none"
    BY <2>1 DEF NoCall
  <2> QED
    BY <2>1, <2>2 DEF WaitedFor, OnBooks
<1>2. ASSUME NEW n \in Nodes PROVE inflight[n] = {} /\ gauge[n] = 0
  BY DEF Init
<1>3. IsFiniteSet({}) /\ Cardinality({}) = 0
  BY FS_EmptySet
<1> QED
  BY <1>1, <1>2, <1>3 DEF BooksInv

(* While nothing fails the in-flight registry of a node holds exactly the  *)
(* requests with a statement open there, its gauge counts them, and both   *)
(* are at zero on a quiet node (ops.rs run_query_local, read_arrow_local). *)
THEOREM BooksBalance == Spec => []BalancedUnlessFaulty
<1>1. PathInv /\ BooksInv => BalancedUnlessFaulty
  <2> SUFFICES ASSUME TypeOK, BooksInv, faults = 0, NEW n \in Nodes, Quiet(n)
               PROVE  inflight[n] = {} /\ gauge[n] = 0
    BY DEF BalancedUnlessFaulty, PathInv
  <2>1. \A r \in Requests : ~ OnBooks(r, n)
    BY DEF Quiet, OnBooks
  <2>2. inflight[n] \subseteq Requests
    BY DEF TypeOK
  <2>3. inflight[n] = {} /\ gauge[n] = Cardinality(inflight[n])
    BY <2>1, <2>2 DEF BooksInv
  <2> QED
    BY <2>3, FS_EmptySet
<1>2. Init => BooksInv
  BY InitBooks
<1>3. PathInv /\ BooksInv /\ [Next]_vars => BooksInv'
  BY StepBooks
<1> QED
  BY <1>1, <1>2, <1>3, PathInvariant, PTL DEF Spec
=============================================================================
