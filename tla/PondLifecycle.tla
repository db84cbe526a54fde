--------------------------- MODULE PondLifecycle ---------------------------
(***************************************************************************)
(* The life of a pond across the control plane and the pond nodes:         *)
(* Control.CreatePondAssignment (place, materialise on the owner, give the *)
(* placement back on failure), the local half of a query on the owning     *)
(* node, drop_pond on the owning node, `latiq pond forget`, and the        *)
(* heartbeats, reaping, crashes and restarts of the nodes.                 *)
(*                                                                         *)
(* Handlers run concurrently: every await and every separately taken lock  *)
(* of the code is a boundary between two actions.  A pond's id is minted   *)
(* by the one create that makes it, so an element of Ponds names both the  *)
(* pond and its create.  References are modelled as already being pond     *)
(* ids, as the registry resolves them.                                     *)
(***************************************************************************)
EXTENDS Naturals, FiniteSets

CONSTANTS Ponds,      \* pond ids, each minted by one create
          Nodes,      \* pond nodes
          Queries,    \* query requests, each running once
          Drops,      \* drop_pond requests, each running once
          Hangups,    \* the requests whose client may disconnect
          NoNode,     \* "no placement yet"
          MaxCrashes  \* bound on node crashes

ASSUME LifecycleAssumption ==
  /\ NoNode \notin Nodes
  /\ MaxCrashes \in Nat

VARIABLES
  nstate,    \* nodes.state and heartbeat age; "stale" = active, but past its ttl
  up,        \* the node processes that are running
  crashes,   \* crashes so far
  rows,      \* the pond rows of the registry
  owner,     \* ponds.node_id as placed; it is never updated
  cpc,       \* control plane: where each create is
  mpc,       \* owning node: where each MaterializePond is
  disk,      \* per node, the pond directories on its file system
  open,      \* per node, DuckEngine::ponds
  dropping,  \* per node, InFlightRegistry::dropping
  inflight,  \* the queries in their node's InFlightRegistry::map
  token,     \* the queries whose AbortToken is cancelled
  qpc, qpond, qat,   \* query handlers: where, on which pond, at which node
  dpc, dpond, dat,   \* drop handlers: where, on which pond, at which node
  raced      \* history: queries caught between register's two locks by a begin_drop

registryVars == <<rows, owner>>
nodeVars     == <<nstate, up, crashes>>
createVars   == <<cpc, mpc>>
localVars    == <<disk, open, dropping, inflight, token, raced>>
queryVars    == <<qpc, qpond, qat>>
dropVars     == <<dpc, dpond, dat>>
vars == <<registryVars, nodeVars, createVars, localVars, queryVars, dropVars>>

NodeStates == {"unregistered", "active", "stale", "down"}
CreateStates == {"new", "placed", "calling", "compensate",
                 "ok", "failed", "orphan", "abandoned"}
MaterializeStates == {"idle", "resolve", "ensure", "init", "done", "error"}
QueryBusy == {"resolve", "ensure", "check", "insert", "engine", "exec",
              "queued", "detached"}
QueryStates == {"idle", "done", "refused", "lost"} \cup QueryBusy
DropBusy == {"resolve", "mark", "cancel", "registry", "abort", "forget", "delete", "end"}
DropStates == {"idle", "done", "refused", "failed", "gone", "lost"} \cup DropBusy

\* A state of the drop in which its tombstone is set and its cancel has run.
Tombstoned == {"registry", "abort", "forget", "delete", "end"}
\* A query whose statement is, or is about to be, on the engine.
OnEngine == {"engine", "exec", "queued", "detached"}

TypeOK ==
  /\ nstate \in [Nodes -> NodeStates]
  /\ up \subseteq Nodes
  /\ crashes \in 0..MaxCrashes
  /\ rows \subseteq Ponds
  /\ owner \in [Ponds -> Nodes \cup {NoNode}]
  /\ cpc \in [Ponds -> CreateStates]
  /\ mpc \in [Ponds -> MaterializeStates]
  /\ disk \in [Nodes -> SUBSET Ponds]
  /\ open \in [Nodes -> SUBSET Ponds]
  /\ dropping \in [Nodes -> SUBSET Ponds]
  /\ inflight \subseteq Queries
  /\ token \subseteq Queries
  /\ raced \subseteq Queries
  /\ qpc \in [Queries -> QueryStates]
  /\ qpond \in [Queries -> Ponds]
  /\ qat \in [Queries -> Nodes]
  /\ dpc \in [Drops -> DropStates]
  /\ dpond \in [Drops -> Ponds]
  /\ dat \in [Drops -> Nodes]

Init ==
  /\ nstate = [n \in Nodes |-> "unregistered"]
  /\ up = {}
  /\ crashes = 0
  /\ rows = {}
  /\ owner = [p \in Ponds |-> NoNode]
  /\ cpc = [p \in Ponds |-> "new"]
  /\ mpc = [p \in Ponds |-> "idle"]
  /\ disk = [n \in Nodes |-> {}]
  /\ open = [n \in Nodes |-> {}]
  /\ dropping = [n \in Nodes |-> {}]
  /\ inflight = {}
  /\ token = {}
  /\ raced = {}
  /\ qpc = [q \in Queries |-> "idle"]
  /\ qpond \in [Queries -> Ponds]
  /\ qat \in [Queries -> Nodes]
  /\ dpc = [d \in Drops |-> "idle"]
  /\ dpond \in [Drops -> Ponds]
  /\ dat \in [Drops -> Nodes]

-----------------------------------------------------------------------------
(* Node processes and their registry rows. *)

\* build_ops: a starting node registers, which upserts its row as active.
RegisterNode(n) ==
  /\ n \notin up
  /\ up' = up \cup {n}
  /\ nstate' = [nstate EXCEPT ![n] = "active"]
  /\ UNCHANGED <<crashes, registryVars, createVars, localVars, queryVars, dropVars>>

\* The heartbeat loop of a running node: refreshes the row, reviving it.
Heartbeat(n) ==
  /\ n \in up
  /\ nstate[n] \in {"stale", "down"}
  /\ nstate' = [nstate EXCEPT ![n] = "active"]
  /\ UNCHANGED <<up, crashes, registryVars, createVars, localVars, queryVars, dropVars>>

\* Thirty seconds without a beat reaching the control plane: the node is dead,
\* or it is alive and its beats are late.
HeartbeatLapses(n) ==
  /\ nstate[n] = "active"
  /\ nstate' = [nstate EXCEPT ![n] = "stale"]
  /\ UNCHANGED <<up, crashes, registryVars, createVars, localVars, queryVars, dropVars>>

\* One sweep of the reaper downs every active node past its ttl.
ReapStaleNodes ==
  /\ \E n \in Nodes : nstate[n] = "stale"
  /\ nstate' = [n \in Nodes |-> IF nstate[n] = "stale" THEN "down" ELSE nstate[n]]
  /\ UNCHANGED <<up, crashes, registryVars, createVars, localVars, queryVars, dropVars>>

\* The process dies: the engine's instances, the tombstones, the in-flight map
\* and every handler of the node go with it; its disk stays.
Crash(n) ==
  /\ n \in up
  /\ crashes < MaxCrashes
  /\ up' = up \ {n}
  /\ crashes' = crashes + 1
  /\ open' = [open EXCEPT ![n] = {}]
  /\ dropping' = [dropping EXCEPT ![n] = {}]
  /\ inflight' = {q \in inflight : qat[q] # n}
  /\ qpc' = [q \in Queries |->
               IF qat[q] = n /\ qpc[q] \in QueryBusy THEN "lost" ELSE qpc[q]]
  /\ dpc' = [d \in Drops |->
               IF dat[d] = n /\ dpc[d] \in DropBusy THEN "lost" ELSE dpc[d]]
  /\ mpc' = [p \in Ponds |->
               IF owner[p] = n /\ mpc[p] \in {"resolve", "ensure", "init"}
               THEN "error" ELSE mpc[p]]
  /\ UNCHANGED <<nstate, registryVars, cpc, disk, token, raced, qpond, qat, dpond, dat>>

-----------------------------------------------------------------------------
(* Control plane: CreatePondAssignment and ForgetPond. *)

\* Registry::create_pond: a random active node gets the row.  With no active
\* node the create is refused and nothing changes.
CreatePond(p) ==
  /\ cpc[p] = "new"
  /\ \E n \in Nodes :
       /\ nstate[n] \in {"active", "stale"}
       /\ owner' = [owner EXCEPT ![p] = n]
  /\ rows' = rows \cup {p}
  /\ cpc' = [cpc EXCEPT ![p] = "placed"]
  /\ UNCHANGED <<nodeVars, mpc, localVars, queryVars, dropVars>>

\* Registry::get_pond_location, then the MaterializePond call to the owner: a
\* row that vanished, or a node that cannot be dialled, goes to compensation.
CallMaterialize(p) ==
  /\ cpc[p] = "placed"
  /\ IF p \in rows /\ owner[p] \in up
     THEN /\ cpc' = [cpc EXCEPT ![p] = "calling"]
          /\ mpc' = [mpc EXCEPT ![p] = "resolve"]
     ELSE /\ cpc' = [cpc EXCEPT ![p] = "compensate"]
          /\ UNCHANGED mpc
  /\ UNCHANGED <<registryVars, nodeVars, localVars, queryVars, dropVars>>

\* The node's answer to MaterializePond arrives.
MaterializeAnswered(p) ==
  /\ cpc[p] = "calling"
  /\ mpc[p] \in {"done", "error"}
  /\ cpc' = [cpc EXCEPT ![p] = IF mpc[p] = "done" THEN "ok" ELSE "compensate"]
  /\ UNCHANGED <<registryVars, nodeVars, mpc, localVars, queryVars, dropVars>>

\* Mutant: a call that timed out is taken for a success.
MaterializeTimesOutOk(p) ==
  /\ cpc[p] = "calling"
  /\ cpc' = [cpc EXCEPT ![p] = "ok"]
  /\ UNCHANGED <<registryVars, nodeVars, mpc, localVars, queryVars, dropVars>>

\* Mutant: the call has no timeout.
MaterializeTimesOutNever(p) == FALSE /\ UNCHANGED vars

\* MATERIALIZE_TIMEOUT passes, or the answer is lost: the call fails here while
\* the node's handler may still run to its end.
MaterializeTimesOut(p) ==
  /\ cpc[p] = "calling"
  /\ cpc' = [cpc EXCEPT ![p] = "compensate"]
  /\ UNCHANGED <<registryVars, nodeVars, mpc, localVars, queryVars, dropVars>>

\* Mutant: the failure is reported, but the placement is not given back.
CompensateKeepsRow(p) ==
  /\ cpc[p] = "compensate"
  /\ cpc' = [cpc EXCEPT ![p] = "failed"]
  /\ UNCHANGED <<registryVars, nodeVars, mpc, localVars, queryVars, dropVars>>

\* ControlService::compensate: Registry::drop_pond gives the row back.  It fails
\* when the row is already gone, or when the registry itself fails.
Compensate(p) ==
  /\ cpc[p] = "compensate"
  /\ \/ /\ p \in rows
        /\ rows' = rows \ {p}
        /\ cpc' = [cpc EXCEPT ![p] = "failed"]
     \/ /\ cpc' = [cpc EXCEPT ![p] = "orphan"]
        /\ UNCHANGED rows
  /\ UNCHANGED <<owner, nodeVars, mpc, localVars, queryVars, dropVars>>

\* The creating client disconnects: the handler's future is dropped at one of its
\* awaits, dialling the owner or the MaterializePond call.
CreateHangup(p) ==
  /\ p \in Hangups
  /\ cpc[p] \in {"placed", "calling"}
  /\ cpc' = [cpc EXCEPT ![p] = "abandoned"]
  /\ UNCHANGED <<registryVars, nodeVars, mpc, localVars, queryVars, dropVars>>

\* Registry::forget_pond: refused while the owner's row is active.
ForgetPond(p) ==
  /\ p \in rows
  /\ nstate[owner[p]] \notin {"active", "stale"}
  /\ rows' = rows \ {p}
  /\ UNCHANGED <<owner, nodeVars, createVars, localVars, queryVars, dropVars>>

-----------------------------------------------------------------------------
(* Owning node: materialize_pond. *)

\* pond_info, then route: the control plane dialled the owner, so the call is
\* served locally.  A row that is gone is PondNotFound.
MaterializeResolve(p) ==
  /\ mpc[p] = "resolve"
  /\ mpc' = [mpc EXCEPT ![p] = IF p \in rows THEN "ensure" ELSE "error"]
  /\ UNCHANGED <<registryVars, nodeVars, cpc, localVars, queryVars, dropVars>>

\* PondStorage::ensure_pond: makes the directory unless it exists.
MaterializeEnsure(p) ==
  /\ mpc[p] = "ensure"
  /\ \/ /\ disk' = [disk EXCEPT ![owner[p]] = @ \cup {p}]
        /\ mpc' = [mpc EXCEPT ![p] = "init"]
     \/ /\ mpc' = [mpc EXCEPT ![p] = "error"]
        /\ UNCHANGED disk
  /\ UNCHANGED <<registryVars, nodeVars, cpc, open, dropping, inflight, token,
                 raced, queryVars, dropVars>>

\* DuckEngine::pond: a cached instance is reused, otherwise one is opened on the
\* pond's directory, which fails when the directory is gone.
EngineCanServe(p, n) == p \in open[n] \/ p \in disk[n]

MaterializeInit(p) ==
  /\ mpc[p] = "init"
  /\ \/ /\ EngineCanServe(p, owner[p])
        /\ open' = [open EXCEPT ![owner[p]] = @ \cup {p}]
        /\ mpc' = [mpc EXCEPT ![p] = "done"]
     \/ /\ mpc' = [mpc EXCEPT ![p] = "error"]
        /\ UNCHANGED open
  /\ UNCHANGED <<registryVars, nodeVars, cpc, disk, dropping, inflight, token,
                 raced, queryVars, dropVars>>

-----------------------------------------------------------------------------
(* Owning node: run_query / run_query_local and read_arrow_local. *)

\* A request lands on some running node, behind a gateway any of them.
QueryArrives(q) ==
  /\ qpc[q] = "idle"
  /\ qat[q] \in up
  /\ cpc[qpond[q]] # "new"
  /\ qpc' = [qpc EXCEPT ![q] = "resolve"]
  /\ UNCHANGED <<registryVars, nodeVars, createVars, localVars, qpond, qat, dropVars>>

\* Mutant: every node serves whatever lands on it.
IsLocalAlways(p, n) == TRUE

\* placement: ownership is the comparison of the row's node_id with this node's.
IsLocal(p, n) == owner[p] = n

\* pond_info, then route: refused without a row; served here by the owner; else
\* forwarded to the owner, whose handler starts over.
QueryRoute(q) ==
  LET p == qpond[q] IN
  /\ qpc[q] = "resolve"
  /\ \/ /\ p \notin rows
        /\ qpc' = [qpc EXCEPT ![q] = "refused"]
        /\ UNCHANGED qat
     \/ /\ p \in rows
        /\ IsLocal(p, qat[q])
        /\ qpc' = [qpc EXCEPT ![q] = "ensure"]
        /\ UNCHANGED qat
     \/ /\ p \in rows
        /\ ~IsLocal(p, qat[q])
        /\ IF owner[p] \in up
           THEN qat' = [qat EXCEPT ![q] = owner[p]] /\ UNCHANGED qpc
           ELSE qpc' = [qpc EXCEPT ![q] = "refused"] /\ UNCHANGED qat
  /\ UNCHANGED <<registryVars, nodeVars, createVars, localVars, qpond, dropVars>>

\* storage.ensure_pond on the query path.
QueryEnsure(q) ==
  /\ qpc[q] = "ensure"
  /\ \/ /\ disk' = [disk EXCEPT ![qat[q]] = @ \cup {qpond[q]}]
        /\ qpc' = [qpc EXCEPT ![q] = "check"]
     \/ /\ qpc' = [qpc EXCEPT ![q] = "refused"]
        /\ UNCHANGED disk
  /\ UNCHANGED <<registryVars, nodeVars, createVars, open, dropping, inflight,
                 token, raced, qpond, qat, dropVars>>

\* Mutant: register does not look at the tombstone.
RegisterCheckBlind(q) ==
  /\ qpc[q] = "check"
  /\ qpc' = [qpc EXCEPT ![q] = "insert"]
  /\ UNCHANGED <<registryVars, nodeVars, createVars, localVars, qpond, qat, dropVars>>

\* InFlightRegistry::register, first lock: a tombstoned pond gives a token that
\* is already cancelled.
RegisterCheck(q) ==
  /\ qpc[q] = "check"
  /\ token' = IF qpond[q] \in dropping[qat[q]] THEN token \cup {q} ELSE token
  /\ qpc' = [qpc EXCEPT ![q] = "insert"]
  /\ UNCHANGED <<registryVars, nodeVars, createVars, disk, open, dropping,
                 inflight, raced, qpond, qat, dropVars>>

\* InFlightRegistry::register, second lock: the entry is inserted; the deadline
\* is armed and the engine call spawned.
RegisterInsert(q) ==
  /\ qpc[q] = "insert"
  /\ inflight' = inflight \cup {q}
  /\ qpc' = [qpc EXCEPT ![q] = "engine"]
  /\ UNCHANGED <<registryVars, nodeVars, createVars, disk, open, dropping,
                 token, raced, qpond, qat, dropVars>>

\* The engine call gets the pond's instance.  Nothing looks at the token before
\* the statement runs.  An instance that cannot be opened fails the query, which
\* then completes.
QueryOpen(q) ==
  /\ qpc[q] = "engine"
  /\ \/ /\ EngineCanServe(qpond[q], qat[q])
        /\ open' = [open EXCEPT ![qat[q]] = @ \cup {qpond[q]}]
        /\ qpc' = [qpc EXCEPT ![q] = "exec"]
        /\ UNCHANGED inflight
     \/ /\ qpc' = [qpc EXCEPT ![q] = "done"]
        /\ inflight' = inflight \ {q}
        /\ UNCHANGED open
  /\ UNCHANGED <<registryVars, nodeVars, createVars, disk, dropping, token,
                 raced, qpond, qat, dropVars>>

\* The deadline expires, or the caller cancels.
Abort(q) ==
  /\ qpc[q] \in {"engine", "exec"}
  /\ q \notin token
  /\ token' = token \cup {q}
  /\ UNCHANGED <<registryVars, nodeVars, createVars, disk, open, dropping,
                 inflight, raced, queryVars, dropVars>>

\* The statement ends, in any way; the handler resumes and completes the entry.
QueryComplete(q) ==
  /\ qpc[q] = "exec"
  /\ qpc' = [qpc EXCEPT ![q] = "done"]
  /\ inflight' = inflight \ {q}
  /\ UNCHANGED <<registryVars, nodeVars, createVars, disk, open, dropping,
                 token, raced, qpond, qat, dropVars>>

\* The client disconnects.  While the handler awaits the control plane (or a
\* forwarded call) it just ends.  While run_query_local awaits the engine, the
\* dropped Deadline cancels the token, the spawned engine call runs on, detached,
\* and the handler's call to complete is never reached.
QueryHangup(q) ==
  /\ q \in Hangups
  /\ \/ /\ qpc[q] = "resolve"
        /\ qpc' = [qpc EXCEPT ![q] = "lost"]
        /\ UNCHANGED token
     \/ /\ qpc[q] \in {"engine", "exec"}
        /\ qpc' = [qpc EXCEPT ![q] = IF @ = "engine" THEN "queued" ELSE "detached"]
        /\ token' = token \cup {q}
  /\ UNCHANGED <<registryVars, nodeVars, createVars, disk, open, dropping,
                 inflight, raced, qpond, qat, dropVars>>

\* The detached engine call reaches the engine, or fails to open the instance.
DetachedOpen(q) ==
  /\ qpc[q] = "queued"
  /\ \/ /\ EngineCanServe(qpond[q], qat[q])
        /\ open' = [open EXCEPT ![qat[q]] = @ \cup {qpond[q]}]
        /\ qpc' = [qpc EXCEPT ![q] = "detached"]
     \/ /\ qpc' = [qpc EXCEPT ![q] = "done"]
        /\ UNCHANGED open
  /\ UNCHANGED <<registryVars, nodeVars, createVars, disk, dropping, inflight,
                 token, raced, qpond, qat, dropVars>>

DetachedEnds(q) ==
  /\ qpc[q] = "detached"
  /\ qpc' = [qpc EXCEPT ![q] = "done"]
  /\ UNCHANGED <<registryVars, nodeVars, createVars, localVars, qpond, qat, dropVars>>

-----------------------------------------------------------------------------
(* Owning node: drop_pond, with confirm = true. *)

DropArrives(d) ==
  /\ dpc[d] = "idle"
  /\ dat[d] \in up
  /\ cpc[dpond[d]] # "new"
  /\ dpc' = [dpc EXCEPT ![d] = "resolve"]
  /\ UNCHANGED <<registryVars, nodeVars, createVars, localVars, queryVars, dpond, dat>>

DropRoute(d) ==
  LET p == dpond[d] IN
  /\ dpc[d] = "resolve"
  /\ \/ /\ p \notin rows
        /\ dpc' = [dpc EXCEPT ![d] = "refused"]
        /\ UNCHANGED dat
     \/ /\ p \in rows
        /\ IsLocal(p, dat[d])
        /\ dpc' = [dpc EXCEPT ![d] = "mark"]
        /\ UNCHANGED dat
     \/ /\ p \in rows
        /\ ~IsLocal(p, dat[d])
        /\ IF owner[p] \in up
           THEN dat' = [dat EXCEPT ![d] = owner[p]] /\ UNCHANGED dpc
           ELSE dpc' = [dpc EXCEPT ![d] = "refused"] /\ UNCHANGED dat
  /\ UNCHANGED <<registryVars, nodeVars, createVars, localVars, queryVars, dpond>>

SameTarget(q, d) == qpond[q] = dpond[d] /\ qat[q] = dat[d]

\* InFlightRegistry::begin_drop, first lock: the tombstone.
BeginDropMark(d) ==
  /\ dpc[d] = "mark"
  /\ dropping' = [dropping EXCEPT ![dat[d]] = @ \cup {dpond[d]}]
  /\ raced' = raced \cup {q \in Queries : SameTarget(q, d) /\ qpc[q] = "insert"}
  /\ dpc' = [dpc EXCEPT ![d] = "cancel"]
  /\ UNCHANGED <<registryVars, nodeVars, createVars, disk, open, inflight,
                 token, queryVars, dpond, dat>>

\* InFlightRegistry::begin_drop, second lock: cancel_for_pond.
BeginDropCancel(d) ==
  /\ dpc[d] = "cancel"
  /\ token' = token \cup {q \in inflight : SameTarget(q, d)}
  /\ dpc' = [dpc EXCEPT ![d] = "registry"]
  /\ UNCHANGED <<registryVars, nodeVars, createVars, disk, open, dropping,
                 inflight, raced, queryVars, dpond, dat>>

\* Mutant: the error of the registry call is ignored.
DropRegistryIgnoresError(d) ==
  /\ dpc[d] = "registry"
  /\ rows' \in {rows, rows \ {dpond[d]}}
  /\ dpc' = [dpc EXCEPT ![d] = "forget"]
  /\ UNCHANGED <<owner, nodeVars, createVars, localVars, queryVars, dpond, dat>>

\* control.drop_pond: deletes the row.  It fails when the row is already gone,
\* when the control plane is unreachable, or when only its answer is lost.
DropRegistry(d) ==
  /\ dpc[d] = "registry"
  /\ \/ /\ dpond[d] \in rows
        /\ rows' = rows \ {dpond[d]}
        /\ dpc' = [dpc EXCEPT ![d] = "forget"]
     \/ /\ rows' \in {rows, rows \ {dpond[d]}}
        /\ dpc' = [dpc EXCEPT ![d] = "abort"]
  /\ UNCHANGED <<owner, nodeVars, createVars, localVars, queryVars, dpond, dat>>

\* Mutant: the failed drop returns without end_drop.
DropAbortKeepsMark(d) ==
  /\ dpc[d] = "abort"
  /\ dpc' = [dpc EXCEPT ![d] = "failed"]
  /\ UNCHANGED <<registryVars, nodeVars, createVars, localVars, queryVars, dpond, dat>>

\* The registry drop failed: end_drop, and the error is returned.
DropAbort(d) ==
  /\ dpc[d] = "abort"
  /\ dropping' = [dropping EXCEPT ![dat[d]] = @ \ {dpond[d]}]
  /\ dpc' = [dpc EXCEPT ![d] = "failed"]
  /\ UNCHANGED <<registryVars, nodeVars, createVars, disk, open, inflight,
                 token, raced, queryVars, dpond, dat>>

\* engine.forget_pond, for a pond whose directory exists.
DropForget(d) ==
  /\ dpc[d] = "forget"
  /\ open' = IF dpond[d] \in disk[dat[d]]
             THEN [open EXCEPT ![dat[d]] = @ \ {dpond[d]}] ELSE open
  /\ dpc' = [dpc EXCEPT ![d] = "delete"]
  /\ UNCHANGED <<registryVars, nodeVars, createVars, disk, dropping, inflight,
                 token, raced, queryVars, dpond, dat>>

\* storage.drop_pond, whose result is ignored.
DropDelete(d) ==
  /\ dpc[d] = "delete"
  /\ disk' \in {disk, [disk EXCEPT ![dat[d]] = @ \ {dpond[d]}]}
  /\ dpc' = [dpc EXCEPT ![d] = "end"]
  /\ UNCHANGED <<registryVars, nodeVars, createVars, open, dropping, inflight,
                 token, raced, queryVars, dpond, dat>>

EndDrop(d) ==
  /\ dpc[d] = "end"
  /\ dropping' = [dropping EXCEPT ![dat[d]] = @ \ {dpond[d]}]
  /\ dpc' = [dpc EXCEPT ![d] = "done"]
  /\ UNCHANGED <<registryVars, nodeVars, createVars, disk, open, inflight,
                 token, raced, queryVars, dpond, dat>>

\* The dropping client disconnects and the handler's future is dropped at one of
\* its awaits: the lookup of the pond, the registry call (whose request may
\* already have been served) or an evict_lineage_writer, before or after the
\* delete.  Past begin_drop nobody is left to clear the tombstone.
DropHangup(d) ==
  /\ d \in Hangups
  /\ dpc[d] \in {"resolve", "registry", "delete", "end"}
  /\ dpc' = [dpc EXCEPT ![d] = IF @ = "resolve" THEN "lost" ELSE "gone"]
  /\ IF dpc[d] = "registry" THEN rows' \in {rows, rows \ {dpond[d]}} ELSE UNCHANGED rows
  /\ UNCHANGED <<owner, nodeVars, createVars, localVars, queryVars, dpond, dat>>

-----------------------------------------------------------------------------
NodeStep(n) == RegisterNode(n) \/ Heartbeat(n) \/ HeartbeatLapses(n) \/ Crash(n)

CreateStep(p) == \/ CreatePond(p) \/ CallMaterialize(p) \/ MaterializeAnswered(p)
                 \/ MaterializeTimesOut(p) \/ Compensate(p) \/ CreateHangup(p)

MaterializeStep(p) == MaterializeResolve(p) \/ MaterializeEnsure(p) \/ MaterializeInit(p)

QueryServe(q) == \/ QueryRoute(q) \/ QueryEnsure(q) \/ RegisterCheck(q)
                 \/ RegisterInsert(q) \/ QueryOpen(q) \/ QueryComplete(q)
                 \/ DetachedOpen(q) \/ DetachedEnds(q)

QueryStep(q) == QueryArrives(q) \/ QueryServe(q) \/ Abort(q) \/ QueryHangup(q)

DropServe(d) == \/ DropRoute(d) \/ BeginDropMark(d) \/ BeginDropCancel(d)
                \/ DropRegistry(d) \/ DropAbort(d) \/ DropForget(d)
                \/ DropDelete(d) \/ EndDrop(d)

DropStep(d) == DropArrives(d) \/ DropServe(d) \/ DropHangup(d)

Next ==
  \/ \E n \in Nodes : NodeStep(n)
  \/ ReapStaleNodes
  \/ \E p \in Ponds : CreateStep(p) \/ MaterializeStep(p) \/ ForgetPond(p)
  \/ \E q \in Queries : QueryStep(q)
  \/ \E d \in Drops : DropStep(d)

Spec == Init /\ [][Next]_vars

\* Every handler that has started is scheduled until it ends; a call of the
\* control plane to a node ends by its timeout at the latest.  Nothing is assumed
\* of clients, of crashes, or of the node's side of an abandoned call.
Fairness ==
  /\ \A p \in Ponds : WF_vars(CallMaterialize(p) \/ MaterializeAnswered(p)
                               \/ MaterializeTimesOut(p) \/ Compensate(p))
  /\ \A q \in Queries : WF_vars(QueryServe(q))
  /\ \A d \in Drops : WF_vars(DropServe(d))

FairSpec == Spec /\ Fairness

-----------------------------------------------------------------------------
(* Properties. *)

\* What there is of a pond, and what its creator was told, in PondPromise's terms.
PondState(p) ==
  CASE cpc[p] = "new" -> "absent"
    [] cpc[p] # "new" /\ p \notin rows -> "removed"
    [] p \in rows /\ p \in disk[owner[p]] -> "ready"
    [] OTHER -> "placed"

Told(p) ==
  CASE cpc[p] = "ok" -> "created"
    [] cpc[p] = "failed" -> "failed"
    [] cpc[p] = "orphan" -> "orphaned"
    [] OTHER -> "nothing"

Promise == INSTANCE PondPromise WITH
  state <- [p \in Ponds |-> PondState(p)],
  told  <- [p \in Ponds |-> Told(p)]

\* create_pond_assignment, materialize_pond, the query path's lazy ensure_pond,
\* drop_pond and forget_pond together keep the control plane's promise about
\* every pond: it is placed, provisioned, removed, in that order, and its create
\* is answered truthfully and once.
KeepsPromise == Promise!Spec

\* "A create that returns success means a pond that can accept data"
\* (control_service.rs:31-33): a pond whose create succeeded and that is still
\* registered has its storage on the node it was placed on, through any
\* interleaving with late handlers, drops, crashes and restarts.
EagerAllocation ==
  \A p \in Ponds : cpc[p] = "ok" /\ p \in rows => p \in disk[owner[p]]

\* placement decides ownership by node id, so no node ever makes a directory or
\* opens an instance for a pond that was placed elsewhere - not even a gateway's
\* greeter node, nor a handler that is late.
NoStrayPond ==
  \A p \in Ponds, n \in Nodes : p \in disk[n] \cup open[n] => owner[p] = n

\* drop_pond deletes a pond's files only once its registry row is gone: a drop
\* whose registry call fails leaves the data of a pond that still exists alone.
DeletesOnlyUnregistered ==
  [][\A p \in Ponds, n \in Nodes :
       p \in disk[n] /\ p \notin disk'[n] => p \notin rows]_vars

\* The drops of d's pond other than d have not reached begin_drop.
SoleDrop(d) ==
  \A e \in Drops \ {d} :
    dpond[e] = dpond[d] => dpc[e] \in {"idle", "resolve", "refused", "mark"}

\* While the only drop of a pond deletes it, a statement that is on the engine of
\* that node for that pond is cancelled - unless it was between the two locks of
\* InFlightRegistry::register when begin_drop set the tombstone.
OnlyRegisterWindowEscapes ==
  \A d \in Drops, q \in Queries :
    /\ dpc[d] \in Tombstoned
    /\ SoleDrop(d)
    /\ SameTarget(q, d)
    /\ qpc[q] \in OnEngine
    => q \in token \/ q \in raced

\* Every create is answered, or abandoned by its own client.
CreateSettles ==
  \A p \in Ponds : cpc[p] \in {"placed", "calling", "compensate"}
                     ~> cpc[p] \in {"ok", "failed", "orphan", "abandoned"}

\* A drop of the pond on this node was dropped between begin_drop and end_drop.
LeftBehind(p, n) == \E d \in Drops : dpc[d] = "gone" /\ dpond[d] = p /\ dat[d] = n

\* No pond stays tombstoned on a node: a drop whose registry call fails, or whose node
\* dies, clears its mark like one that succeeds.  Only a drop whose own client hung up
\* while the handler awaited (ops.rs:811, 834, 841) may leave its mark for ever.
TombstoneCleared ==
  \A n \in Nodes, p \in Ponds : p \in dropping[n] ~> p \notin dropping[n] \/ LeftBehind(p, n)
=============================================================================
