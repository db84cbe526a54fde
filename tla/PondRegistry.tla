---------------------------- MODULE PondRegistry ----------------------------
(***************************************************************************)
(* The control plane's registry as a store: its schema migrations, its     *)
(* tables of nodes, ponds, datasets, catalogs and policy, the Admin and    *)
(* Control handlers over them, and the in-process control plane.           *)
(*                                                                         *)
(* One mutex guards the connection, so what a method does under it is one  *)
(* action; a handler that calls two methods is two.  A write goes to the   *)
(* write-ahead log and, with a CHECKPOINT, into the database file: `db` is *)
(* what the connection sees, `disk` what the file alone holds.  A crash    *)
(* keeps `db` when the log survives and falls back to `disk` when it does  *)
(* not.  A fault is a statement the engine refuses; what the caller hears  *)
(* of it depends on the statement, since several methods answer "not       *)
(* found" for every error of their first one.                              *)
(*                                                                         *)
(* A dataset's rows are abstracted to the version of it that wrote them.   *)
(***************************************************************************)
EXTENDS Naturals, Sequences, FiniteSets

CONSTANTS Requests,   \* handlers that run at a time, each one call after another
          Calls,      \* the calls that may be made, a subset of AllCalls
          Nodes,
          Undialled,  \* nodes registered without an internal endpoint
          Ids,        \* pond ids, minted in create_pond
          Names,      \* names a caller may ask for; ids are legal names
          Datasets, Catalogs,
          Contents,   \* what a version of an entry may hold
          Seed,       \* the content of the seeded datasets
          Clash,      \* a content that names one table twice
          None,
          Verifier,   \* is the Admin surface configured with an issuer?
          MaxCalls, MaxFaults, MaxCrashes

TypedTiers == {"", "medium", "LARGE", "uncapped", "gigantic"}

Entries == Datasets \cup Catalogs
ListOps == {"dataset_list", "list_datasets", "catalog_list", "list_catalogs"}
PondListOps == {"pond_list", "list_ponds", "local_list_ponds"}
AdminOps == {"list_nodes", "describe_node", "policy_get", "policy_set", "pond_list",
             "pond_set_tier", "pond_forget", "dataset_add", "dataset_remove",
             "dataset_list", "catalog_add", "catalog_remove", "catalog_list"}

\* A call: the operation, what it names, what it asks for, and the bearer token
\* it carries.  The Control surface and the in-process one look at no token.
AllCalls ==
  LET Call(ops, refs, args) == [op: ops, ref: refs, arg: args, bearer: {"none", "bad", "good"}]
  IN  Call({"list_nodes", "policy_get", "policy_set"} \cup PondListOps, {None}, {None})
      \cup Call({"describe_node"}, Nodes, {None})
      \cup Call({"create_pond_assignment", "local_create_pond"}, Names \cup {None, ""}, TypedTiers)
      \cup Call({"pond_set_tier"}, Ids \cup Names \cup {""}, TypedTiers)
      \cup Call({"pond_forget"}, Ids \cup Names \cup {""}, {"confirm", None})
      \cup Call({"drop_pond_assignment", "get_pond_location", "get_pond_info"}, Ids \cup Names, {None})
      \cup Call({"dataset_add", "dataset_remove", "get_dataset"}, Datasets, Contents \cup {None})
      \cup Call({"catalog_add", "catalog_remove", "get_catalog"}, Catalogs, Contents \cup {None})
      \cup Call(ListOps, {None}, {"all", "#tag"})

ASSUME RegistryAssumption ==
  /\ Calls \subseteq AllCalls
  /\ Seed \in Contents /\ Clash \in Contents /\ Seed # Clash
  /\ None \notin Ids \cup Names \cup Entries \cup Contents
  /\ None \notin [name : Ids \cup Names, node : Nodes, tier : {"medium", "large", "none"}]
  /\ None \notin [content : Contents, by : {"latiq", "subject", "claimed"}]
  /\ Datasets \cap Catalogs = {} /\ "schema" \notin Entries
  /\ Verifier \in BOOLEAN
  /\ MaxCalls \in Nat /\ MaxFaults \in Nat /\ MaxCrashes \in Nat

VARIABLES
  up,        \* "closed", "opening", "serving", or "refused": a migration was there already
  next,      \* run_migrations: the migration about to run
  step,      \* run_migrations: the statement of it about to run
  db,        \* what the connection sees
  disk,      \* what registry.duckdb holds without its log
  pc, call,  \* handlers: where, and on what
  todo,      \* handlers: the ids or names listed and not looked up yet
  listed,    \* handlers: everything the first read listed
  got,       \* handlers: what the lookups answered
  missed,    \* handlers: the listed ponds whose lookup the engine refused
  last,      \* the answer sent last
  calls, faults, crashes,
  unflushed, \* history: a CHECKPOINT was refused
  torn,      \* history: entries whose removal stopped half way, until they are in the
             \* file whole again; "schema" too
  raced,     \* history: listings one of whose entries was removed under them
  ambiguous, \* history: some pond has been named like another one's id
  minted     \* history: the ids PondId::new has returned, each once

storeVars == <<up, next, step, db, disk>>
requestVars == <<pc, call, todo, listed, got, missed, last, calls>>
historyVars == <<unflushed, torn, raced, ambiguous, minted>>
vars == <<storeVars, requestVars, faults, crashes, historyVars>>

-----------------------------------------------------------------------------
(* The schema. *)

\* MIGRATIONS: how many statements each one has.
Migrations == <<5, 1, 1, 8, 1, 1, 1>>

\* Running a statement of the migration again is harmless (DROP TABLE IF EXISTS).
Repeatable(version) == version = 5

Fresh == [version |-> 0, applied |-> 0,
          node |-> [n \in Nodes |-> None], pond |-> [p \in Ids |-> None],
          entry |-> [e \in Entries |-> None], tables |-> [d \in Datasets |-> None],
          tags |-> [e \in Entries |-> None], policy |-> None]

Init ==
  /\ up = "closed" /\ next = 1 /\ step = 1
  /\ db = Fresh /\ disk = Fresh
  /\ pc = [r \in Requests |-> "idle"]
  /\ call = [r \in Requests |-> None]
  /\ todo = [r \in Requests |-> {}] /\ listed = [r \in Requests |-> {}]
  /\ got = [r \in Requests |-> {}] /\ missed = [r \in Requests |-> {}]
  /\ last = None
  /\ calls = 0 /\ faults = 0 /\ crashes = 0
  /\ unflushed = FALSE /\ ambiguous = FALSE
  /\ torn = {} /\ raced = {} /\ minted = {}

\* Registry::open: the version table is created if it is missing, and read; a
\* version that cannot be read counts as 0.  Without the table the process ends.
Open ==
  /\ up \in {"closed", "refused"}
  /\ step' = 1
  /\ \/ /\ up' = "opening" /\ next' = db.version + 1
        /\ UNCHANGED faults
     \/ /\ faults < MaxFaults
        /\ faults' = faults + 1
        /\ \/ up' = "opening" /\ next' = 1
           \/ up' = "closed" /\ UNCHANGED next
  /\ UNCHANGED <<db, disk, requestVars, crashes, historyVars>>

\* What the seeding statements of the first and the fourth migration add.
Seeded(d) ==
  CASE d.version = 0 /\ d.applied = 5 -> [d EXCEPT !.policy = "seed"]
    [] d.version = 3 /\ d.applied = 6 ->
         [d EXCEPT !.entry = [e \in Entries |-> IF e \in Datasets
                                THEN [content |-> Seed, by |-> "latiq"] ELSE @[e]]]
    [] d.version = 3 /\ d.applied = 7 -> [d EXCEPT !.tables = [e \in Datasets |-> Seed]]
    [] d.version = 3 /\ d.applied = 8 ->
         [d EXCEPT !.tags = [e \in Entries |-> IF e \in Datasets THEN Seed ELSE @[e]]]
    [] OTHER -> d

\* The statement has taken effect in an earlier run.
Applied(v, k) == v <= db.version \/ (v = db.version + 1 /\ k <= db.applied)

\* What a process that ends in the middle of a migration leaves to the next one.
TornSchema == IF db.applied > 0 THEN torn \cup {"schema"} ELSE torn

\* The next statement of run_migrations: one of the DDL, which fails when an
\* earlier run got past it, or the row that records the version.  Any of them may
\* be refused by the engine, and open with it: the process ends.
Migrate ==
  /\ up = "opening" /\ next <= Len(Migrations)
  /\ \/ /\ step <= Migrations[next]
        /\ ~Applied(next, step) \/ Repeatable(next)
        /\ db' = Seeded([db EXCEPT !.applied = step])
        /\ step' = step + 1
        /\ UNCHANGED <<up, next, torn, faults>>
     \/ /\ step <= Migrations[next]
        /\ Applied(next, step) /\ ~Repeatable(next)
        /\ up' = "refused"
        /\ UNCHANGED <<next, db, step, torn, faults>>
     \/ /\ step > Migrations[next]
        /\ db' = [db EXCEPT !.version = next, !.applied = 0]
        /\ next' = next + 1
        /\ step' = 1
        /\ UNCHANGED <<up, torn, faults>>
     \/ /\ faults < MaxFaults
        /\ faults' = faults + 1
        /\ up' = "closed"
        /\ torn' = TornSchema
        /\ UNCHANGED <<next, db, step>>
  /\ UNCHANGED <<disk, requestVars, crashes, unflushed, raced, ambiguous, minted>>

\* Mutant: the last migration is never run.
ServeShort ==
  /\ up = "opening" /\ next >= Len(Migrations)
  /\ up' = "serving"
  /\ UNCHANGED <<next, step, db, disk, requestVars, faults, crashes, historyVars>>

\* Registry::open returns when the loop over MIGRATIONS is over, and the surfaces
\* are served.
Serve ==
  /\ up = "opening" /\ next > Len(Migrations)
  /\ up' = "serving"
  /\ UNCHANGED <<next, step, db, disk, requestVars, faults, crashes, historyVars>>

\* The process is killed; its log survives or it does not.
Crash ==
  /\ up \in {"opening", "serving"} /\ crashes < MaxCrashes
  /\ crashes' = crashes + 1
  /\ up' = "closed"
  /\ pc' = [r \in Requests |-> "idle"]
  /\ \/ /\ UNCHANGED db
        /\ torn' = TornSchema
     \/ /\ db' = disk
        /\ UNCHANGED torn
  /\ call' = [r \in Requests |-> None]
  /\ todo' = [r \in Requests |-> {}] /\ listed' = [r \in Requests |-> {}]
  /\ got' = [r \in Requests |-> {}] /\ missed' = [r \in Requests |-> {}]
  /\ last' = None
  /\ UNCHANGED <<next, step, disk, calls, faults, unflushed, raced, ambiguous, minted>>

-----------------------------------------------------------------------------
(* What every handler does. *)

\* A call reaches its surface.  Nobody can name an id that was never returned.
Arrive(r) ==
  /\ up = "serving" /\ pc[r] = "idle" /\ calls < MaxCalls
  /\ calls' = calls + 1
  /\ \E c \in Calls :
       /\ c.ref \in Ids => c.ref \in minted
       /\ call' = [call EXCEPT ![r] = c]
       /\ pc' = [pc EXCEPT ![r] = IF c.op \in AdminOps THEN "identity" ELSE "body"]
  /\ last' = None
  /\ raced' = raced \ {r}
  /\ UNCHANGED <<storeVars, todo, listed, got, missed, faults, crashes, unflushed, torn, ambiguous, minted>>

\* The handler answers, and is free for another call.
Answer(r, answer, rows) ==
  /\ last' = [op |-> call[r].op, answer |-> answer, rows |-> rows]
  /\ pc' = [pc EXCEPT ![r] = "idle"]
  /\ call' = [call EXCEPT ![r] = None]
  /\ todo' = [todo EXCEPT ![r] = {}]
  /\ listed' = [listed EXCEPT ![r] = {}]
  /\ got' = [got EXCEPT ![r] = {}]
  /\ missed' = [missed EXCEPT ![r] = {}]
  /\ UNCHANGED calls

Finish(r, answer) == Answer(r, answer, {})

\* identity_of: with a verifier, a missing or a bad token is refused.
IdentityOf(r) ==
  /\ pc[r] = "identity"
  /\ \/ /\ Verifier /\ call[r].bearer # "good"
        /\ Finish(r, "unauthenticated")
     \/ /\ ~Verifier \/ call[r].bearer = "good"
        /\ pc' = [pc EXCEPT ![r] = "body"]
        /\ UNCHANGED <<call, todo, listed, got, missed, last>>
  /\ UNCHANGED <<storeVars, calls, faults, crashes, historyVars>>

\* created_by: a verified subject, or else what the request claims.
CreatedBy(c) == IF Verifier /\ c.bearer = "good" THEN "subject" ELSE "claimed"

In(r, ops) == pc[r] = "body" /\ call[r].op \in ops

\* The registry goes to `d` and CHECKPOINT copies it to the file; its error is
\* ignored.
Checkpointed(d) ==
  /\ db' = d
  /\ \/ disk' = d /\ UNCHANGED <<faults, unflushed>>
     \/ /\ faults < MaxFaults
        /\ faults' = faults + 1
        /\ unflushed' = TRUE
        /\ UNCHANGED disk

\* PondTier::parse: the canonical tier, or None for a name it does not know.
ParseTier(typed) ==
  CASE typed = "medium"   -> "medium"
    [] typed = "LARGE"    -> "large"
    [] typed = "uncapped" -> "none"
    [] OTHER              -> None

\* PondTier::parse_for_create: saying nothing is asking for the default.
ParseForCreate(typed) == IF typed = "" THEN "medium" ELSE ParseTier(typed)

\* pond_name::validate; the empty name stands for every illegal one.
ValidName(name) == name # ""

\* A call refused for what it asks, before any statement is run.
Invalid(c) ==
  CASE c.op \in {"create_pond_assignment", "local_create_pond"} ->
         \/ ParseForCreate(c.arg) \in {None, "none"}
         \/ c.op = "local_create_pond" /\ c.ref # None /\ ~ValidName(c.ref)
    [] c.op = "pond_set_tier" -> c.ref = "" \/ ParseTier(c.arg) = None
    [] c.op = "pond_forget" -> c.ref = "" \/ c.arg = None
    [] c.op \in {"dataset_add", "catalog_add"} -> c.arg = None
    [] OTHER -> FALSE

\* What is answered when a statement of the call is refused by the engine: a
\* method that takes every error of its first query for a missing row says so.
Refused(op) ==
  CASE op \in {"create_pond_assignment", "local_create_pond"} -> {"no_node", "internal"}
    [] op \in {"get_pond_location", "get_pond_info"} -> {"not_found"}
    [] op \in {"pond_forget", "get_dataset", "get_catalog"} -> {"not_found", "internal"}
    [] OTHER -> {"internal"}

\* A statement of the call is refused by the engine; a transaction is rolled back.
StatementFails(r) ==
  /\ pc[r] = "body" /\ ~Invalid(call[r]) /\ faults < MaxFaults
  /\ faults' = faults + 1
  /\ \E answer \in Refused(call[r].op) : Finish(r, answer)
  /\ UNCHANGED <<storeVars, crashes, historyVars>>

\* A handler that reads the registry, or refuses, in one step.
Reads(r, answer) ==
  /\ Finish(r, answer)
  /\ UNCHANGED <<storeVars, faults, crashes, historyVars>>

\* A handler that writes the registry in one step.
Writes(r, d) ==
  /\ Checkpointed(d)
  /\ Finish(r, "ok")
  /\ UNCHANGED <<up, next, step, crashes, torn, raced, ambiguous, minted>>

-----------------------------------------------------------------------------
(* Nodes and policy. *)

\* register_node: the upsert of a starting node also revives it.
NodeRegistered(n) == [db EXCEPT !.node[n] = "active"]

RegisterNode(n) ==
  /\ up = "serving"
  /\ Checkpointed(NodeRegistered(n))
  /\ UNCHANGED <<up, next, step, requestVars, crashes, torn, raced, ambiguous, minted>>

\* heartbeat: an UPDATE, which leaves a node that is not registered unknown.
NodeBeat(n) == IF db.node[n] = None THEN db ELSE [db EXCEPT !.node[n] = "active"]

\* Nothing is flushed after a beat.
Heartbeat(n) ==
  /\ up = "serving"
  /\ db' = NodeBeat(n)
  /\ UNCHANGED <<up, next, step, disk, requestVars, faults, crashes, historyVars>>

\* reap_stale_nodes: of the active nodes, those whose last beat is too old.
Reaped(stale) == [db EXCEPT !.node = [n \in Nodes |-> IF n \in stale THEN "down" ELSE @[n]]]

\* A sweep of the reaper.
ReapStaleNodes ==
  /\ up = "serving"
  /\ \E stale \in SUBSET {n \in Nodes : db.node[n] = "active"} :
       stale # {} /\ Checkpointed(Reaped(stale))
  /\ UNCHANGED <<up, next, step, requestVars, crashes, torn, raced, ambiguous, minted>>

\* list_nodes.
NodeRows == {n \in Nodes : db.node[n] # None}

ListNodes(r) ==
  /\ In(r, {"list_nodes"})
  /\ Answer(r, "ok", {[name |-> n] : n \in NodeRows})
  /\ UNCHANGED <<storeVars, faults, crashes, historyVars>>

\* describe_node finds its row among all of them.
DescribeNode(r) ==
  /\ In(r, {"describe_node"})
  /\ Reads(r, IF call[r].ref \in NodeRows THEN "ok" ELSE "not_found")

PolicyGet(r) == In(r, {"policy_get"}) /\ Reads(r, "ok")

\* policy_set: an upsert.
PolicyRow == [db EXCEPT !.policy = "set"]

\* Nothing is flushed after it.
PolicySet(r) ==
  /\ In(r, {"policy_set"})
  /\ db' = PolicyRow
  /\ Finish(r, "ok")
  /\ UNCHANGED <<up, next, step, disk, faults, crashes, historyVars>>

-----------------------------------------------------------------------------
(* Ponds. *)

\* WHERE pond_id = ref OR name = ref.
Matches(ref) == {p \in Ids : db.pond[p] # None /\ (p = ref \/ db.pond[p].name = ref)}

\* pond_info reads one of them.
PondInfo(ref) == Matches(ref)

Placed(p) == db.pond[p].node

\* The ponds of d of which one is named like another's id.
Clashing(d) == \E p, q \in Ids : p # q /\ d.pond[p] # None /\ d.pond[q] # None /\ d.pond[q].name = p

\* create_pond's refusals, in their order.
Refusal(c) ==
  LET Taken(name) == \E p \in Ids : db.pond[p] # None /\ db.pond[p].name = name
  IN  IF Invalid(c) THEN "invalid"
      ELSE IF \A n \in Nodes : db.node[n] # "active" THEN "no_node"
      ELSE IF c.ref \notin {None, ""} /\ Taken(c.ref) THEN "conflict"
      ELSE "ok"

\* create_pond: the row of a new pond on an active node, under the name asked for
\* or under its own id.
PondCreated(p, n, c) ==
  [db EXCEPT !.pond[p] = [name |-> IF c.ref \in {None, ""} THEN p ELSE c.ref,
                          node |-> n, tier |-> ParseForCreate(c.arg)]]

\* The first half of a create: the row, or the refusal of create_pond.
CreateRow(r) ==
  \/ Refusal(call[r]) # "ok" /\ Reads(r, Refusal(call[r]))
  \/ /\ Refusal(call[r]) = "ok"
     /\ \E p \in Ids, n \in Nodes :
          /\ p \notin minted /\ db.node[n] = "active"
          /\ minted' = minted \cup {p}
          /\ Checkpointed(PondCreated(p, n, call[r]))
          /\ ambiguous' = (ambiguous \/ Clashing(PondCreated(p, n, call[r])))
          /\ listed' = [listed EXCEPT ![r] = {p}]
     /\ pc' = [pc EXCEPT ![r] = "located"]
     /\ UNCHANGED <<up, next, step, call, calls, todo, got, missed, last, crashes, torn, raced>>

\* The Control surface takes an empty name for none.
CreatePondAssignment(r) == In(r, {"create_pond_assignment"}) /\ CreateRow(r)

LocalCreatePond(r) == In(r, {"local_create_pond"}) /\ CreateRow(r)

\* The second read of a create: where the pond was placed, or its row.  A row that
\* is gone again fails the call, and so does a refused read, under the same name.
\* (Materialising it is PondLifecycle's.)
CreateLocated(r) ==
  /\ pc[r] = "located"
  /\ \/ /\ LET p == CHOOSE i \in listed[r] : TRUE
           IN  Finish(r, IF Matches(p) = {} THEN "not_found" ELSE "ok")
        /\ UNCHANGED faults
     \/ /\ faults < MaxFaults
        /\ faults' = faults + 1
        /\ Finish(r, "not_found")
  /\ UNCHANGED <<storeVars, crashes, historyVars>>

\* get_pond_location: of the matched rows, those whose node is known.
Locations(ref) == {p \in Matches(ref) : db.node[Placed(p)] # None}

GetPondLocation(r) ==
  /\ In(r, {"get_pond_location"})
  /\ Reads(r, IF Locations(call[r].ref) = {} THEN "not_found" ELSE "ok")

GetPondInfo(r) ==
  /\ In(r, {"get_pond_info"})
  /\ Reads(r, IF PondInfo(call[r].ref) = {} THEN "not_found" ELSE "ok")

\* set_pond_tier: UPDATE every row the reference matches.
TierSet(ref, tier) ==
  [db EXCEPT !.pond = [p \in Ids |-> IF p \in Matches(ref) THEN [@[p] EXCEPT !.tier = tier] ELSE @[p]]]

\* Mutant: the new tier is not checkpointed.
SetPondTierUnflushed(r) ==
  /\ In(r, {"pond_set_tier"})
  /\ ~Invalid(call[r]) /\ Matches(call[r].ref) # {}
  /\ db' = TierSet(call[r].ref, ParseTier(call[r].arg))
  /\ Finish(r, "ok")
  /\ UNCHANGED <<up, next, step, disk, faults, crashes, historyVars>>

\* The Admin handler; an unknown tier is set_pond_tier's refusal.
SetPondTier(r) ==
  /\ In(r, {"pond_set_tier"})
  /\ LET ref == call[r].ref
     IN  \/ Invalid(call[r]) /\ Reads(r, "invalid")
         \/ ~Invalid(call[r]) /\ Matches(ref) = {} /\ Reads(r, "not_found")
         \/ ~Invalid(call[r]) /\ Matches(ref) # {} /\ Writes(r, TierSet(ref, ParseTier(call[r].arg)))

\* A node by which the pond can still be dropped properly.
Serving(n) == db.node[n] = "active" /\ n \notin Undialled

\* forget_pond: one of the rows the reference matches, unless a live node owns it.
Forgotten(p) == [db EXCEPT !.pond[p] = None]

\* pond_forget: without a reference or a confirmation it is refused.
PondForget(r) ==
  /\ In(r, {"pond_forget"})
  /\ LET ref == call[r].ref
     IN  \/ Invalid(call[r]) /\ Reads(r, "invalid")
         \/ ~Invalid(call[r]) /\ Matches(ref) = {} /\ Reads(r, "not_found")
         \/ /\ ~Invalid(call[r])
            /\ \E p \in Matches(ref) :
                 \/ Serving(Placed(p)) /\ Reads(r, "still_owned")
                 \/ ~Serving(Placed(p)) /\ Writes(r, Forgotten(p))

\* drop_pond: DELETE every row the reference matches.
Dropped(ref) == [db EXCEPT !.pond = [p \in Ids |-> IF p \in Matches(ref) THEN None ELSE @[p]]]

DropPondAssignment(r) ==
  /\ In(r, {"drop_pond_assignment"})
  /\ \/ Matches(call[r].ref) = {} /\ Reads(r, "not_found")
     \/ Matches(call[r].ref) # {} /\ Writes(r, Dropped(call[r].ref))

\* The first read of a listing: the ids.
ListPondRows(r) ==
  /\ In(r, PondListOps)
  /\ listed' = [listed EXCEPT ![r] = {p \in Ids : db.pond[p] # None}]
  /\ todo' = [todo EXCEPT ![r] = {p \in Ids : db.pond[p] # None}]
  /\ pc' = [pc EXCEPT ![r] = "lookup"]
  /\ UNCHANGED <<storeVars, call, calls, got, missed, last, faults, crashes, historyVars>>

\* Mutant: a pond that went away in between ends the listing.
ListedPondInfoStops(r) ==
  /\ pc[r] = "lookup" /\ call[r].op \in PondListOps
  /\ \E p \in todo[r] :
       /\ todo' = [todo EXCEPT ![r] = IF Matches(p) = {} THEN {} ELSE @ \ {p}]
       /\ got' = [got EXCEPT ![r] = @ \cup {[name |-> q] : q \in Matches(p)}]
  /\ UNCHANGED <<storeVars, pc, call, calls, listed, missed, last, faults, crashes, historyVars>>

\* The lookup of one listed id: a pond dropped in between is skipped, and one whose
\* lookup the engine refuses too, since pond_info answers both alike.
ListedPondInfo(r) ==
  /\ pc[r] = "lookup" /\ call[r].op \in PondListOps
  /\ \E p \in todo[r] :
       /\ todo' = [todo EXCEPT ![r] = @ \ {p}]
       /\ \/ /\ PondInfo(p) = {}
             /\ UNCHANGED <<got, missed, faults>>
          \/ /\ \E q \in PondInfo(p) : got' = [got EXCEPT ![r] = @ \cup {[name |-> q]}]
             /\ UNCHANGED <<missed, faults>>
          \/ /\ faults < MaxFaults
             /\ faults' = faults + 1
             /\ missed' = [missed EXCEPT ![r] = @ \cup {p}]
             /\ UNCHANGED got
  /\ UNCHANGED <<storeVars, pc, call, calls, listed, last, crashes, historyVars>>

\* Every listed name has been looked up.
Listed(r, op) ==
  /\ pc[r] = "lookup" /\ call[r].op = op /\ todo[r] = {}
  /\ Answer(r, "ok", got[r])
  /\ UNCHANGED <<storeVars, faults, crashes, historyVars>>

PondList(r) == Listed(r, "pond_list")

ListPonds(r) == Listed(r, "list_ponds")

LocalListPonds(r) == Listed(r, "local_list_ponds")

-----------------------------------------------------------------------------
(* Datasets and catalogs. *)

\* Mutant: the old tables are not deleted before the new ones are inserted.
DatasetAddedOverOld(e, content, by) ==
  [db EXCEPT !.entry[e] = [content |-> content, by |-> by], !.tags[e] = content]

\* add_dataset: the old rows of every table replaced by the new, in one transaction.
DatasetAdded(e, content, by) ==
  [db EXCEPT !.entry[e] = [content |-> content, by |-> by], !.tables[e] = content, !.tags[e] = content]

\* add_catalog: the row and its tags.
CatalogAdded(e, content, by) ==
  [db EXCEPT !.entry[e] = [content |-> content, by |-> by], !.tags[e] = content]

\* dataset_add: validation, then the rows.  A duplicate table fails the transaction.
AddDataset(r) ==
  /\ In(r, {"dataset_add"})
  /\ \/ Invalid(call[r]) /\ Reads(r, "invalid")
     \/ call[r].arg = Clash /\ Reads(r, "internal")
     \/ /\ ~Invalid(call[r]) /\ call[r].arg # Clash
        /\ Checkpointed(DatasetAdded(call[r].ref, call[r].arg, CreatedBy(call[r])))
        /\ Finish(r, "ok")
        /\ torn' = IF disk' = db' THEN torn \ {call[r].ref} ELSE torn
        /\ UNCHANGED <<up, next, step, crashes, raced, ambiguous, minted>>

\* catalog_add: an unknown type is refused (here, no content).
AddCatalog(r) ==
  /\ In(r, {"catalog_add"})
  /\ \/ Invalid(call[r]) /\ Reads(r, "invalid")
     \/ /\ ~Invalid(call[r])
        /\ Checkpointed(CatalogAdded(call[r].ref, call[r].arg, CreatedBy(call[r])))
        /\ Finish(r, "ok")
        /\ torn' = IF disk' = db' THEN torn \ {call[r].ref} ELSE torn
        /\ UNCHANGED <<up, next, step, crashes, raced, ambiguous, minted>>

\* The registry after the first k of remove_dataset's three statements.
DatasetRemoved(e, k) ==
  [db EXCEPT !.entry[e] = None,
             !.tables[e] = IF k >= 2 THEN None ELSE @,
             !.tags[e] = IF k >= 3 THEN None ELSE @]

\* The registry after the first k of remove_catalog's two statements.
CatalogRemoved(e, k) == [db EXCEPT !.entry[e] = None, !.tags[e] = IF k >= 2 THEN None ELSE @]

Removed(e, k) == IF e \in Datasets THEN DatasetRemoved(e, k) ELSE CatalogRemoved(e, k)

Statements(e) == IF e \in Datasets THEN 3 ELSE 2

\* The listings that have e still to look up.
Racing(e) == {q \in Requests : e \in todo[q]}

\* A removal is not a transaction: each statement takes effect by itself.
RemoveEntry(r, e) ==
  \/ /\ db.entry[e] = None
     /\ Reads(r, "not_found")
  \/ /\ db.entry[e] # None
     /\ raced' = raced \cup Racing(e)
     /\ UNCHANGED <<up, next, step, crashes, ambiguous, minted>>
     /\ \/ /\ Checkpointed(Removed(e, Statements(e)))
           /\ Finish(r, "ok")
           /\ UNCHANGED torn
        \/ /\ faults < MaxFaults
           /\ faults' = faults + 1
           /\ \E k \in 1..(Statements(e) - 1) : db' = Removed(e, k)
           /\ torn' = torn \cup {e}
           /\ Finish(r, "internal")
           /\ UNCHANGED <<disk, unflushed>>

RemoveDataset(r) == In(r, {"dataset_remove"}) /\ RemoveEntry(r, call[r].ref)

RemoveCatalog(r) == In(r, {"catalog_remove"}) /\ RemoveEntry(r, call[r].ref)

\* The process is killed between two statements of a removal; the log survives.
CrashInRemoval(r) ==
  /\ In(r, {"dataset_remove", "catalog_remove"}) /\ crashes < MaxCrashes
  /\ LET e == call[r].ref
     IN  /\ db.entry[e] # None
         /\ \E k \in 1..(Statements(e) - 1) : db' = Removed(e, k)
         /\ torn' = torn \cup {e}
  /\ crashes' = crashes + 1
  /\ up' = "closed"
  /\ pc' = [q \in Requests |-> "idle"]
  /\ call' = [q \in Requests |-> None]
  /\ todo' = [q \in Requests |-> {}] /\ listed' = [q \in Requests |-> {}]
  /\ got' = [q \in Requests |-> {}] /\ missed' = [q \in Requests |-> {}]
  /\ last' = None
  /\ UNCHANGED <<next, step, disk, calls, faults, unflushed, raced, ambiguous, minted>>

\* get_dataset: the row, the tables and the tags of a dataset, read under one lock.
DatasetRow(e) == [name |-> e, content |-> db.entry[e].content, tables |-> db.tables[e], tags |-> db.tags[e]]

\* get_catalog: a catalog has no tables; what it holds is in its row.
CatalogRow(e) ==
  [name |-> e, content |-> db.entry[e].content, tables |-> db.entry[e].content, tags |-> db.tags[e]]

EntryRow(e) == IF e \in Datasets THEN DatasetRow(e) ELSE CatalogRow(e)

GetEntry(r, e) ==
  /\ \/ db.entry[e] = None /\ Finish(r, "not_found")
     \/ db.entry[e] # None /\ Answer(r, "ok", {EntryRow(e)})
  /\ UNCHANGED <<storeVars, faults, crashes, historyVars>>

GetDataset(r) == In(r, {"get_dataset"}) /\ GetEntry(r, call[r].ref)

GetCatalog(r) == In(r, {"get_catalog"}) /\ GetEntry(r, call[r].ref)

\* search: the names in the main table, or in the table of tags.
Search(kind, query) ==
  {e \in kind : IF query = "#tag" THEN db.tags[e] # None ELSE db.entry[e] # None}

KindOf(op) == IF op \in {"dataset_list", "list_datasets"} THEN Datasets ELSE Catalogs

SearchNames(r) ==
  /\ In(r, ListOps)
  /\ LET names == Search(KindOf(call[r].op), call[r].arg)
     IN  /\ todo' = [todo EXCEPT ![r] = names]
         /\ listed' = [listed EXCEPT ![r] = names]
  /\ pc' = [pc EXCEPT ![r] = "lookup"]
  /\ UNCHANGED <<storeVars, call, calls, got, missed, last, faults, crashes, historyVars>>

\* The lookup of one name that was found: one that is gone fails the listing, and
\* so does a refused statement, the first of them as if it were gone.
Lookup(r) ==
  /\ pc[r] = "lookup" /\ call[r].op \in ListOps
  /\ \E e \in todo[r] :
       \/ /\ db.entry[e] # None
          /\ todo' = [todo EXCEPT ![r] = @ \ {e}]
          /\ got' = [got EXCEPT ![r] = @ \cup {EntryRow(e)}]
          /\ UNCHANGED <<pc, call, calls, listed, missed, last, faults>>
       \/ /\ db.entry[e] = None
          /\ Finish(r, "not_found")
          /\ UNCHANGED faults
       \/ /\ faults < MaxFaults
          /\ faults' = faults + 1
          /\ \E answer \in {"not_found", "internal"} : Finish(r, answer)
  /\ UNCHANGED <<storeVars, crashes, historyVars>>

DatasetList(r) == Listed(r, "dataset_list")

ListDatasets(r) == Listed(r, "list_datasets")

CatalogList(r) == Listed(r, "catalog_list")

ListCatalogs(r) == Listed(r, "list_catalogs")

-----------------------------------------------------------------------------

Handle(r) ==
  \/ IdentityOf(r) \/ StatementFails(r)
  \/ ListNodes(r) \/ DescribeNode(r)
  \/ PolicyGet(r) \/ PolicySet(r)
  \/ CreatePondAssignment(r) \/ LocalCreatePond(r) \/ CreateLocated(r)
  \/ GetPondLocation(r) \/ GetPondInfo(r)
  \/ SetPondTier(r) \/ PondForget(r) \/ DropPondAssignment(r)
  \/ ListPondRows(r) \/ ListedPondInfo(r) \/ PondList(r) \/ ListPonds(r) \/ LocalListPonds(r)
  \/ AddDataset(r) \/ AddCatalog(r) \/ RemoveDataset(r) \/ RemoveCatalog(r)
  \/ GetDataset(r) \/ GetCatalog(r) \/ SearchNames(r) \/ Lookup(r)
  \/ DatasetList(r) \/ ListDatasets(r) \/ CatalogList(r) \/ ListCatalogs(r)

Next ==
  \/ Open \/ Migrate \/ Serve \/ Crash \/ ReapStaleNodes
  \/ \E n \in Nodes : RegisterNode(n) \/ Heartbeat(n)
  \/ \E r \in Requests : Arrive(r) \/ Handle(r) \/ CrashInRemoval(r)

Spec == Init /\ [][Next]_vars

-----------------------------------------------------------------------------
(* Properties. *)

\* A registry that is served has had every migration, to its last statement
\* (migrations.rs, run_migrations), whatever statement of an earlier or of this start failed and
\* even if the recorded version could not be read; and open is refused by what is
\* there already only after a process that ended in the middle of a migration, or
\* when the version could not be read.
ServesWholeSchema ==
  /\ up = "serving" => db.version = Len(Migrations) /\ db.applied = 0
  /\ up = "refused" => "schema" \in torn \/ next <= db.version

\* What a caller was told is in the database file, so losing the log loses none
\* of it (registry.rs, the CHECKPOINT of every method): ponds, datasets and
\* catalogs, unless a checkpoint was refused or a removal stopped half way.
AcknowledgedSurvives ==
  (up = "serving" /\ ~unflushed) =>
     /\ disk.pond = db.pond
     /\ \A e \in Entries \ torn :
          IF disk.version < Len(Migrations)
          THEN db.entry[e] = IF e \in Datasets THEN [content |-> Seed, by |-> "latiq"] ELSE None
          ELSE disk.entry[e] = db.entry[e] /\ disk.tags[e] = db.tags[e]

\* An answered dataset is one that somebody registered: its tables and its tags
\* come from the same add (registry.rs, add_dataset in one transaction).
AnswersAreWhole ==
  (last # None /\ last.op \in ListOps \cup {"get_dataset", "get_catalog"}) =>
     \A g \in last.rows : g.tables = g.content /\ g.tags = g.content

\* A listing raced by removals (control_service.rs and registry.rs: the names first,
\* then one lookup each): one of ponds holds every pond that was there from its
\* first read to its answer, as long as no pond is named like an id, save one whose
\* own lookup was refused by the engine; one of entries says "not found" only for an
\* entry removed in between, for one whose removal stopped half way, or for a
\* statement refused there and then.
ListingIsComplete ==
  [][\A r \in Requests :
       (pc[r] = "lookup" /\ pc'[r] = "idle" /\ last' # None)
         => /\ (last'.answer = "ok" /\ last'.op \in PondListOps /\ ~ambiguous)
                  => \A p \in listed[r] \ missed[r] : db.pond[p] # None => [name |-> p] \in last'.rows
            /\ last'.answer = "not_found" =>
                  r \in raced \/ todo[r] \cap torn # {} \/ faults' # faults]_vars

=============================================================================
