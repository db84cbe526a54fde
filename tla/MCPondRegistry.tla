--------------------------- MODULE MCPondRegistry ---------------------------
(* Model-checking instance of PondRegistry: the calls of two handlers, which
   interleave, and one token of each kind on the Admin surface. *)
EXTENDS PondRegistry, TLC

CONSTANTS i1, i2, n1, m1, d1, k1, c1, c2, c3

Ask(op, ref, arg) == [op |-> op, ref |-> ref, arg |-> arg, bearer |-> "good"]

MCCalls ==
  {Ask(op, None, None) : op \in {"list_nodes", "policy_get", "policy_set", "pond_list", "list_ponds", "local_list_ponds"}}
  \cup {Ask("describe_node", m1, None)}
  \cup {Ask("create_pond_assignment", n, "") : n \in {n1, i1, ""}}
  \cup {Ask("create_pond_assignment", n1, t) : t \in {"uncapped", "gigantic"}}
  \cup {Ask("local_create_pond", n, "LARGE") : n \in {None, ""}}
  \cup {Ask("pond_set_tier", n1, t) : t \in {"uncapped", "gigantic"}}
  \cup {Ask("pond_set_tier", "", "medium")}
  \cup {Ask("pond_forget", i1, a) : a \in {"confirm", None}}
  \cup {Ask(op, i1, None) : op \in {"drop_pond_assignment", "get_pond_location", "get_pond_info"}}
  \cup {Ask("dataset_add", d1, c) : c \in {c2, c3, None}}
  \cup {Ask("catalog_add", k1, c) : c \in {c2, None}}
  \cup {Ask(op, d1, None) : op \in {"dataset_remove", "get_dataset"}}
  \cup {Ask(op, k1, None) : op \in {"catalog_remove", "get_catalog"}}
  \cup {Ask(op, None, "#tag") : op \in {"dataset_list", "list_catalogs"}}
  \cup {Ask(op, None, "all") : op \in {"list_datasets", "catalog_list"}}
  \cup {[Ask("pond_forget", i1, "confirm") EXCEPT !.bearer = "bad"]}

\* The two halves of the registry share no table: a behaviour that has nodes has
\* the entries it was seeded with, and handles calls on nodes and ponds alone.
Halves ==
  (\E n \in Nodes : db.node[n] # None) =>
     /\ db.entry = [e \in Entries |-> IF e = d1 THEN [content |-> Seed, by |-> "latiq"] ELSE None]
     /\ db.tags[d1] = Seed /\ db.tables[d1] = Seed
     /\ \A r \in Requests : call[r] # None => call[r].ref \notin Entries /\ call[r].op \notin ListOps

\* One mishap in a behaviour, a refused statement or a crash; both while the
\* registry is opened, so that a version that cannot be read is one that is there.
OneMishap == faults + crashes <= 1 \/ calls = 0

\* A call that only reads, or is refused at once, changes nothing for the others: it
\* is made last.  One listing of each kind is made at any time.
Plain(c) ==
  \/ c.op \in {"list_nodes", "describe_node", "policy_get", "policy_set", "get_pond_location",
              "get_pond_info", "get_dataset", "get_catalog", "pond_list", "local_list_ponds",
              "list_datasets", "catalog_list"}
  \/ c.op \in {"dataset_add", "catalog_add", "pond_forget"} /\ c.arg = None
  \/ c.arg = "gigantic" \/ c.bearer = "bad" \/ c.ref = ""

PlainLast == \A r \in Requests : call[r] = None \/ ~Plain(call[r]) \/ calls = MaxCalls

RequestSymmetry == Permutations(Requests)
=============================================================================
