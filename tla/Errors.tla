------------------------------- MODULE Errors -------------------------------
(***************************************************************************)
(* The one error shape of Latiq and the ways it is made and carried: the   *)
(* kind tables of latiq-common, the engine's and the control plane's       *)
(* errors turned into kinds, and the gRPC status an envelope travels in    *)
(* between nodes.  Constant operators only; QueryPath uses them.           *)
(*                                                                         *)
(* Sentences are left out.  What is kept of an envelope is what a caller   *)
(* branches on: its kind, who it is for, whether to send the call again,   *)
(* whether its advice is the kind's own ("canonical") or the site's        *)
(* ("specific"), the page it points at, the facts, and the span it names.  *)
(***************************************************************************)
CONSTANT None

ErrorKind ==
  { "PondNotFound", "DatasetNotFound", "NameConflict", "CatalogError", "ParseError",
    "InvalidValue", "MissingArgument", "WriteToReservedSchema", "ResultCapExceeded",
    "ReadOnlyViolation", "UnsupportedFeature", "QueryTimeout", "QueryCancelled",
    "Unauthenticated", "SourceUnavailable", "PondUnavailable", "CapabilityUnavailable",
    "Storage", "Internal" }

Audience == { "Agent", "Operator" }

Retryable == { "AsIs", "AfterChange", "Never", "AfterProvisioning" }

Advice == { "canonical", "specific" }

(* The pages a `see' may name, and the keys of the facts.                  *)
Pages ==
  ErrorKind \cup { "datasets", "large-results", "dialect", "timeouts", "guidance", "internal", "lineage" }

Facts ==
  { "pond", "name", "rows", "cap", "timeout_ms", "max_timeout_ms", "node_id", "node_endpoint",
    "detail", "dataset", "catalog", "cause", "compensated", "feature", "capability", "field",
    "max_limit" }

audience(kind) ==
  IF kind \in { "PondUnavailable", "CapabilityUnavailable", "Storage", "Internal" }
  THEN "Operator" ELSE "Agent"

retryable(kind) ==
  CASE kind \in { "QueryTimeout", "QueryCancelled", "SourceUnavailable", "Storage", "Internal" } -> "AsIs"
    [] kind \in { "ReadOnlyViolation", "PondUnavailable" } -> "Never"
    [] kind = "CapabilityUnavailable" -> "AfterProvisioning"
    [] OTHER -> "AfterChange"

(* The page of a kind: its own troubleshooting page, or the shared one.    *)
default_see(kind) ==
  CASE kind = "DatasetNotFound" -> "datasets"
    [] kind = "ResultCapExceeded" -> "large-results"
    [] kind \in { "ReadOnlyViolation", "ParseError", "UnsupportedFeature", "WriteToReservedSchema" } -> "dialect"
    [] kind \in { "QueryTimeout", "QueryCancelled" } -> "timeouts"
    [] kind \in { "NameConflict", "InvalidValue", "MissingArgument" } -> "guidance"
    [] kind \in { "Storage", "Internal" } -> "internal"
    [] OTHER -> kind

default_suggest(kind) == "canonical"

(***************************************************************************)
(* Envelopes.  `span' is the node whose span produced the failure.         *)
(***************************************************************************)
new(kind, advice, see, facts) ==
  [ kind |-> kind, advice |-> advice, see |-> see, audience |-> audience(kind),
    retryable |-> retryable(kind), facts |-> facts, trace |-> None, span |-> None ]

for_kind(kind) == new(kind, default_suggest(kind), default_see(kind), {})

rendered(kind, facts) == new(kind, default_suggest(kind), default_see(kind), facts)

rendered_with(kind, facts, see) == new(kind, "specific", see, facts)

(* The debug_assert every constructor passes through.                      *)
assert_opaque_kinds_keep_canonical_guidance(env) ==
  env.kind = "Internal" => env.advice = "canonical" /\ env.see = "internal"

with_trace_id(env, trace) == [ env EXCEPT !.trace = trace ]

(* Keeps a span that is there: the owner's, on the forwarded path.         *)
with_traceparent(env, span) ==
  IF env.span = None THEN [ env EXCEPT !.span = span ] ELSE env

(***************************************************************************)
(* The engine.  DuckDB's message class becomes an EngineError, which       *)
(* becomes a kind.                                                         *)
(***************************************************************************)
DuckClass ==
  { "Parser", "Syntax", "Catalog", "Binder", "Conversion", "Constraint", "IO", "HTTP",
    "NotImplemented", "InvalidInput", "OutOfRange", "Transaction", "OutOfMemory", "Fatal" }

classify_message(class) ==
  CASE class \in { "Parser", "Syntax" } -> "Parse"
    [] class \in { "Catalog", "Binder" } -> "Catalog"
    [] class \in { "IO", "HTTP" } -> "SourceIo"
    [] class = "NotImplemented" -> "Unsupported"
    [] class \in { "InvalidInput", "OutOfRange" } -> "InvalidInput"
    [] class = "Transaction" -> "TransactionControl"
    [] class \in { "Conversion", "Constraint" } -> class
    [] OTHER -> "Engine"

EngineError ==
  { classify_message(c) : c \in DuckClass }
    \cup { "ReadOnlyViolation", "Cancelled", "Timeout", "CapabilityUnavailable",
           "MissingParameter", "UnsupportedParameter" }

from_engine(e) ==
  CASE e \in { "ReadOnlyViolation" } -> for_kind("ReadOnlyViolation")
    [] e = "Cancelled" -> for_kind("QueryCancelled")
    [] e = "Timeout" -> for_kind("QueryTimeout")
    [] e = "Parse" -> for_kind("ParseError")
    [] e = "Catalog" -> for_kind("CatalogError")
    [] e \in { "Conversion", "Constraint", "InvalidInput" } -> rendered_with("InvalidValue", {}, "dialect")
    [] e = "SourceIo" -> for_kind("SourceUnavailable")
    [] e = "Unsupported" -> rendered_with("UnsupportedFeature", { "feature" }, "dialect")
    [] e = "CapabilityUnavailable" -> rendered("CapabilityUnavailable", { "capability" })
    [] e = "MissingParameter" -> for_kind("MissingArgument")
    [] e = "UnsupportedParameter" -> for_kind("InvalidValue")
    [] e = "TransactionControl" -> rendered_with("UnsupportedFeature", {}, "dialect")
    [] OTHER -> for_kind("Internal")

pond_not_found == rendered("PondNotFound", { "pond" })

pond_unavailable == rendered("PondUnavailable", { "pond" })

name_conflict == rendered("NameConflict", { "name" })

result_cap_exceeded == rendered("ResultCapExceeded", { "rows", "cap" })

result_cap_exceeded_unknown == rendered("ResultCapExceeded", { "cap" })

query_timeout == rendered_with("QueryTimeout", { "timeout_ms", "max_timeout_ms" }, "timeouts")

unreachable_owner == rendered("PondUnavailable", { "pond", "node_id", "node_endpoint", "detail" })

(***************************************************************************)
(* The control plane's own errors.                                         *)
(***************************************************************************)
ControlPlaneError ==
  { "NameConflict", "PondNotFound", "NoNodeAvailable", "NodeNotFound", "DatasetNotFound",
    "CatalogNotFound", "PondStillOwned", "AllocationNotMaterialized", "Invalid", "Storage" }

envelope(e) ==
  CASE e = "NameConflict" -> name_conflict
    [] e = "PondNotFound" -> pond_not_found
    [] e = "NoNodeAvailable" -> for_kind("Internal")
    [] e = "NodeNotFound" -> rendered_with("InvalidValue", { "node_id" }, "guidance")
    [] e = "DatasetNotFound" -> rendered("DatasetNotFound", { "dataset" })
    [] e = "CatalogNotFound" -> rendered_with("DatasetNotFound", { "catalog" }, "guidance")
    [] e = "PondStillOwned" -> rendered_with("InvalidValue", { "pond", "node_id" }, "guidance")
    [] e = "AllocationNotMaterialized" ->
         rendered_with("PondUnavailable", { "name", "node_endpoint", "cause", "compensated" }, "PondUnavailable")
    [] e = "Invalid" -> for_kind("InvalidValue")
    [] OTHER -> for_kind("Storage")

code(e) ==
  CASE e = "NameConflict" -> "AlreadyExists"
    [] e \in { "PondNotFound", "DatasetNotFound", "CatalogNotFound", "NodeNotFound" } -> "NotFound"
    [] e \in { "NoNodeAvailable", "PondStillOwned", "AllocationNotMaterialized" } -> "FailedPrecondition"
    [] e = "Invalid" -> "InvalidArgument"
    [] OTHER -> "Internal"

(***************************************************************************)
(* A failure on the wire: a code, and the envelope in `details' when a     *)
(* Latiq service wrote the status rather than the transport.               *)
(***************************************************************************)
Status(c, details) == [ code |-> c, details |-> details ]

to_status_traced(e, trace) == Status(code(e), with_trace_id(envelope(e), trace))

to_status(env, trace, span) ==
  LET stamped == with_traceparent(with_trace_id(env, trace), span)
      c == CASE env.kind = "PondNotFound" -> "NotFound"
             [] env.kind = "NameConflict" -> "AlreadyExists"
             [] env.kind = "QueryTimeout" -> "DeadlineExceeded"
             [] env.kind = "QueryCancelled" -> "Cancelled"
             [] env.kind = "Unauthenticated" -> "Unauthenticated"
             [] env.kind \in { "PondUnavailable", "CapabilityUnavailable", "SourceUnavailable" } -> "FailedPrecondition"
             [] env.kind \in { "Storage", "Internal" } -> "Internal"
             [] OTHER -> "InvalidArgument"
  IN Status(c, stamped)

unauthenticated == Status("Unauthenticated", None)

(* Mutant, the one the comment in forward_client.rs tells of: the envelope *)
(* rebuilt field by field, and what the rebuild forgets lost.              *)
status_to_error_rebuilt(s) ==
  IF s.details # None THEN [ for_kind(s.details.kind) EXCEPT !.trace = s.details.trace ]
  ELSE for_kind("Internal")

(* What the greeting node makes of the owner's answer.                     *)
status_to_error(s) ==
  IF s.details # None THEN s.details
  ELSE CASE s.code = "NotFound" -> pond_not_found
         [] s.code = "AlreadyExists" -> name_conflict
         [] s.code = "Unauthenticated" -> for_kind("Unauthenticated")
         [] s.code = "Unavailable" -> unreachable_owner
         [] OTHER -> for_kind("Internal")

(* What a node makes of the control plane's answer.                        *)
status_err(s) ==
  IF s.details # None THEN s.details
  ELSE CASE s.code = "NotFound" -> pond_not_found
         [] s.code = "AlreadyExists" -> name_conflict
         [] OTHER -> for_kind("Internal")

(* Every constructor passes the assertion.                                 *)
ASSUME OpaqueKindsAssumption ==
  \A env \in { for_kind(kind) : kind \in ErrorKind }
             \cup { from_engine(e) : e \in EngineError }
             \cup { envelope(e) : e \in ControlPlaneError }
             \cup { pond_unavailable, result_cap_exceeded, result_cap_exceeded_unknown,
                    query_timeout, unreachable_owner } :
    /\ assert_opaque_kinds_keep_canonical_guidance(env)
    /\ env.audience \in Audience /\ env.retryable \in Retryable
=============================================================================
