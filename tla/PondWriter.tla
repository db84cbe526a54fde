----------------------------- MODULE PondWriter -----------------------------
(***************************************************************************)
(* The write path of one pond inside DuckEngine: the cached instance and   *)
(* its re-opening when the tier changed or the pond was evicted, the       *)
(* writer mutex, the attribution bracket in_write_txn around a caller's    *)
(* statement, the watcher thread that turns a cancelled AbortToken into    *)
(* interrupts, and the recovery afterwards.                                *)
(*                                                                         *)
(* A request opens at most one instance, so an instance is named by the    *)
(* request that opened it.  DuckDB's interrupt is edge-triggered: it stops *)
(* the statement that is running and is lost between statements, so every  *)
(* statement has a start and an end.  DuckDB, DuckLake and its snapshots   *)
(* are external; a statement of the code is modelled by what it does to    *)
(* the connection's transaction and to the snapshot list.                  *)
(***************************************************************************)
EXTENDS Integers, Sequences, FiniteSets

CONSTANTS Writes,    \* write_query requests
          Pulls,     \* pull_catalog requests
          Mutating,  \* the requests whose statement may change data
          Driving,   \* the writes whose SQL holds BEGIN, COMMIT or ROLLBACK of its own
          MaxOwn,    \* bound on the snapshots such SQL publishes by itself
          Tiers,     \* resource tiers
          Free       \* no request

Requests == Writes \cup Pulls

ASSUME WriterAssumption ==
  /\ Free \notin Requests
  /\ Writes \cap Pulls = {}
  /\ Mutating \subseteq Requests
  /\ Driving \subseteq Writes
  /\ MaxOwn \in Nat

VARIABLES
  tier,      \* the pond's tier in the registry
  cache,     \* DuckEngine::ponds: the cached instance
  lock,      \* per instance, the holder of its writer mutex
  txn,       \* per instance, whose transaction is open on its writer connection
  attached,  \* the instances with the external catalog, or its secret, attached
  stuck,     \* history: the instances whose last teardown was refused
  snaps,     \* the catalog's snapshots: who published each, and whether the bracket did
  pc,        \* where each request is
  running,   \* the requests whose current statement is executing
  limits,    \* the tier each request resolved
  inst,      \* the instance each request holds an Arc of
  before,    \* in_write_txn's `before`
  reply,     \* what each request was answered
  blind,     \* history: the requests whose second max_snapshot failed
  token,     \* the requests whose AbortToken is cancelled
  spent      \* the requests whose watcher has fired between two statements

engineVars == <<cache, lock, txn, attached, stuck, snaps>>
requestVars == <<pc, running, limits, inst, before, reply, blind>>
abortVars == <<token, spent>>
vars == <<tier, engineVars, requestVars, abortVars>>

None == -1   \* Option::None, which orders below every Some

\* The statements of in_write_txn, and its ROLLBACK, in the order of the code.
Statements == {"before", "begin", "body", "message", "commit", "after", "rollback"}
PcStates == {"idle", "open", "lock", "attach", "recover", "leave", "teardown", "done"}
            \cup Statements
Refusals == {"cancelled", "error", "panicked"}

Answer(k) == [kind |-> k]
Replies == {Answer(k) : k \in {"none", "rows"} \cup Refusals} \cup [kind : {"snapshot"}, id : Int]

Snapshots == [by : Mutating, attributed : BOOLEAN]

TypeOK ==
  /\ tier \in Tiers
  /\ cache \in Requests \cup {Free}
  /\ lock \in [Requests -> Requests \cup {Free}]
  /\ txn \in [Requests -> Requests \cup {Free}]
  /\ attached \subseteq Requests
  /\ stuck \subseteq Requests
  /\ snaps \in Seq(Snapshots)
  /\ pc \in [Requests -> PcStates]
  /\ running \subseteq Requests
  /\ limits \in [Requests -> Tiers]
  /\ inst \in [Requests -> Requests \cup {Free}]
  /\ before \in [Requests -> Int]
  /\ reply \in [Requests -> Replies]
  /\ blind \subseteq Requests
  /\ token \subseteq Writes
  /\ spent \subseteq Writes

Init ==
  /\ tier \in Tiers
  /\ cache = Free
  /\ lock = [i \in Requests |-> Free]
  /\ txn = [i \in Requests |-> Free]
  /\ attached = {}
  /\ stuck = {}
  /\ snaps = << >>
  /\ pc = [w \in Requests |-> "idle"]
  /\ running = {}
  /\ limits = [w \in Requests |-> tier]
  /\ inst = [w \in Requests |-> Free]
  /\ before = [w \in Requests |-> None]
  /\ reply = [w \in Requests |-> Answer("none")]
  /\ blind = {}
  /\ token = {}
  /\ spent = {}

Goto(w, label) == pc' = [pc EXCEPT ![w] = label]

-----------------------------------------------------------------------------
(* Around the engine. *)

\* Registry::set_pond_tier.
SetPondTier ==
  /\ tier' \in Tiers \ {tier}
  /\ UNCHANGED <<engineVars, requestVars, abortVars>>

\* DuckEngine::forget_pond, called by drop_pond: the cached instance goes; a
\* request that holds an Arc of it keeps it.
ForgetPond ==
  /\ cache # Free
  /\ cache' = Free
  /\ UNCHANGED <<tier, lock, txn, attached, stuck, snaps, requestVars, abortVars>>

\* pond_info: the request's PondLocation carries the tier as it is now.
Resolve(w) ==
  /\ pc[w] = "idle"
  /\ limits' = [limits EXCEPT ![w] = tier]
  /\ Goto(w, "open")
  /\ UNCHANGED <<tier, engineVars, running, inst, before, reply, blind, abortVars>>

\* The deadline expires, the caller cancels or hangs up, or the pond is dropped.
\* pull_catalog takes no token.
Cancel(w) ==
  /\ w \in Writes
  /\ pc[w] \notin {"idle", "done"}
  /\ w \notin token
  /\ token' = token \cup {w}
  /\ UNCHANGED <<tier, engineVars, requestVars, spent>>

\* A cached instance serves the request when it was opened with its limits.
CacheServes(w) == cache # Free /\ limits[cache] = limits[w]

\* DuckEngine::pond: the cached instance, or else the entry is removed and replaced
\* by a freshly opened instance; opening may fail.
Pond(w) ==
  /\ pc[w] = "open"
  /\ \/ /\ CacheServes(w)
        /\ inst' = [inst EXCEPT ![w] = cache]
        /\ Goto(w, "lock")
        /\ UNCHANGED <<cache, reply>>
     \/ /\ ~CacheServes(w)
        /\ \/ /\ cache' = w
              /\ inst' = [inst EXCEPT ![w] = w]
              /\ Goto(w, "lock")
              /\ UNCHANGED reply
           \/ /\ cache' = Free
              /\ reply' = [reply EXCEPT ![w] = Answer("error")]
              /\ Goto(w, "done")
              /\ UNCHANGED inst
  /\ UNCHANGED <<tier, lock, txn, attached, stuck, snaps, running, limits, before, blind, abortVars>>

-----------------------------------------------------------------------------
(* The writer mutex. *)

\* Mutant: the mutex is not waited for.
LockWriterAtOnce(w) ==
  /\ pc[w] = "lock"
  /\ lock' = [lock EXCEPT ![inst[w]] = w]
  /\ Goto(w, IF w \in Pulls THEN "attach" ELSE "before")
  /\ UNCHANGED <<tier, cache, txn, attached, stuck, snaps, running, limits, inst, before,
                 reply, blind, abortVars>>

\* Pond::lock_writer for a write, lock_recover for a pull: taken when free, and
\* recovered when a holder panicked.
LockWriter(w) ==
  /\ pc[w] = "lock"
  /\ lock[inst[w]] = Free
  /\ lock' = [lock EXCEPT ![inst[w]] = w]
  /\ Goto(w, IF w \in Pulls THEN "attach" ELSE "before")
  /\ UNCHANGED <<tier, cache, txn, attached, stuck, snaps, running, limits, inst, before,
                 reply, blind, abortVars>>

\* Pond::lock_writer's poll: a queued write whose abort fired gives up.
GiveUp(w) ==
  /\ pc[w] = "lock"
  /\ w \in token
  /\ lock[inst[w]] # Free
  /\ reply' = [reply EXCEPT ![w] = Answer("cancelled")]
  /\ Goto(w, "done")
  /\ UNCHANGED <<tier, engineVars, running, limits, inst, before, blind, abortVars>>

\* attach_catalog: on failure, as when the catalog is attached already, what it left is
\* torn down.
Attach(w) ==
  /\ pc[w] = "attach"
  /\ attached' = attached \cup {inst[w]}
  /\ \/ inst[w] \notin attached /\ Goto(w, "before") /\ UNCHANGED reply
     \/ Goto(w, "teardown") /\ reply' = [reply EXCEPT ![w] = Answer("error")]
  /\ UNCHANGED <<tier, cache, lock, txn, stuck, snaps, running, limits, inst, before, blind,
                 abortVars>>

-----------------------------------------------------------------------------
(* in_write_txn, statement by statement. *)

Start(w) ==
  /\ pc[w] \in Statements
  /\ w \notin running
  /\ running' = running \cup {w}
  /\ UNCHANGED <<tier, engineVars, pc, limits, inst, before, reply, blind, abortVars>>

\* What follows the bracket: out of run_with_abort for a write, the teardown of
\* the attachment for a pull.
AfterBracket(w, ok) ==
  IF w \in Pulls THEN "teardown" ELSE IF ok THEN "leave" ELSE "recover"

\* max_snapshot reads the newest snapshot id; a query that fails reads as None.
MaxSnapshot == Len(snaps)

\* The outcome of the bracket: a snapshot was published iff the id advanced.
Outcome(w, after) ==
  IF after > before[w] THEN [kind |-> "snapshot", id |-> after] ELSE Answer("rows")

\* The body's statement ends.  Caller SQL may run for as long as it likes.
BodyEnds(w) ==
  /\ pc[w] = "body"
  /\ w \in running
  /\ running' = running \ {w}
  /\ Goto(w, "message")
  /\ UNCHANGED <<tier, engineVars, limits, inst, before, reply, blind, abortVars>>

OwnSnapshots(w) == {n \in 1..Len(snaps) : snaps[n].by = w /\ ~snaps[n].attributed}

\* The caller's SQL drives the transaction itself: a COMMIT or a ROLLBACK ends the
\* bracket's, or a later one of its own, and a statement outside of one commits alone,
\* without attribution; a BEGIN opens another.
DriveTransaction(w) ==
  /\ w \in Driving
  /\ pc[w] = "body"
  /\ w \in running
  /\ \/ /\ txn' = [txn EXCEPT ![inst[w]] = Free]
        /\ \/ UNCHANGED snaps
           \/ /\ w \in Mutating /\ Cardinality(OwnSnapshots(w)) < MaxOwn
              /\ snaps' = Append(snaps, [by |-> w, attributed |-> FALSE])
     \/ /\ txn[inst[w]] = Free
        /\ txn' = [txn EXCEPT ![inst[w]] = w]
        /\ UNCHANGED snaps
  /\ UNCHANGED <<tier, cache, lock, attached, stuck, requestVars, abortVars>>

\* One of the code's own statements ends normally.
StatementEnds(w) ==
  /\ w \in running
  /\ running' = running \ {w}
  /\ \/ /\ pc[w] = "before"
        /\ before' = [before EXCEPT ![w] = MaxSnapshot]
        /\ Goto(w, "begin")
        /\ UNCHANGED <<txn, snaps, reply>>
     \/ /\ pc[w] = "begin"
        /\ txn[inst[w]] = Free
        /\ txn' = [txn EXCEPT ![inst[w]] = w]
        /\ Goto(w, "body")
        /\ UNCHANGED <<snaps, before, reply>>
     \/ /\ pc[w] = "message"
        /\ Goto(w, "commit")
        /\ UNCHANGED <<txn, snaps, before, reply>>
     \/ /\ pc[w] = "commit"
        /\ txn[inst[w]] = w
        /\ txn' = [txn EXCEPT ![inst[w]] = Free]
        /\ \/ UNCHANGED snaps
           \/ w \in Mutating /\ snaps' = Append(snaps, [by |-> w, attributed |-> TRUE])
        /\ Goto(w, "after")
        /\ UNCHANGED <<before, reply>>
     \/ /\ pc[w] = "after"
        /\ reply' = [reply EXCEPT ![w] = Outcome(w, MaxSnapshot)]
        /\ Goto(w, AfterBracket(w, TRUE))
        /\ UNCHANGED <<txn, snaps, before>>
     \/ /\ pc[w] = "rollback"
        /\ txn' = [txn EXCEPT ![inst[w]] = Free]
        /\ Goto(w, AfterBracket(w, FALSE))
        /\ UNCHANGED <<snaps, before, reply>>
  /\ UNCHANGED <<tier, cache, lock, attached, stuck, limits, inst, blind, abortVars>>

\* Mutant: a failing `after` fails the request.
StatementFailsAlways(w, answer) ==
  /\ w \in running
  /\ running' = running \ {w}
  /\ reply' = [reply EXCEPT ![w] = Answer(answer)]
  /\ Goto(w, IF pc[w] \in {"body", "message", "commit"} THEN "rollback"
             ELSE AfterBracket(w, FALSE))
  /\ UNCHANGED <<tier, engineVars, limits, inst, before, blind, abortVars>>

\* A statement ends in an error.  The two max_snapshot reads swallow it; the
\* bracket rolls back after a failing body, message or commit, but not after a
\* failing BEGIN; a failing ROLLBACK is ignored and leaves the transaction open.
StatementFails(w, answer) ==
  /\ w \in running
  /\ running' = running \ {w}
  /\ \/ /\ pc[w] = "before"
        /\ before' = [before EXCEPT ![w] = None]
        /\ Goto(w, "begin")
        /\ UNCHANGED <<reply, blind>>
     \/ /\ pc[w] \in {"body", "message", "commit"}
        /\ reply' = [reply EXCEPT ![w] = Answer(answer)]
        /\ Goto(w, "rollback")
        /\ UNCHANGED <<before, blind>>
     \/ /\ pc[w] = "begin"
        /\ reply' = [reply EXCEPT ![w] = Answer(answer)]
        /\ Goto(w, AfterBracket(w, FALSE))
        /\ UNCHANGED <<before, blind>>
     \/ /\ pc[w] = "after"
        /\ reply' = [reply EXCEPT ![w] = Outcome(w, None)]
        /\ blind' = blind \cup {w}
        /\ Goto(w, AfterBracket(w, TRUE))
        /\ UNCHANGED before
     \/ /\ pc[w] = "rollback"
        /\ Goto(w, AfterBracket(w, FALSE))
        /\ UNCHANGED <<before, reply, blind>>
  /\ UNCHANGED <<tier, engineVars, limits, inst, abortVars>>

\* The engine refuses a statement: either max_snapshot, the caller's SQL, the CALL of
\* set_commit_message, a COMMIT (always, when the caller's SQL left no transaction to
\* commit), and a BEGIN inside an open transaction.
OwnError(w) ==
  /\ \/ pc[w] \in {"before", "body", "message", "commit", "after"}
     \/ pc[w] = "begin" /\ txn[inst[w]] # Free
  /\ StatementFails(w, "error")

\* Converting a cell of the body's result panics: the unwind drops the watcher
\* and the guard, and nothing rolls back.
Panic(w) ==
  /\ w \in Writes
  /\ pc[w] = "body"
  /\ w \in running
  /\ running' = running \ {w}
  /\ lock' = [lock EXCEPT ![inst[w]] = Free]
  /\ reply' = [reply EXCEPT ![w] = Answer("panicked")]
  /\ Goto(w, "done")
  /\ UNCHANGED <<tier, cache, txn, attached, stuck, snaps, limits, inst, before, blind, abortVars>>

-----------------------------------------------------------------------------
(* The watcher thread, AbortWatcher. *)

\* Mutant: the watcher exits after the first shot.
WatchingOnce(w) ==
  w \in Writes /\ pc[w] \in Statements /\ w \in token /\ w \notin spent

\* Armed for the statements run under run_with_abort, and firing for as long as
\* the token is cancelled; disarm joins the thread, so it never outlives them.
Watching(w) == w \in Writes /\ pc[w] \in Statements /\ w \in token

\* The interrupt lands on the running statement.
Interrupt(w) ==
  /\ Watching(w)
  /\ StatementFails(w, "cancelled")

\* The interrupt arrives between two statements and is discarded.
InterruptLost(w) ==
  /\ Watching(w)
  /\ w \notin running
  /\ w \notin spent
  /\ spent' = spent \cup {w}
  /\ UNCHANGED <<tier, engineVars, requestVars, token>>

-----------------------------------------------------------------------------
(* Out of the bracket. *)

\* Mutant: no second ROLLBACK.
RecoverWithoutRollback(w) ==
  /\ pc[w] = "recover"
  /\ lock' = [lock EXCEPT ![inst[w]] = Free]
  /\ Goto(w, "done")
  /\ UNCHANGED <<tier, cache, txn, attached, stuck, snaps, running, limits, inst, before,
                 reply, blind, abortVars>>

\* write_query after an error: the watcher is joined, so this ROLLBACK cannot be
\* interrupted; then the guard is dropped.
Recover(w) ==
  /\ pc[w] = "recover"
  /\ txn' = [txn EXCEPT ![inst[w]] = Free]
  /\ lock' = [lock EXCEPT ![inst[w]] = Free]
  /\ Goto(w, "done")
  /\ UNCHANGED <<tier, cache, attached, stuck, snaps, running, limits, inst, before, reply, blind,
                 abortVars>>

Leave(w) ==
  /\ pc[w] = "leave"
  /\ lock' = [lock EXCEPT ![inst[w]] = Free]
  /\ Goto(w, "done")
  /\ UNCHANGED <<tier, cache, txn, attached, stuck, snaps, running, limits, inst, before,
                 reply, blind, abortVars>>

\* Mutant: a failed pull skips the teardown.
TeardownOnSuccess(w) ==
  /\ pc[w] = "teardown"
  /\ attached' = IF reply[w].kind = "error" THEN attached ELSE attached \ {inst[w]}
  /\ lock' = [lock EXCEPT ![inst[w]] = Free]
  /\ Goto(w, "done")
  /\ UNCHANGED <<tier, cache, txn, stuck, snaps, running, limits, inst, before, reply, blind,
                 abortVars>>

\* teardown_catalog, whatever the pull's outcome, then the guard is dropped.  The
\* teardown is best effort: the result of its statements is ignored.
Teardown(w) ==
  /\ pc[w] = "teardown"
  /\ \/ attached' = attached \ {inst[w]} /\ stuck' = stuck \ {inst[w]}
     \/ stuck' = stuck \cup {inst[w]} /\ UNCHANGED attached
  /\ lock' = [lock EXCEPT ![inst[w]] = Free]
  /\ Goto(w, "done")
  /\ UNCHANGED <<tier, cache, txn, snaps, running, limits, inst, before, reply, blind, abortVars>>

-----------------------------------------------------------------------------
\* The steps of a request's own thread that always come to an end.
Proceed(w) ==
  \/ Resolve(w) \/ Pond(w) \/ LockWriter(w) \/ GiveUp(w) \/ Attach(w)
  \/ Start(w) \/ StatementEnds(w) \/ OwnError(w)
  \/ Recover(w) \/ Leave(w) \/ Teardown(w)

Step(w) ==
  \/ Proceed(w) \/ BodyEnds(w) \/ DriveTransaction(w) \/ Panic(w)
  \/ Cancel(w) \/ Interrupt(w) \/ InterruptLost(w)

Next == SetPondTier \/ ForgetPond \/ \E w \in Requests : Step(w)

Spec == Init /\ [][Next]_vars

\* A request's thread is scheduled, and its watcher's ticks come; the caller's
\* SQL need never end by itself, and nobody need cancel.
Fairness ==
  \A w \in Requests :
    /\ WF_vars(Proceed(w) /\ pc[w] # "body")
    /\ WF_vars(Start(w))
    /\ WF_vars(Interrupt(w))

FairSpec == Spec /\ Fairness

-----------------------------------------------------------------------------
(* Properties. *)

Published(w) == \E n \in 1..Len(snaps) : snaps[n].by = w

\* exec.rs:409-410: the writer connection is kept, so between two requests it is
\* never inside a transaction, however the interrupts fell on BEGIN, COMMIT and
\* ROLLBACK - but for the one a panicking statement left behind.
WriterClean ==
  \A i \in Requests : lock[i] = Free /\ txn[i] # Free => reply[txn[i]].kind = "panicked"

\* A request that is answered with an error or a cancellation has published nothing,
\* and may be sent again.  The exception is SQL that drives the transaction itself: what
\* its own COMMIT published stays, without attribution (exec.rs:1267-1326).
ErrorMeansUnpublished ==
  \A w \in Requests : reply[w].kind \in Refusals =>
    \A n \in 1..Len(snaps) : snaps[n].by = w => w \in Driving /\ ~snaps[n].attributed

\* All requests so far shared one instance, and so one writer mutex.
Alone(w) == \A v \in Requests : inst[v] \in {inst[w], Free}

\* in_write_txn's before/after comparison.  An answer without a snapshot means that
\* nothing was published, unless the second read failed.  One with a snapshot names one
\* that is no older than what was published, and with a single instance the request's
\* own: the mutex keeps other commits out of the bracket.  A request that published
\* nothing is told of another's only when its first read failed.
ReportsItsSnapshot ==
  \A w \in Requests :
    /\ reply[w].kind = "rows" => ~Published(w) \/ w \in blind
    /\ reply[w].kind = "snapshot" =>
         /\ Published(w) => \E n \in 1..reply[w].id : snaps[n].by = w
         /\ Alone(w) /\ (Published(w) \/ before[w] # None) => snaps[reply[w].id].by = w

\* pull_catalog leaves no attachment (and no secret) behind on the connection it
\* gives back, whichever of its steps failed, unless DETACH or DROP SECRET itself did.
NothingAttached == \A i \in attached : lock[i] # Free \/ i \in stuck

\* abort.rs: a cancelled write ends, whether it is queued behind a writer that
\* never finishes, between two statements, or in a statement that never ends.
CancelledEnds == \A w \in Writes : w \in token ~> pc[w] = "done"
=============================================================================
