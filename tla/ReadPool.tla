------------------------------ MODULE ReadPool ------------------------------
(***************************************************************************)
(* The bounded pool of read connections of one pond in DuckEngine: readers *)
(* check a connection out, growing the pool lazily, or wait on a condition *)
(* variable; the guard's Drop gives the connection back or discards it,    *)
(* and notifies one waiter after it has released the pool's mutex.         *)
(*                                                                         *)
(* Idle connections are interchangeable, so they are counted.  What runs   *)
(* under the pool's mutex is one action.                                   *)
(***************************************************************************)
EXTENDS Integers, FiniteSets

CONSTANTS Readers,  \* requests that read from the pond, once each
          Max,      \* ReadPool::max, at least 4 in the code
          Failing   \* the readers for whom opening a connection may fail

ASSUME PoolAssumption ==
  /\ IsFiniteSet(Readers)
  /\ Max \in Nat \ {0}
  /\ Failing \subseteq Readers

VARIABLES
  created,  \* PoolState::created
  idle,     \* the length of PoolState::idle
  reader    \* where each reader is

poolVars == <<created, idle, reader>>

Labels == {"new", "waiting", "woken", "cloning", "using", "returned", "failed", "done"}

At(labels) == {r \in Readers : reader[r] \in labels}

PoolTypeOK ==
  /\ created \in 0..Max
  /\ idle \in 0..Max
  /\ reader \in [Readers -> Labels]

PoolInit ==
  /\ created = 0
  /\ idle = 0
  /\ reader = [r \in Readers |-> "new"]

Goto(r, label) == reader' = [reader EXCEPT ![r] = label]

\* One turn of checkout_read's loop: an idle connection, or else a place for a new
\* one, or else the wait, which gives up the mutex atomically.
CheckoutRead(r) ==
  /\ reader[r] \in {"new", "woken"}
  /\ \/ /\ idle > 0
        /\ idle' = idle - 1
        /\ Goto(r, "using")
        /\ UNCHANGED created
     \/ /\ idle = 0
        /\ created < Max
        /\ created' = created + 1
        /\ Goto(r, "cloning")
        /\ UNCHANGED idle
     \/ /\ idle = 0
        /\ created >= Max
        /\ Goto(r, "waiting")
        /\ UNCHANGED <<created, idle>>

\* clone_for_read, outside the pool's mutex.
CloneForRead(r) ==
  /\ reader[r] = "cloning"
  /\ Goto(r, "using")
  /\ UNCHANGED <<created, idle>>

\* A failing clone gives its place up, and notifies nobody.
CloneFails(r) ==
  /\ reader[r] = "cloning"
  /\ r \in Failing
  /\ created' = created - 1
  /\ Goto(r, "failed")
  /\ UNCHANGED idle

\* ReadGuard::drop after a successful read.
Return(r) ==
  /\ reader[r] = "using"
  /\ idle' = idle + 1
  /\ Goto(r, "returned")
  /\ UNCHANGED created

\* Mutant: the discarded connection keeps its place.
DiscardKeepsPlace(r) ==
  /\ reader[r] = "using"
  /\ Goto(r, "returned")
  /\ UNCHANGED <<created, idle>>

\* Mutant: only a returned connection wakes a waiter.
DiscardUnnoticed(r) ==
  /\ reader[r] = "using"
  /\ created' = created - 1
  /\ Goto(r, "done")
  /\ UNCHANGED idle

\* ReadGuard::drop after an error, a cancellation or a panic.
Discard(r) ==
  /\ reader[r] = "using"
  /\ created' = created - 1
  /\ Goto(r, "returned")
  /\ UNCHANGED idle

\* notify_one, after the mutex was released: some waiter, if there is one.
NotifyOne(r) ==
  /\ reader[r] = "returned"
  /\ \/ /\ At({"waiting"}) = {}
        /\ Goto(r, "done")
     \/ \E w \in At({"waiting"}) : reader' = [reader EXCEPT ![r] = "done", ![w] = "woken"]
  /\ UNCHANGED <<created, idle>>

\* Condvar::wait may return by itself.
SpuriousWakeup(r) ==
  /\ reader[r] = "waiting"
  /\ Goto(r, "woken")
  /\ UNCHANGED <<created, idle>>

Step(r) == \/ CheckoutRead(r) \/ CloneForRead(r) \/ CloneFails(r)
           \/ Return(r) \/ Discard(r) \/ NotifyOne(r)

PoolNext == \E r \in Readers : Step(r) \/ SpuriousWakeup(r)

PoolSpec == PoolInit /\ [][PoolNext]_poolVars

\* Every reader's thread runs, and every read ends: the deadline sees to it.  No
\* waiter may count on waking up by itself.
PoolFairSpec == PoolSpec /\ \A r \in Readers : WF_poolVars(Step(r))

-----------------------------------------------------------------------------
(* Properties. *)

\* The counter is the truth: it counts the idle connections and the readers that
\* have one or are opening one, so that no place is ever lost to an error.
PlacesAccounted == created = idle + Cardinality(At({"cloning", "using"}))

\* The places a reader could take at once.
Room == Max - created + idle

\* No wakeup is lost but to a clone that failed: while readers sleep, every free
\* place has somebody on the way to it, a notification not yet sent or a reader
\* already woken - or was given up by a reader whose clone failed.
OnlyFailedClonesLoseWakeups ==
  At({"waiting"}) # {} => Room <= Cardinality(At({"returned", "woken", "failed"}))

Served(r) == reader[r] \in {"using", "failed", "done"}

\* Every waiting reader gets a connection, or at least a verdict, whoever returns or
\* discards one and in whatever order the wakeups come - as long as no clone fails.
ServedUnlessClonesFail ==
  \A r \in Readers : reader[r] = "waiting" ~> (Served(r) \/ At({"failed"}) # {})

=============================================================================
