------------------------------ MODULE Lineage ------------------------------
(***************************************************************************)
(* The lineage trail of one pond: the events a query leaves behind, the    *)
(* writer that batches them into files, the reader that pages through the  *)
(* files, the queue that mirrors them to an HTTP backend, and what a node  *)
(* does about all of it when it is told to stop.                           *)
(*                                                                         *)
(* Each lock is held for one action.  A flush runs on the blocking pool:   *)
(* it drains the buffer, writes and syncs a temporary file and renames it, *)
(* with the lock released, and puts the batch back when a step fails.      *)
(* Times are milliseconds; a batch file is named by the one it was drained *)
(* in and a random number.                                                 *)
(***************************************************************************)
EXTENDS Naturals, Sequences, FiniteSets, SequencesExt

CONSTANTS Queries,
          ErrorOf,       \* how each query ends: "none", "cancelled", "timeout" or "other"
          Verified,      \* the queries whose caller is authenticated
          Writing,       \* the queries that write a table
          BatchSize, Capacity,   \* of the writer's buffer
          QueueCapacity,         \* of the sink's queue
          Backends,      \* may a backend be configured, may none?
          Limit,         \* events on a page
          MaxNames,      \* files a read examines
          MaxTime, MaxFails, MaxCrashes, None

\* RunEvent: what a query leaves in the trail.
Event == [run : Queries, type : {"START", "COMPLETE", "ABORT", "FAIL"}, time : Nat,
          subject : Queries \cup {None}, outcome : {"ok", "cancelled", "error", None},
          message : BOOLEAN, outputs : SUBSET Queries]

ASSUME LineageAssumption ==
  /\ BatchSize \in Nat \ {0} /\ Capacity \in Nat \ {0} /\ QueueCapacity \in Nat \ {0}
  /\ Limit \in Nat \ {0} /\ MaxNames \in Nat \ {0}
  /\ ErrorOf \in [Queries -> {"none", "cancelled", "timeout", "other"}]
  /\ Verified \subseteq Queries /\ Writing \subseteq Queries /\ Backends \subseteq BOOLEAN
  /\ MaxTime \in Nat /\ MaxFails \in Nat /\ MaxCrashes \in Nat
  /\ None \notin Event

\* Who flushes: a due batch, a get_lineage, and the node's shutdown.
Flushers == {"pool", "reader", "shutdown"}

VARIABLES
  now,       \* the clock
  stage,     \* each query: "new", "running" or "done", once it has emitted
  began,     \* when it began
  buffer,    \* LineageWriter: the serialized events
  spawned,   \* is a flush waiting for the blocking pool?
  flush,     \* each flush: where it is, its batch and the batch's stamp
  files,     \* the .jsonl files of the pond's lineage directory
  fails, crashes,
  backend,   \* is a backend configured?
  queue,     \* HttpSink: events to be posted
  poster,    \* post_loop: "pop", "empty", "parked" or "posting"; "ended" without a backend
  posting,   \* the event being posted
  work, progress,               \* the permits of the two Notify
  enqueued, posted, dropped,    \* the sink's counters
  phase,     \* the node: "serving", "flushing", "draining" or "exited"
  target,    \* drain: what it waits for
  walk,      \* the client that pages backwards through the trail
  recorded,  \* history: every event the writer was handed, in order
  lost       \* history: events trimmed from the buffer, or gone in a crash

clockVars == <<now, stage, began>>
writerVars == <<buffer, spawned, flush, files, fails>>
sinkVars == <<backend, queue, poster, posting, work, progress, enqueued, posted, dropped>>
nodeVars == <<phase, target>>
vars == <<clockVars, writerVars, sinkVars, nodeVars, crashes, walk, recorded, lost>>

Elements(s) == {s[i] : i \in DOMAIN s}
Visible == UNION {Elements(f.events) : f \in files}
InFlight == UNION {Elements(flush[f].batch) : f \in Flushers}

-----------------------------------------------------------------------------
(* The events of a query. *)

\* terminal: a query that was cut neither completed nor failed.
Terminal(error) ==
  CASE error = "none" -> [type |-> "COMPLETE", outcome |-> "ok"]
    [] error \in {"cancelled", "timeout"} -> [type |-> "ABORT", outcome |-> "cancelled"]
    [] OTHER -> [type |-> "FAIL", outcome |-> "error"]

\* facets::identity: there is a subject exactly when the caller is verified.
IdentityFacet(q) == IF q \in Verified THEN q ELSE None

\* RunEvent::at, with the facets of its run and the datasets it carries.
RunEvent(q, type, time, outcome, message, outputs) ==
  [run |-> q, type |-> type, time |-> time, subject |-> IdentityFacet(q),
   outcome |-> outcome, message |-> message, outputs |-> outputs]

\* record: the START is dated back to when the query began and has no outputs; an
\* error's terminal event carries its message, and no datasets.
Record(q) ==
  LET t == Terminal(ErrorOf[q])
  IN  <<RunEvent(q, "START", began[q], None, FALSE, {}),
        RunEvent(q, t.type, now, t.outcome, ErrorOf[q] # "none",
                 IF q \in Writing /\ ErrorOf[q] = "none" THEN {q} ELSE {})>>

-----------------------------------------------------------------------------

Idle == [at |-> "idle", batch |-> <<>>, stamp |-> 0]
NoWalk == [at |-> "idle", cursor |-> None, seen |-> <<>>, all |-> {}, asked |-> {}, orderly |-> TRUE, between |-> TRUE]

Init ==
  /\ now = 0 /\ began = [q \in Queries |-> 0] /\ stage = [q \in Queries |-> "new"]
  /\ buffer = <<>> /\ spawned = FALSE
  /\ flush = [f \in Flushers |-> Idle]
  /\ files = {} /\ fails = 0 /\ crashes = 0
  /\ backend \in Backends
  /\ queue = <<>> /\ poster = (IF backend THEN "pop" ELSE "ended") /\ posting = None
  /\ work = FALSE /\ progress = FALSE
  /\ enqueued = 0 /\ posted = 0 /\ dropped = 0
  /\ phase = "serving" /\ target = 0
  /\ walk = NoWalk
  /\ recorded = <<>> /\ lost = {}

Tick ==
  /\ now < MaxTime /\ phase # "exited"
  /\ now' = now + 1
  /\ UNCHANGED <<stage, began, writerVars, sinkVars, nodeVars, crashes, walk, recorded, lost>>

Begin(q) ==
  /\ phase # "exited" /\ stage[q] = "new"
  /\ stage' = [stage EXCEPT ![q] = "running"]
  /\ began' = [began EXCEPT ![q] = now]
  /\ UNCHANGED <<now, writerVars, sinkVars, nodeVars, crashes, walk, recorded, lost>>

-----------------------------------------------------------------------------
(* The writer. *)

\* enforce_capacity: the oldest events go.
EnforceCapacity(events) ==
  IF Len(events) > Capacity THEN SubSeq(events, Len(events) - Capacity + 1, Len(events)) ELSE events

\* Mutant: the full queue refuses the event it is offered, uncounted.
PushRefusing(events) ==
  LET room == IF Len(queue) >= QueueCapacity THEN <<>> ELSE events
  IN  [queue |-> queue \o room, dropped |-> dropped]

\* Shared::push, for each event in turn: the oldest goes when the queue is full.
Push(events) ==
  LET all == queue \o events
      excess == IF Len(all) > QueueCapacity THEN Len(all) - QueueCapacity ELSE 0
  IN  [queue |-> SubSeq(all, excess + 1, Len(all)), dropped |-> dropped + excess]

\* Mutant: the wakeup is lost unless the poster is already waiting.
SubmitWaking(events) ==
  IF backend
  THEN LET p == Push(events)
       IN  /\ queue' = p.queue /\ dropped' = p.dropped
           /\ enqueued' = enqueued + Len(events)
           /\ work' = (work \/ poster = "parked")
           /\ UNCHANGED <<backend, poster, posting, progress, posted>>
  ELSE UNCHANGED sinkVars

\* EventSink::submit: push, then a permit for the poster.
Submit(events) ==
  IF backend
  THEN LET p == Push(events)
       IN  /\ queue' = p.queue /\ dropped' = p.dropped
           /\ enqueued' = enqueued + Len(events)
           /\ work' = TRUE
           /\ UNCHANGED <<backend, poster, posting, progress, posted>>
  ELSE UNCHANGED sinkVars

\* buffer_all: both events to the sink, and then into the buffer under its lock.  The
\* two share nothing and nothing reads both, so they are one step.
BufferAll(events) ==
  /\ Submit(events)
  /\ buffer' = EnforceCapacity(buffer \o events)
  /\ recorded' = recorded \o events
  /\ lost' = lost \cup (Elements(buffer \o events) \ Elements(buffer'))

\* emit_lineage: record, and a flush on the blocking pool when a batch is due.
EmitLineage(q) ==
  /\ phase # "exited" /\ stage[q] = "running"
  /\ BufferAll(Record(q))
  /\ spawned' = (spawned \/ Len(buffer') >= BatchSize)
  /\ stage' = [stage EXCEPT ![q] = "done"]
  /\ UNCHANGED <<now, began, flush, files, fails, nodeVars, crashes, walk>>

\* take_batch: everything buffered, stamped while the lock is held.
TakeBatch(f) ==
  /\ flush' = [flush EXCEPT ![f] = IF buffer = <<>> THEN Idle
                                   ELSE [at |-> "drained", batch |-> buffer, stamp |-> now]]
  /\ buffer' = <<>>

\* The flush of a due batch gets its thread.
PoolFlush ==
  /\ spawned /\ flush["pool"].at = "idle" /\ phase # "exited"
  /\ spawned' = FALSE
  /\ TakeBatch("pool")
  /\ UNCHANGED <<clockVars, files, fails, sinkVars, nodeVars, crashes, walk, recorded, lost>>

\* write_and_sync, first half: the temporary file is created and filled.
WriteTemp(f) ==
  /\ flush[f].at = "drained"
  /\ flush' = [flush EXCEPT ![f].at = "written"]
  /\ UNCHANGED <<clockVars, buffer, spawned, files, fails, sinkVars, nodeVars, crashes, walk, recorded, lost>>

\* write_and_sync, second half: its bytes are durable.
SyncTemp(f) ==
  /\ flush[f].at = "written"
  /\ flush' = [flush EXCEPT ![f].at = "synced"]
  /\ UNCHANGED <<clockVars, buffer, spawned, files, fails, sinkVars, nodeVars, crashes, walk, recorded, lost>>

\* The random part of a file's name: it places the file anywhere among those of
\* the same millisecond.
Unused == {n \in 1..(Cardinality(files) + 1) : \A g \in files : g.name # n}

\* write_batch: the rename makes the batch visible.
Rename(f) ==
  /\ flush[f].at = "synced"
  /\ \E n \in Unused :
       files' = files \cup {[stamp |-> flush[f].stamp, name |-> n, events |-> flush[f].batch]}
  /\ flush' = [flush EXCEPT ![f] = Idle]
  /\ UNCHANGED <<clockVars, buffer, spawned, fails, sinkVars, nodeVars, crashes, walk, recorded, lost>>

\* Mutant: a batch that could not be written is dropped.
RequeueDrops(f) ==
  /\ flush[f].at # "idle" /\ fails < MaxFails
  /\ fails' = fails + 1
  /\ flush' = [flush EXCEPT ![f] = Idle]
  /\ UNCHANGED <<clockVars, buffer, spawned, files, sinkVars, nodeVars, crashes, walk, recorded, lost>>

\* write_or_requeue: a step failed; the batch goes back to the front.
Requeue(f) ==
  /\ flush[f].at # "idle" /\ fails < MaxFails
  /\ fails' = fails + 1
  /\ buffer' = EnforceCapacity(flush[f].batch \o buffer)
  /\ lost' = lost \cup (Elements(flush[f].batch \o buffer) \ Elements(buffer'))
  /\ flush' = [flush EXCEPT ![f] = Idle]
  /\ UNCHANGED <<clockVars, spawned, files, sinkVars, nodeVars, crashes, walk, recorded>>

-----------------------------------------------------------------------------
(* The reader. *)

\* newest_names: the greatest names first, as many as a read examines.
NewestNames ==
  LET Later(f, g) == f.stamp > g.stamp \/ (f.stamp = g.stamp /\ f.name > g.name)
      all == SetToSortSeq(files, Later)
  IN  [names |-> SubSeq(all, 1, IF Len(all) > MaxNames THEN MaxNames ELSE Len(all)),
       skipped |-> Len(all) > MaxNames]

\* selected: strictly before the cursor.
Selected(event, before) == before = None \/ event.time < before

\* read_tail: the last `need` selected events of a file, and the time of the newest
\* selected one that is not among them.
ReadTail(file, need, before) ==
  LET picked == SelectSeq(file.events, LAMBDA e : Selected(e, before))
      extra == IF Len(picked) > need THEN Len(picked) - need ELSE 0
  IN  [ring |-> SubSeq(picked, extra + 1, Len(picked)),
       dropped |-> IF extra > 0 THEN picked[extra].time ELSE None]

\* Mutant: the page is cut by count alone.
CutNowhere(events, boundary) == events

\* cut_on_a_timestamp_boundary: no event of the first excluded one's time stays,
\* unless that would empty the page.
CutOnATimestampBoundary(events, boundary) ==
  LET sharing == {i \in DOMAIN events : events[i].time = boundary}
      keep == IF boundary = None \/ sharing = {} THEN Len(events)
              ELSE (CHOOSE i \in sharing : \A j \in sharing : i <= j) - 1
  IN  IF keep > 0 THEN SubSeq(events, 1, keep) ELSE events

\* One file's contribution to the page read so far.
AddFile(page, file, before) ==
  IF page.full THEN page
  ELSE LET tail == ReadTail(file, Limit - Len(page.events) + 1, before)
           newest == Reverse(tail.ring)
           room == Limit - Len(page.events)
           taken == SubSeq(newest, 1, IF Len(newest) > room THEN room ELSE Len(newest))
           excluded == IF Len(newest) > room THEN newest[room + 1].time ELSE tail.dropped
       IN  [events |-> page.events \o taken, excluded |-> excluded, full |-> excluded # None]

\* read_newest: the newest files until the page is full, cut between two times.
ReadNewest(before) ==
  LET listing == NewestNames
      page == FoldLeft(LAMBDA p, f : AddFile(p, f, before),
                       [events |-> <<>>, excluded |-> None, full |-> FALSE], listing.names)
  IN  [events |-> CutOnATimestampBoundary(page.events, page.excluded),
       truncated |-> listing.skipped \/ page.full]

\* Mutant: the buffered events are not flushed before the read.
AskUnflushed ==
  /\ phase = "serving" /\ walk.at \in {"idle", "page"} /\ flush["reader"].at = "idle"
  /\ walk' = [walk EXCEPT !.at = "flushing", !.asked = Elements(recorded),
                          !.all = IF walk.at = "idle" THEN Visible ELSE @]
  /\ UNCHANGED <<clockVars, writerVars, sinkVars, nodeVars, crashes, recorded, lost>>

\* get_lineage, first half: this pond's writer is flushed.
Ask ==
  /\ phase = "serving" /\ walk.at \in {"idle", "page"} /\ flush["reader"].at = "idle"
  /\ TakeBatch("reader")
  /\ walk' = [walk EXCEPT !.at = "flushing", !.asked = Elements(recorded),
                          !.all = IF walk.at = "idle" THEN Visible ELSE @]
  /\ UNCHANGED <<clockVars, spawned, files, fails, sinkVars, nodeVars, crashes, recorded, lost>>

\* Is the trail, newest file and newest line first, in the order of its times?
InOrder ==
  LET trail == FlattenSeq([i \in DOMAIN NewestNames.names |-> Reverse(NewestNames.names[i].events)])
  IN  \A i, j \in DOMAIN trail : i < j => trail[i].time >= trail[j].time

\* get_lineage, second half: a page.  The client goes on from the oldest time on it,
\* until a page is not truncated.
ReadPage ==
  /\ walk.at = "flushing" /\ flush["reader"].at = "idle" /\ phase # "exited"
  /\ LET page == ReadNewest(walk.cursor)
         times == {e.time : e \in Elements(page.events)}
         oneTime == page.truncated /\ Cardinality(times) < 2
     IN  walk' = [walk EXCEPT !.at = IF page.truncated /\ times # {} THEN "page" ELSE "over",
                              !.seen = @ \o page.events,
                              !.cursor = IF times = {} THEN @ ELSE CHOOSE t \in times : \A u \in times : t <= u,
                              !.orderly = @ /\ InOrder,
                              !.between = @ /\ ~NewestNames.skipped /\ ~oneTime]
  /\ UNCHANGED <<clockVars, writerVars, sinkVars, nodeVars, crashes, recorded, lost>>

-----------------------------------------------------------------------------
(* The sink's poster, a task of the process: it ends with the node. *)

\* post_loop: the next event, or none.
Pop ==
  /\ poster = "pop" /\ phase # "exited"
  /\ \/ /\ queue # <<>>
        /\ posting' = Head(queue) /\ queue' = Tail(queue)
        /\ poster' = "posting"
     \/ /\ queue = <<>>
        /\ poster' = "empty"
        /\ UNCHANGED <<posting, queue>>
  /\ UNCHANGED <<clockVars, writerVars, nodeVars, crashes, walk, recorded, lost,
                 backend, work, progress, enqueued, posted, dropped>>

\* The poster has seen the queue empty, and only now begins to wait.
Park ==
  /\ poster = "empty" /\ phase # "exited"
  /\ poster' = "parked"
  /\ UNCHANGED <<clockVars, writerVars, nodeVars, crashes, walk, recorded, lost,
                 backend, queue, posting, work, progress, enqueued, posted, dropped>>

\* A permit, kept from before the wait or given during it, ends the wait.
Wake ==
  /\ poster = "parked" /\ work /\ phase # "exited"
  /\ poster' = "pop" /\ work' = FALSE
  /\ UNCHANGED <<clockVars, writerVars, nodeVars, crashes, walk, recorded, lost,
                 backend, queue, posting, progress, enqueued, posted, dropped>>

\* The POST is answered, refused or timed out: it is counted, and not retried.
Posted ==
  /\ poster = "posting" /\ phase # "exited"
  /\ poster' = "pop" /\ posting' = None
  /\ posted' = posted + 1 /\ progress' = TRUE
  /\ UNCHANGED <<clockVars, writerVars, nodeVars, crashes, walk, recorded, lost,
                 backend, queue, work, enqueued, dropped>>

\* Shared::settled.
Settled == posted + dropped

-----------------------------------------------------------------------------
(* Stopping. *)

\* shutdown_lineage: the signal arrives; every writer is flushed.
Shutdown ==
  /\ phase = "serving"
  /\ phase' = "flushing"
  /\ TakeBatch("shutdown")
  /\ UNCHANGED <<clockVars, spawned, files, fails, sinkVars, target, crashes, walk, recorded, lost>>

\* The flush is done, and EventSink::drain snapshots what it waits for.
DrainBegins ==
  /\ phase = "flushing" /\ flush["shutdown"].at = "idle"
  /\ phase' = "draining" /\ target' = enqueued
  /\ UNCHANGED <<clockVars, writerVars, sinkVars, crashes, walk, recorded, lost>>

\* drain wakes, by progress or by its timer, and goes round its loop.
DrainWakes ==
  /\ phase = "draining" /\ progress /\ Settled < target
  /\ progress' = FALSE
  /\ UNCHANGED <<clockVars, writerVars, nodeVars, crashes, walk, recorded, lost,
                 backend, queue, poster, posting, work, enqueued, posted, dropped>>

\* The node exits: everything is settled, or the budget is spent.  A flush that has
\* its thread runs to its end; one still spawned is forgotten.
Exit ==
  /\ phase = "draining"
  /\ flush["pool"].at = "idle" /\ flush["reader"].at = "idle"
  /\ phase' = "exited"
  /\ UNCHANGED <<clockVars, writerVars, sinkVars, target, crashes, walk, recorded, lost>>

\* The flush outlasts the budget: the node exits without it.
BudgetSpent ==
  /\ phase = "flushing" /\ flush["shutdown"].at # "idle" /\ fails < MaxFails
  /\ fails' = fails + 1
  /\ phase' = "exited"
  /\ UNCHANGED <<clockVars, buffer, spawned, flush, files, sinkVars, target, crashes, walk, recorded, lost>>

\* The process is killed and started again.  A file whose directory entry was not
\* durable may be gone.
Crash ==
  /\ phase # "exited" /\ crashes < MaxCrashes
  /\ crashes' = crashes + 1
  /\ \E kept \in SUBSET files : files' = kept
  /\ lost' = lost \cup (Elements(recorded) \ UNION {Elements(f.events) : f \in files'})
  /\ buffer' = <<>> /\ spawned' = FALSE /\ flush' = [f \in Flushers |-> Idle]
  /\ queue' = <<>> /\ posting' = None /\ poster' = (IF backend THEN "pop" ELSE "ended")
  /\ work' = FALSE /\ progress' = FALSE
  /\ enqueued' = 0 /\ posted' = 0 /\ dropped' = 0
  /\ phase' = "serving" /\ target' = 0
  /\ stage' = [q \in Queries |-> IF stage[q] = "new" THEN "new" ELSE "done"]
  /\ walk' = NoWalk
  /\ UNCHANGED <<now, began, fails, backend, recorded>>

Next ==
  \/ Tick \/ PoolFlush \/ Ask \/ ReadPage
  \/ Pop \/ Park \/ Wake \/ Posted
  \/ Shutdown \/ DrainBegins \/ DrainWakes \/ Exit \/ BudgetSpent \/ Crash
  \/ \E q \in Queries : Begin(q) \/ EmitLineage(q)
  \/ \E f \in Flushers : WriteTemp(f) \/ SyncTemp(f) \/ Rename(f) \/ Requeue(f)

\* The runtime runs the poster, every flush and the timers.
Fairness ==
  /\ WF_vars(Pop) /\ WF_vars(Park) /\ WF_vars(Wake) /\ WF_vars(Posted)
  /\ WF_vars(DrainBegins) /\ WF_vars(Exit)
  /\ \A f \in Flushers : WF_vars(WriteTemp(f)) /\ WF_vars(SyncTemp(f)) /\ WF_vars(Rename(f))

Spec == Init /\ [][Next]_vars /\ Fairness

-----------------------------------------------------------------------------
(* Properties. *)

\* An event the writer accepted is in one place: the buffer, a batch being written,
\* or a file, unless the full buffer shed it or a crash took it (writer.rs,
\* write_or_requeue against a concurrent record and flush).
Conserved ==
  /\ \A e \in Elements(recorded) \ lost : e \in Elements(buffer) \cup InFlight \cup Visible
  /\ Cardinality(Elements(buffer)) = Len(buffer)
  /\ Elements(buffer) \cap (InFlight \cup Visible) = {}
  /\ InFlight \cap Visible = {}

\* What the sink took is posted, dropped, queued or being posted: its gauges add up
\* (sink.rs, push and post_loop).
SinkAccounts ==
  enqueued = posted + dropped + Len(queue) + (IF posting = None THEN 0 ELSE 1)

\* A get_lineage sees every event recorded before it was asked, but for those
\* shed, those another flush still holds, and those it could not write (ops.rs,
\* get_lineage_local flushing first).
SeesOwnQuery ==
  [][(walk.at = "flushing" /\ walk'.at \in {"page", "over"}) =>
        fails > 0 \/ walk.asked \subseteq Visible \cup lost \cup InFlight]_vars

\* Paging backwards visits every event that was there once, as long as the times
\* follow the order of the files and no page is one single time (reader.rs,
\* cut_on_a_timestamp_boundary).
OrderedWalkIsExact ==
  (walk.at = "over" /\ walk.orderly /\ walk.between) =>
     \A e \in walk.all : Cardinality({i \in DOMAIN walk.seen : walk.seen[i] = e}) = 1

\* The poster never sleeps on a queue: what is queued is posted or evicted, unless
\* the node exits first, past its budget, and the backlog is lost with it (sink.rs,
\* notify_one keeping a permit for a poster that is about to wait; drain).
QueueMoves == (queue # <<>>) ~> (queue = <<>> \/ phase = "exited")

=============================================================================
