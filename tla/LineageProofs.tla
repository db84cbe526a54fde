--------------------------- MODULE LineageProofs ---------------------------
(***************************************************************************)
(* What TLAPS proves of the lineage trail, for every set of queries, every *)
(* buffer, batch and queue size and every clock: the sink's gauges add up, *)
(* an event the writer accepted is in one place, and a get_lineage sees    *)
(* what was recorded before it.                                            *)
(*                                                                         *)
(* The sink's account needs only the types and that the poster holds an    *)
(* event exactly while it posts one (SinkInv).  The trail needs more: an   *)
(* idle flush holds nothing, so taking a batch overwrites nothing; every   *)
(* part of the trail is free of repetitions and apart from every other;    *)
(* and what is in it comes from queries that are done, so the next query's *)
(* events are new (TrailInv).                                              *)
(***************************************************************************)
EXTENDS Lineage, FiniteSetTheorems, TLAPS

Flush == [at : {"idle", "drained", "written", "synced"}, batch : Seq(Event), stamp : Nat]

\* The fields of the walk: what it has seen is the reader's business.
WalkFields == {"at", "cursor", "seen", "all", "asked", "orderly", "between"}

TypeOK ==
  /\ now \in Nat /\ began \in [Queries -> Nat]
  /\ stage \in [Queries -> {"new", "running", "done"}]
  /\ buffer \in Seq(Event) /\ recorded \in Seq(Event)
  /\ flush \in [Flushers -> Flush]
  /\ \A g \in files : g.events \in Seq(Event)
  /\ fails \in Nat /\ queue \in Seq(Event) /\ posting \in Event \cup {None}
  /\ enqueued \in Nat /\ posted \in Nat /\ dropped \in Nat
  /\ walk = [x \in WalkFields |-> walk[x]]

\* The poster holds an event exactly while it posts one, and the account adds up.
SinkInv == (poster = "posting" <=> posting # None) /\ SinkAccounts

\* No event twice.
Once(s) == \A i, j \in DOMAIN s : s[i] = s[j] => i = j

\* Nothing is in two places, and an idle flush holds nothing.
ApartInv ==
  /\ Once(buffer)
  /\ \A f \in Flushers :
       /\ flush[f].at = "idle" => flush[f].batch = <<>>
       /\ Once(flush[f].batch)
       /\ Elements(flush[f].batch) \cap Elements(buffer) = {}
       /\ Elements(flush[f].batch) \cap Visible = {}
       /\ \A g \in Flushers \ {f} : Elements(flush[f].batch) \cap Elements(flush[g].batch) = {}
  /\ Elements(buffer) \cap Visible = {}
  /\ phase = "serving" => flush["shutdown"].at = "idle"

\* What the trail holds comes from queries that have emitted.
DoneInv == \A e \in Elements(buffer) \cup InFlight \cup Visible : stage[e.run] = "done"

\* What the writer was handed is held, or known to be lost.
KeptInv == Elements(recorded) \subseteq Elements(buffer) \cup InFlight \cup Visible \cup lost

TrailInv == TypeOK /\ ApartInv /\ DoneInv /\ KeptInv

\* Between a get_lineage and its page, what it was asked after has left the buffer.
AskedInv == walk.at = "flushing" => fails > 0 \/ walk.asked \subseteq Visible \cup lost \cup InFlight

-----------------------------------------------------------------------------
(* Sequences without repetitions. *)

\* A sequence without repetitions has as many elements as places.
LEMMA OnceCounts ==
  ASSUME NEW S, NEW s \in Seq(S), Once(s)
  PROVE  Cardinality(Elements(s)) = Len(s)
<1>1. s \in Bijection(1..Len(s), Elements(s))
  <2>1. s \in [1..Len(s) -> Elements(s)]
    BY DEF Elements
  <2>2. \A i, j \in 1..Len(s) : s[i] = s[j] => i = j
    BY DEF Once
  <2>3. \A e \in Elements(s) : \E i \in 1..Len(s) : s[i] = e
    BY DEF Elements
  <2> QED BY <2>1, <2>2, <2>3 DEF Bijection, Injection, Surjection, IsInjective
<1>2. Len(s) \in Nat
  OBVIOUS
<1> QED BY <1>1, <1>2, FS_CountingElements DEF ExistsBijection

\* What a concatenation holds.
LEMMA ElementsOfBoth ==
  ASSUME NEW S, NEW s \in Seq(S), NEW t \in Seq(S)
  PROVE  Elements(s \o t) = Elements(s) \cup Elements(t)
<1>1. \A i \in DOMAIN s : (s \o t)[i] = s[i] /\ i \in DOMAIN (s \o t)
  OBVIOUS
<1>2. \A i \in DOMAIN t : (s \o t)[Len(s) + i] = t[i] /\ Len(s) + i \in DOMAIN (s \o t)
  OBVIOUS
<1>3. ASSUME NEW i \in DOMAIN (s \o t), i \notin DOMAIN s
      PROVE  i - Len(s) \in DOMAIN t /\ (s \o t)[i] = t[i - Len(s)]
  BY <1>3
<1>4. Elements(s \o t) \subseteq Elements(s) \cup Elements(t)
  BY <1>1, <1>3 DEF Elements
<1>5. Elements(s) \subseteq Elements(s \o t)
  BY <1>1 DEF Elements
<1>6. Elements(t) \subseteq Elements(s \o t)
  BY <1>2 DEF Elements
<1> QED BY <1>4, <1>5, <1>6

\* Two sequences without repetitions that share nothing make one.
LEMMA OnceBoth ==
  ASSUME NEW S, NEW s \in Seq(S), NEW t \in Seq(S), Once(s), Once(t),
         Elements(s) \cap Elements(t) = {}
  PROVE  Once(s \o t)
<1> SUFFICES ASSUME NEW i \in DOMAIN (s \o t), NEW j \in DOMAIN (s \o t), (s \o t)[i] = (s \o t)[j]
             PROVE  i = j
  BY DEF Once
<1>1. CASE i \in DOMAIN s /\ j \in DOMAIN s
  BY <1>1 DEF Once
<1>2. CASE i \in DOMAIN s /\ j \notin DOMAIN s
  <2>1. (s \o t)[i] = s[i] /\ (s \o t)[j] = t[j - Len(s)] /\ j - Len(s) \in DOMAIN t
    BY <1>2
  <2> QED BY <1>2, <2>1 DEF Elements
<1>3. CASE i \notin DOMAIN s /\ j \in DOMAIN s
  <2>1. (s \o t)[j] = s[j] /\ (s \o t)[i] = t[i - Len(s)] /\ i - Len(s) \in DOMAIN t
    BY <1>3
  <2> QED BY <1>3, <2>1 DEF Elements
<1>4. CASE i \notin DOMAIN s /\ j \notin DOMAIN s
  <2>1. /\ (s \o t)[i] = t[i - Len(s)] /\ i - Len(s) \in DOMAIN t /\ i \in Nat
        /\ (s \o t)[j] = t[j - Len(s)] /\ j - Len(s) \in DOMAIN t /\ j \in Nat
    BY <1>4
  <2>2. i - Len(s) = j - Len(s)
    BY <2>1 DEF Once
  <2> QED BY <2>1, <2>2
<1> QED BY <1>1, <1>2, <1>3, <1>4

\* enforce_capacity keeps a suffix.
LEMMA Trimmed ==
  ASSUME NEW s \in Seq(Event)
  PROVE  /\ EnforceCapacity(s) \in Seq(Event)
         /\ Elements(EnforceCapacity(s)) \subseteq Elements(s)
         /\ Once(s) => Once(EnforceCapacity(s))
<1> DEFINE d == Len(s) - Capacity
           r == SubSeq(s, d + 1, Len(s))
<1>0. Capacity \in Nat \ {0} /\ Len(s) \in Nat
  BY LineageAssumption
<1>1. CASE Len(s) > Capacity
  <2>1. d \in Nat /\ d + 1 \in 1..Len(s) /\ Len(s) - d = Capacity
    BY <1>0, <1>1
  <2>2. r \in Seq(Event) /\ Len(r) = Len(s) - d
    BY <2>1
  <2>3. \A i \in DOMAIN r : r[i] = s[d + i] /\ d + i \in DOMAIN s /\ i \in Nat
    BY <2>1, <2>2
  <2>4. Elements(r) \subseteq Elements(s)
    BY <2>3 DEF Elements
  <2>5. ASSUME Once(s), NEW i \in DOMAIN r, NEW j \in DOMAIN r, r[i] = r[j]
        PROVE  i = j
    <3>1. d + i = d + j
      BY <2>3, <2>5 DEF Once
    <3> QED BY <3>1, <2>1, <2>3
  <2>6. EnforceCapacity(s) = r
    BY <1>1 DEF EnforceCapacity
  <2>7. Once(s) => Once(r)
    BY <2>5 DEF Once
  <2> HIDE DEF r, d
  <2> QED BY <2>2, <2>4, <2>6, <2>7
<1>2. CASE ~(Len(s) > Capacity)
  BY <1>2 DEF EnforceCapacity
<1> QED BY <1>1, <1>2

\* A query leaves two events, its START and its end, both under its name.
LEMMA RecordIsTwo ==
  ASSUME TypeOK, NEW q \in Queries
  PROVE  /\ Record(q) \in Seq(Event) /\ Len(Record(q)) = 2 /\ Once(Record(q))
         /\ \A e \in Elements(Record(q)) : e.run = q
<1> DEFINE t == Terminal(ErrorOf[q])
           a == RunEvent(q, "START", began[q], None, FALSE, {})
           o == IF q \in Writing /\ ErrorOf[q] = "none" THEN {q} ELSE {}
           m == ErrorOf[q] # "none"
           b == RunEvent(q, t.type, now, t.outcome, m, o)
<1>1. t.type \in {"COMPLETE", "ABORT", "FAIL"} /\ t.outcome \in {"ok", "cancelled", "error"}
  BY LineageAssumption DEF Terminal
<1>2. IdentityFacet(q) \in Queries \cup {None}
  BY DEF IdentityFacet
<1>3. o \in SUBSET Queries /\ m \in BOOLEAN
  OBVIOUS
<1>4. a \in Event /\ a.run = q /\ a.type = "START"
  BY <1>2 DEF RunEvent, Event, TypeOK
<1> HIDE DEF t, o, m
<1>5. b \in Event /\ b.run = q /\ b.type # "START"
  BY <1>1, <1>2, <1>3 DEF RunEvent, Event, TypeOK
<1>6. Record(q) = <<a, b>>
  BY DEF Record, t, o, m
<1> HIDE DEF a, b
<1>7. a # b
  BY <1>4, <1>5
<1> QED BY <1>4, <1>5, <1>6, <1>7 DEF Once, Elements

-----------------------------------------------------------------------------
(* The sink. *)

\* push: what the full queue sheds is counted.
LEMMA PushCounts ==
  ASSUME TypeOK, NEW events \in Seq(Event)
  PROVE  LET p == Push(events)
         IN  /\ p.queue \in Seq(Event) /\ p.dropped \in Nat
             /\ p.dropped + Len(p.queue) = dropped + Len(queue) + Len(events)
<1> DEFINE all == queue \o events
           excess == IF Len(all) > QueueCapacity THEN Len(all) - QueueCapacity ELSE 0
           rest == SubSeq(all, excess + 1, Len(all))
<1>1. all \in Seq(Event) /\ Len(all) = Len(queue) + Len(events)
  BY DEF TypeOK
<1>2. excess \in Nat /\ excess <= Len(all) /\ Len(all) \in Nat
  BY <1>1, LineageAssumption
<1> HIDE DEF excess, all
<1>3. rest \in Seq(Event) /\ Len(rest) = Len(all) - excess
  BY <1>1, <1>2
<1>4. Push(events) = [queue |-> rest, dropped |-> dropped + excess]
  BY DEF Push, rest, all, excess
<1> HIDE DEF rest
<1>5. Len(rest) \in Nat /\ dropped \in Nat /\ Len(queue) \in Nat /\ Len(events) \in Nat
  BY <1>3 DEF TypeOK
<1>6. Push(events).queue = rest /\ Push(events).dropped = dropped + excess
  BY <1>4
<1>7. (dropped + excess) + (Len(all) - excess) = dropped + Len(all) /\ dropped + excess \in Nat
  BY <1>2, <1>5
<1> QED BY <1>1, <1>3, <1>5, <1>6, <1>7

\* What an emission leaves of the types.
LEMMA EmitTyped ==
  ASSUME TypeOK, NEW q \in Queries, EmitLineage(q)
  PROVE  TypeOK'
<1> DEFINE r == Record(q)
<1>1. r \in Seq(Event)
  BY RecordIsTwo
<1> HIDE DEF r
<1>2. BufferAll(r)
  BY DEF EmitLineage, r
<1>3. buffer \o r \in Seq(Event) /\ recorded \o r \in Seq(Event) /\ Len(r) \in Nat
  BY <1>1 DEF TypeOK
<1>4. buffer' \in Seq(Event) /\ recorded' \in Seq(Event)
  BY <1>2, <1>3, Trimmed DEF BufferAll
<1>5. queue' \in Seq(Event) /\ dropped' \in Nat /\ enqueued' \in Nat
  <2>1. CASE backend
    <3>1. Push(r).queue \in Seq(Event) /\ Push(r).dropped \in Nat
      BY <1>1, PushCounts
    <3>2. queue' = Push(r).queue /\ dropped' = Push(r).dropped /\ enqueued' = enqueued + Len(r)
      BY <1>2, <2>1 DEF BufferAll, Submit
    <3> QED BY <1>3, <3>1, <3>2 DEF TypeOK
  <2>2. CASE ~backend
    BY <1>2, <2>2 DEF BufferAll, Submit, TypeOK, sinkVars
  <2> QED BY <2>1, <2>2
<1>6. UNCHANGED <<posting, posted, now, began, flush, files, fails, walk>>
  BY <1>2 DEF BufferAll, Submit, EmitLineage, sinkVars
<1>7. stage' \in [Queries -> {"new", "running", "done"}]
  BY DEF EmitLineage, TypeOK
<1> QED BY <1>4, <1>5, <1>6, <1>7 DEF TypeOK

\* take_batch keeps the types.
LEMMA TakeTyped ==
  ASSUME TypeOK, NEW f \in Flushers, TakeBatch(f)
  PROVE  buffer' \in Seq(Event) /\ flush' \in [Flushers -> Flush]
<1>1. Idle \in Flush
  BY DEF Idle, Flush
<1>2. [at |-> "drained", batch |-> buffer, stamp |-> now] \in Flush
  BY DEF Flush, TypeOK
<1> QED BY <1>1, <1>2 DEF TakeBatch, TypeOK

\* The types are kept by every step.
LEMMA TypeStep ==
  ASSUME TypeOK, [Next]_vars
  PROVE  TypeOK'
<1> USE DEF clockVars, writerVars, sinkVars, nodeVars
<1>0. CASE UNCHANGED vars
  BY <1>0 DEF vars, TypeOK
<1>1. CASE Tick
  BY <1>1 DEF Tick, TypeOK
<1>2. CASE PoolFlush
  <2>1. "pool" \in Flushers
    BY DEF Flushers
  <2> QED BY <1>2, <2>1, TakeTyped DEF PoolFlush, TypeOK
<1>3. CASE Ask
  <2>1. "reader" \in Flushers
    BY DEF Flushers
  <2>2. buffer' \in Seq(Event) /\ flush' \in [Flushers -> Flush]
    BY <1>3, <2>1, TakeTyped DEF Ask
  <2>3. walk' = [x \in WalkFields |-> walk'[x]]
    BY <1>3 DEF Ask, TypeOK, WalkFields
  <2> QED BY <1>3, <2>2, <2>3 DEF Ask, TypeOK
<1>4. CASE ReadPage
  <2>1. walk' = [x \in WalkFields |-> walk'[x]]
    <3>1. PICK a, s, c, o, b : walk' = [walk EXCEPT !.at = a, !.seen = s, !.cursor = c,
                                                    !.orderly = o, !.between = b]
      BY <1>4, Zenon DEF ReadPage
    <3> QED BY <3>1 DEF TypeOK, WalkFields
  <2> QED BY <1>4, <2>1 DEF ReadPage, TypeOK
<1>5. CASE Pop
  <2>1. CASE queue = <<>>
    BY <1>5, <2>1 DEF Pop, TypeOK
  <2>2. CASE queue # <<>>
    <3>1. Head(queue) \in Event /\ Tail(queue) \in Seq(Event)
      BY <2>2 DEF TypeOK
    <3> QED BY <1>5, <2>2, <3>1 DEF Pop, TypeOK
  <2> QED BY <2>1, <2>2
<1>6. CASE Park \/ Wake
  BY <1>6 DEF Park, Wake, TypeOK
<1>7. CASE Posted
  BY <1>7 DEF Posted, TypeOK
<1>8. CASE Shutdown
  <2>1. "shutdown" \in Flushers
    BY DEF Flushers
  <2> QED BY <1>8, <2>1, TakeTyped DEF Shutdown, TypeOK
<1>9. CASE DrainBegins \/ DrainWakes \/ Exit \/ BudgetSpent
  BY <1>9 DEF DrainBegins, DrainWakes, Exit, BudgetSpent, TypeOK
<1>10. CASE Crash
  <2>1. Idle \in Flush
    BY DEF Idle, Flush
  <2>2. walk' = [x \in WalkFields |-> walk'[x]]
    BY <1>10 DEF Crash, NoWalk, WalkFields
  <2>3. stage' \in [Queries -> {"new", "running", "done"}]
    BY <1>10 DEF Crash, TypeOK
  <2> QED BY <1>10, <2>1, <2>2, <2>3 DEF Crash, TypeOK
<1>11. ASSUME NEW q \in Queries, Begin(q)
       PROVE  TypeOK'
  BY <1>11 DEF Begin, TypeOK
<1>12. ASSUME NEW q \in Queries, EmitLineage(q)
       PROVE  TypeOK'
  BY <1>12, EmitTyped
<1>13. ASSUME NEW f \in Flushers, WriteTemp(f) \/ SyncTemp(f)
       PROVE  TypeOK'
  BY <1>13 DEF WriteTemp, SyncTemp, TypeOK, Flush
<1>14. ASSUME NEW f \in Flushers, Rename(f)
       PROVE  TypeOK'
  <2>1. PICK n \in Unused :
          files' = files \cup {[stamp |-> flush[f].stamp, name |-> n, events |-> flush[f].batch]}
    BY <1>14 DEF Rename
  <2>2. flush' \in [Flushers -> Flush]
    BY <1>14 DEF Rename, TypeOK, Flush, Idle
  <2>3. flush[f].batch \in Seq(Event)
    BY DEF TypeOK, Flush
  <2>4. \A g \in files' : g.events \in Seq(Event)
    BY <2>1, <2>3 DEF TypeOK
  <2> QED BY <1>14, <2>2, <2>4 DEF Rename, TypeOK
<1>15. ASSUME NEW f \in Flushers, Requeue(f)
       PROVE  TypeOK'
  <2>1. flush' \in [Flushers -> Flush]
    BY <1>15 DEF Requeue, TypeOK, Flush, Idle
  <2>2. flush[f].batch \o buffer \in Seq(Event)
    BY DEF TypeOK, Flush
  <2>3. buffer' \in Seq(Event)
    BY <1>15, <2>2, Trimmed DEF Requeue
  <2> QED BY <1>15, <2>1, <2>3 DEF Requeue, TypeOK
<1> QED BY <1>0, <1>1, <1>2, <1>3, <1>4, <1>5, <1>6, <1>7, <1>8, <1>9, <1>10, <1>11, <1>12,
           <1>13, <1>14, <1>15 DEF Next

\* The types hold at the start.
LEMMA TypeInit == Init => TypeOK
<1> SUFFICES ASSUME Init PROVE TypeOK
  OBVIOUS
<1>1. flush \in [Flushers -> Flush]
  BY DEF Init, Flush, Idle
<1>2. walk = [x \in WalkFields |-> walk[x]]
  BY DEF Init, NoWalk, WalkFields
<1> QED BY <1>1, <1>2 DEF Init, TypeOK

\* The account is kept by every step.
LEMMA SinkStep ==
  ASSUME TypeOK, SinkInv, [Next]_vars
  PROVE  SinkInv'
<1> USE DEF clockVars, writerVars, sinkVars, nodeVars
<1>0. ASSUME UNCHANGED <<queue, poster, posting, enqueued, posted, dropped>>
      PROVE  SinkInv'
  BY <1>0 DEF SinkInv, SinkAccounts
<1>1. CASE Tick \/ PoolFlush \/ Ask \/ ReadPage \/ UNCHANGED vars
  BY <1>0, <1>1 DEF Tick, PoolFlush, Ask, ReadPage, vars
<1>2. CASE Pop
  <2>1. CASE queue # <<>>
    <3>1. Head(queue) \in Event /\ Len(Tail(queue)) = Len(queue) - 1 /\ Len(queue) \in Nat
      BY <2>1 DEF TypeOK
    <3>2. posting = None /\ posting' # None
      BY <1>2, <2>1, <3>1, LineageAssumption DEF Pop, SinkInv
    <3>3. /\ queue' = Tail(queue) /\ poster' = "posting"
          /\ UNCHANGED <<enqueued, posted, dropped>>
      BY <1>2, <2>1 DEF Pop
    <3>4. enqueued = posted + dropped + Len(queue) + 0
      BY <3>2 DEF SinkInv, SinkAccounts
    <3>5. enqueued' = posted' + dropped' + Len(queue') + 1
      BY <3>1, <3>3, <3>4 DEF TypeOK
    <3> QED BY <3>2, <3>3, <3>5 DEF SinkInv, SinkAccounts
  <2>2. CASE queue = <<>>
    BY <1>2, <2>2 DEF Pop, SinkInv, SinkAccounts
  <2> QED BY <2>1, <2>2
<1>3. CASE Park \/ Wake
  BY <1>3 DEF Park, Wake, SinkInv, SinkAccounts
<1>4. CASE Posted
  <2>1. Len(queue) \in Nat
    BY DEF TypeOK
  <2> QED BY <1>4, <2>1 DEF Posted, SinkInv, SinkAccounts, TypeOK
<1>5. CASE Shutdown \/ DrainBegins \/ DrainWakes \/ Exit \/ BudgetSpent
  BY <1>0, <1>5 DEF Shutdown, DrainBegins, DrainWakes, Exit, BudgetSpent
<1>6. CASE Crash
  BY <1>6 DEF Crash, SinkInv, SinkAccounts
<1>7. ASSUME NEW q \in Queries, Begin(q)
      PROVE  SinkInv'
  BY <1>0, <1>7 DEF Begin
<1>8. ASSUME NEW q \in Queries, EmitLineage(q)
      PROVE  SinkInv'
  <2> DEFINE r == Record(q)
  <2>1. r \in Seq(Event)
    BY RecordIsTwo
  <2> HIDE DEF r
  <2>2. Submit(r)
    BY <1>8 DEF EmitLineage, BufferAll, r
  <2>3. CASE ~backend
    BY <1>0, <2>2, <2>3 DEF Submit
  <2>4. CASE backend
    <3> DEFINE p == Push(r)
    <3>1. /\ p.queue \in Seq(Event) /\ p.dropped \in Nat
          /\ p.dropped + Len(p.queue) = dropped + Len(queue) + Len(r)
      BY <2>1, PushCounts
    <3>2. queue' = p.queue /\ dropped' = p.dropped /\ enqueued' = enqueued + Len(r)
          /\ UNCHANGED <<poster, posting, posted>>
      BY <2>2, <2>4 DEF Submit
    <3> HIDE DEF p
    <3>3. Len(p.queue) \in Nat /\ Len(queue) \in Nat /\ Len(r) \in Nat
      BY <3>1, <2>1 DEF TypeOK
    <3>4. PICK h \in Nat : h = IF posting = None THEN 0 ELSE 1
      OBVIOUS
    <3>5. PICK n \in Nat, l1 \in Nat, l2 \in Nat : n = Len(r) /\ l1 = Len(queue) /\ l2 = Len(queue')
      BY <3>2, <3>3
    <3>6. enqueued = posted + dropped + l1 + h
      BY <3>4, <3>5 DEF SinkInv, SinkAccounts
    <3>7. dropped' \in Nat /\ dropped' + l2 = dropped + l1 + n
      BY <3>1, <3>2, <3>5
    <3>8. enqueued' = enqueued + n /\ posted' = posted
      BY <3>2, <3>5
    <3>9. posted \in Nat /\ dropped \in Nat
      BY DEF TypeOK
    <3>10. enqueued' = posted' + dropped' + l2 + h
      <4>1. PICK d1 \in Nat, d2 \in Nat, p1 \in Nat : d1 = dropped /\ d2 = dropped' /\ p1 = posted
        BY <3>7, <3>9
      <4>2. d2 + l2 = d1 + l1 + n
        BY <3>7, <4>1
      <4>3. (p1 + d1 + l1 + h) + n = p1 + d2 + l2 + h
        BY <4>2
      <4> QED BY <3>6, <3>8, <4>1, <4>3
    <3> QED BY <3>2, <3>4, <3>5, <3>10 DEF SinkInv, SinkAccounts
  <2> QED BY <2>3, <2>4
<1>9. ASSUME NEW f \in Flushers, WriteTemp(f) \/ SyncTemp(f) \/ Rename(f) \/ Requeue(f)
      PROVE  SinkInv'
  BY <1>0, <1>9 DEF WriteTemp, SyncTemp, Rename, Requeue
<1> QED BY <1>1, <1>2, <1>3, <1>4, <1>5, <1>6, <1>7, <1>8, <1>9 DEF Next

\* The sink's gauges add up: what it took is posted, dropped, queued or being posted
\* (sink.rs, push and post_loop).
THEOREM SinkAccountsHolds == Spec => []SinkAccounts
<1>1. Init => TypeOK /\ SinkInv
  BY TypeInit DEF Init, SinkInv, SinkAccounts
<1>2. TypeOK /\ SinkInv /\ [Next]_vars => (TypeOK /\ SinkInv)'
  BY TypeStep, SinkStep
<1>3. SinkInv => SinkAccounts
  BY DEF SinkInv
<1> QED BY <1>1, <1>2, <1>3, PTL DEF Spec

-----------------------------------------------------------------------------
(* The trail. *)

\* An empty sequence holds nothing, and nothing twice.
LEMMA EmptyHoldsNothing == Elements(<<>>) = {} /\ Once(<<>>)
BY DEF Elements, Once

\* What the trail holds are events.
LEMMA HeldAreEvents ==
  ASSUME TypeOK
  PROVE  \A e \in Elements(buffer) \cup InFlight \cup Visible : e.run \in Queries
<1>1. \A s \in Seq(Event) : \A e \in Elements(s) : e \in Event
  BY DEF Elements
<1>2. \A e \in Event : e.run \in Queries
  BY DEF Event
<1>3. \A f \in Flushers : flush[f].batch \in Seq(Event)
  BY DEF TypeOK, Flush
<1> QED BY <1>1, <1>2, <1>3 DEF TypeOK, InFlight, Visible

\* A step that moves no event keeps the trail.
LEMMA QuietTrail ==
  ASSUME TrailInv, UNCHANGED <<buffer, files, recorded, lost>>,
         \A f \in Flushers : /\ flush'[f].batch = flush[f].batch
                             /\ flush'[f].at = "idle" <=> flush[f].at = "idle",
         phase' = "serving" => phase = "serving",
         \A q \in Queries : stage[q] = "done" => stage'[q] = "done"
  PROVE  (ApartInv /\ DoneInv /\ KeptInv)'
<1>1. Visible' = Visible
  BY DEF Visible
<1>0. \A f \in Flushers : /\ Elements(flush'[f].batch) = Elements(flush[f].batch)
                          /\ Once(flush'[f].batch) <=> Once(flush[f].batch)
  OBVIOUS
<1>2. InFlight' = InFlight
  <2>1. InFlight' = UNION {Elements(flush'[f].batch) : f \in Flushers}
    BY DEF InFlight, Elements
  <2> QED BY <1>0, <2>1 DEF InFlight
<1>3. ApartInv'
  <2>0. ApartInv
    BY DEF TrailInv
  <2>1. ASSUME NEW g \in Flushers
        PROVE  /\ flush'[g].at = "idle" => flush'[g].batch = <<>>
               /\ Once(flush'[g].batch)
               /\ Elements(flush'[g].batch) \cap Elements(buffer') = {}
               /\ Elements(flush'[g].batch) \cap Visible' = {}
    BY <1>0, <1>1, <2>0 DEF ApartInv
  <2>2. ASSUME NEW g \in Flushers, NEW h \in Flushers \ {g}
        PROVE  Elements(flush'[g].batch) \cap Elements(flush'[h].batch) = {}
    BY <1>0, <2>0 DEF ApartInv
  <2>3. phase' = "serving" => flush'["shutdown"].at = "idle"
    BY <2>0 DEF ApartInv, Flushers
  <2>4. Once(buffer') /\ Elements(buffer') \cap Visible' = {}
    BY <1>1, <2>0 DEF ApartInv
  <2> QED BY <2>1, <2>2, <2>3, <2>4 DEF ApartInv
<1>4. DoneInv'
  BY <1>1, <1>2, HeldAreEvents DEF TrailInv, DoneInv
<1>5. KeptInv'
  BY <1>1, <1>2 DEF TrailInv, KeptInv
<1> QED BY <1>3, <1>4, <1>5

\* take_batch moves the buffer into the flush, which held nothing.
LEMMA TakeTrail ==
  ASSUME TrailInv, NEW f \in Flushers, TakeBatch(f), flush[f].at = "idle",
         UNCHANGED <<files, recorded, lost, stage>>,
         phase' = "serving" => phase = "serving" /\ f # "shutdown"
  PROVE  /\ (ApartInv /\ DoneInv /\ KeptInv)'
         /\ InFlight' = InFlight \cup Elements(buffer) /\ Elements(buffer') = {}
<1>0. TypeOK /\ ApartInv /\ DoneInv /\ KeptInv
  BY DEF TrailInv
<1>1. Visible' = Visible
  BY DEF Visible
<1>2. buffer' = <<>> /\ Elements(buffer') = {} /\ Once(buffer')
  BY EmptyHoldsNothing DEF TakeBatch
<1>3. \A g \in Flushers \ {f} : flush'[g] = flush[g]
  BY <1>0 DEF TakeBatch, TypeOK
<1>4. flush'[f].batch = buffer /\ (flush'[f].at = "idle" => buffer = <<>>)
  BY <1>0 DEF TakeBatch, TypeOK, Idle
<1>5. Elements(flush[f].batch) = {}
  BY <1>0, EmptyHoldsNothing DEF ApartInv
<1>6. InFlight' = InFlight \cup Elements(buffer)
  <2>1. ASSUME NEW e \in InFlight' PROVE e \in InFlight \cup Elements(buffer)
    <3>1. PICK g \in Flushers : e \in Elements(flush'[g].batch)
      BY DEF InFlight, Elements
    <3> QED BY <1>3, <1>4, <3>1 DEF InFlight
  <2>2. ASSUME NEW e \in InFlight PROVE e \in InFlight'
    <3>1. PICK g \in Flushers : e \in Elements(flush[g].batch)
      BY DEF InFlight
    <3>2. g # f
      BY <1>5, <3>1
    <3>3. e \in Elements(flush'[g].batch)
      BY <1>3, <3>1, <3>2
    <3> QED BY <3>3 DEF InFlight, Elements
  <2>3. Elements(buffer) \subseteq InFlight'
    BY <1>4 DEF InFlight, Elements
  <2> QED BY <2>1, <2>2, <2>3
<1>7. ApartInv'
  <2>1. ASSUME NEW g \in Flushers
        PROVE  /\ flush'[g].at = "idle" => flush'[g].batch = <<>>
               /\ Once(flush'[g].batch)
               /\ Elements(flush'[g].batch) \cap Elements(buffer') = {}
               /\ Elements(flush'[g].batch) \cap Visible' = {}
    BY <1>0, <1>1, <1>2, <1>3, <1>4 DEF ApartInv
  <2>2. ASSUME NEW g \in Flushers, NEW h \in Flushers \ {g}
        PROVE  Elements(flush'[g].batch) \cap Elements(flush'[h].batch) = {}
    BY <1>0, <1>3, <1>4 DEF ApartInv
  <2>3. phase' = "serving" => flush'["shutdown"].at = "idle"
    BY <1>0, <1>3 DEF ApartInv, Flushers
  <2> QED BY <1>2, <2>1, <2>2, <2>3 DEF ApartInv
<1>8. DoneInv'
  BY <1>0, <1>1, <1>2, <1>6 DEF DoneInv
<1>9. KeptInv'
  BY <1>0, <1>1, <1>2, <1>6 DEF KeptInv
<1> QED BY <1>2, <1>6, <1>7, <1>8, <1>9

\* Writing and syncing keep every batch.
LEMMA WritingKeeps ==
  ASSUME TypeOK, NEW f \in Flushers, WriteTemp(f) \/ SyncTemp(f)
  PROVE  \A g \in Flushers : /\ flush'[g].batch = flush[g].batch
                             /\ flush'[g].at = "idle" <=> flush[g].at = "idle"
<1>1. PICK a \in {"written", "synced"} : flush' = [flush EXCEPT ![f].at = a]
  BY DEF WriteTemp, SyncTemp
<1>2. flush[f].at # "idle"
  BY DEF WriteTemp, SyncTemp
<1>3. flush'[f].batch = flush[f].batch /\ flush'[f].at = a
  BY <1>1 DEF TypeOK, Flush
<1>4. \A g \in Flushers \ {f} : flush'[g] = flush[g]
  BY <1>1 DEF TypeOK
<1> QED BY <1>2, <1>3, <1>4

\* A flush that ends leaves the others alone.
LEMMA FlushEnds ==
  ASSUME TypeOK, NEW f \in Flushers, flush' = [flush EXCEPT ![f] = Idle]
  PROVE  /\ \A g \in Flushers \ {f} : flush'[g] = flush[g]
         /\ flush'[f] = Idle /\ Elements(flush'[f].batch) = {} /\ Once(flush'[f].batch)
         /\ InFlight' \subseteq InFlight
         /\ InFlight \subseteq InFlight' \cup Elements(flush[f].batch)
<1>1. /\ \A g \in Flushers \ {f} : flush'[g] = flush[g]
      /\ flush'[f] = Idle
  BY DEF TypeOK
<1>2. Elements(flush'[f].batch) = {} /\ Once(flush'[f].batch)
  BY <1>1, EmptyHoldsNothing DEF Idle
<1>3. ASSUME NEW e \in InFlight' PROVE e \in InFlight
  <2>1. PICK g \in Flushers : e \in Elements(flush'[g].batch)
    BY DEF InFlight, Elements
  <2> QED BY <1>1, <1>2, <2>1 DEF InFlight
<1>4. ASSUME NEW e \in InFlight, e \notin Elements(flush[f].batch) PROVE e \in InFlight'
  <2>1. PICK g \in Flushers : e \in Elements(flush[g].batch)
    BY DEF InFlight
  <2>2. e \in Elements(flush'[g].batch)
    BY <1>1, <1>4, <2>1
  <2> QED BY <2>2 DEF InFlight, Elements
<1> QED BY <1>1, <1>2, <1>3, <1>4

\* The rename moves a batch into the files.
LEMMA RenameTrail ==
  ASSUME TrailInv, NEW f \in Flushers, Rename(f)
  PROVE  /\ (ApartInv /\ DoneInv /\ KeptInv)'
         /\ Visible \cup InFlight \subseteq Visible' \cup InFlight'
<1>0. TypeOK /\ ApartInv /\ DoneInv /\ KeptInv
  BY DEF TrailInv
<1>1. /\ \A g \in Flushers \ {f} : flush'[g] = flush[g]
      /\ flush'[f] = Idle /\ Elements(flush'[f].batch) = {} /\ Once(flush'[f].batch)
      /\ InFlight' \subseteq InFlight
      /\ InFlight \subseteq InFlight' \cup Elements(flush[f].batch)
  BY <1>0, FlushEnds DEF Rename
<1>2. PICK n : files' = files \cup {[stamp |-> flush[f].stamp, name |-> n, events |-> flush[f].batch]}
  BY DEF Rename
<1>3. Visible' = Visible \cup Elements(flush[f].batch)
  <2>1. [stamp |-> flush[f].stamp, name |-> n, events |-> flush[f].batch].events = flush[f].batch
    OBVIOUS
  <2>2. Visible' = UNION {Elements(g.events) : g \in files'}
    BY DEF Visible, Elements
  <2> QED BY <1>2, <2>1, <2>2 DEF Visible
<1>4. UNCHANGED <<buffer, stage, recorded, lost, phase>> /\ Elements(buffer') = Elements(buffer)
  BY DEF Rename, clockVars, nodeVars
<1>5. Elements(flush[f].batch) \subseteq InFlight
  BY DEF InFlight
<1>6. ApartInv'
  <2>1. ASSUME NEW g \in Flushers
        PROVE  /\ flush'[g].at = "idle" => flush'[g].batch = <<>>
               /\ Once(flush'[g].batch)
               /\ Elements(flush'[g].batch) \cap Elements(buffer') = {}
               /\ Elements(flush'[g].batch) \cap Visible' = {}
    <3>1. CASE g = f
      BY <1>1, <3>1 DEF Idle
    <3>2. CASE g # f
      BY <1>0, <1>1, <1>3, <1>4, <3>2 DEF ApartInv
    <3> QED BY <3>1, <3>2
  <2>2. ASSUME NEW g \in Flushers, NEW h \in Flushers \ {g}
        PROVE  Elements(flush'[g].batch) \cap Elements(flush'[h].batch) = {}
    BY <1>0, <1>1 DEF ApartInv
  <2>3. phase' = "serving" => flush'["shutdown"].at = "idle"
    BY <1>0, <1>1, <1>4 DEF ApartInv, Flushers, Idle
  <2>4. Once(buffer') /\ Elements(buffer') \cap Visible' = {}
    BY <1>0, <1>3, <1>4 DEF ApartInv
  <2> QED BY <2>1, <2>2, <2>3, <2>4 DEF ApartInv
<1>7. DoneInv'
  BY <1>0, <1>1, <1>3, <1>4, <1>5 DEF DoneInv
<1>8. KeptInv'
  BY <1>0, <1>1, <1>3, <1>4 DEF KeptInv
<1> QED BY <1>1, <1>3, <1>6, <1>7, <1>8

\* A batch that could not be written goes back to the front of the buffer.
LEMMA RequeueTrail ==
  ASSUME TrailInv, NEW f \in Flushers, Requeue(f)
  PROVE  (ApartInv /\ DoneInv /\ KeptInv)'
<1> DEFINE b == flush[f].batch
           s == b \o buffer
<1>0. TypeOK /\ ApartInv /\ DoneInv /\ KeptInv
  BY DEF TrailInv
<1>1. /\ \A g \in Flushers \ {f} : flush'[g] = flush[g]
      /\ flush'[f] = Idle /\ Elements(flush'[f].batch) = {} /\ Once(flush'[f].batch)
      /\ InFlight' \subseteq InFlight
      /\ InFlight \subseteq InFlight' \cup Elements(b)
  BY <1>0, FlushEnds DEF Requeue
<1>2. b \in Seq(Event) /\ buffer \in Seq(Event) /\ s \in Seq(Event)
  BY <1>0 DEF TypeOK, Flush
<1>3. Elements(s) = Elements(b) \cup Elements(buffer) /\ Once(s)
  BY <1>0, <1>2, ElementsOfBoth, OnceBoth DEF ApartInv
<1>4. buffer' = EnforceCapacity(s) /\ lost' = lost \cup (Elements(s) \ Elements(buffer'))
  BY DEF Requeue
<1>5. Elements(buffer') \subseteq Elements(b) \cup Elements(buffer) /\ Once(buffer')
  BY <1>2, <1>3, <1>4, Trimmed
<1>6. UNCHANGED <<files, stage, recorded, phase>> /\ Visible' = Visible
  BY DEF Requeue, clockVars, nodeVars, Visible
<1>7. Elements(b) \subseteq InFlight
  BY DEF InFlight
<1>8. Elements(buffer') \cap Visible' = {}
  BY <1>0, <1>5, <1>6 DEF ApartInv
<1> HIDE DEF s
<1>9. ApartInv'
  <2>1. ASSUME NEW g \in Flushers
        PROVE  /\ flush'[g].at = "idle" => flush'[g].batch = <<>>
               /\ Once(flush'[g].batch)
               /\ Elements(flush'[g].batch) \cap Elements(buffer') = {}
               /\ Elements(flush'[g].batch) \cap Visible' = {}
    <3>1. CASE g = f
      BY <1>1, <3>1 DEF Idle
    <3>2. CASE g # f
      <4>1. Elements(flush[g].batch) \cap Elements(b) = {}
        BY <1>0, <3>2 DEF ApartInv
      <4> QED BY <1>0, <1>1, <1>5, <1>6, <3>2, <4>1 DEF ApartInv
    <3> QED BY <3>1, <3>2
  <2>2. ASSUME NEW g \in Flushers, NEW h \in Flushers \ {g}
        PROVE  Elements(flush'[g].batch) \cap Elements(flush'[h].batch) = {}
    BY <1>0, <1>1 DEF ApartInv
  <2>3. phase' = "serving" => flush'["shutdown"].at = "idle"
    BY <1>0, <1>1, <1>6 DEF ApartInv, Flushers, Idle
  <2> QED BY <1>5, <1>8, <2>1, <2>2, <2>3 DEF ApartInv
<1>10. DoneInv'
  BY <1>0, <1>1, <1>5, <1>6, <1>7 DEF DoneInv
<1>11. KeptInv'
  BY <1>0, <1>1, <1>3, <1>4, <1>6 DEF KeptInv
<1> QED BY <1>9, <1>10, <1>11

\* A query's events are new: no query emits twice.
LEMMA EmitTrail ==
  ASSUME TrailInv, NEW q \in Queries, EmitLineage(q)
  PROVE  (ApartInv /\ DoneInv /\ KeptInv)'
<1> DEFINE r == Record(q)
           s == buffer \o r
<1>0. TypeOK /\ ApartInv /\ DoneInv /\ KeptInv
  BY DEF TrailInv
<1>1. r \in Seq(Event) /\ Once(r) /\ \A e \in Elements(r) : e.run = q
  BY <1>0, RecordIsTwo
<1>2. /\ buffer' = EnforceCapacity(s) /\ recorded' = recorded \o r
      /\ lost' = lost \cup (Elements(s) \ Elements(buffer'))
      /\ stage[q] = "running" /\ stage' = [stage EXCEPT ![q] = "done"]
      /\ UNCHANGED <<flush, files, phase>>
  BY DEF EmitLineage, BufferAll, nodeVars
<1> HIDE DEF r
<1>3. Visible' = Visible /\ InFlight' = InFlight
  BY <1>2 DEF Visible, InFlight
<1>4. Elements(r) \cap (Elements(buffer) \cup InFlight \cup Visible) = {}
  BY <1>0, <1>1, <1>2 DEF DoneInv
<1>5. s \in Seq(Event) /\ Elements(s) = Elements(buffer) \cup Elements(r) /\ Once(s)
  BY <1>0, <1>1, <1>4, ElementsOfBoth, OnceBoth DEF ApartInv, TypeOK
<1>6. Elements(buffer') \subseteq Elements(buffer) \cup Elements(r) /\ Once(buffer')
  BY <1>2, <1>5, Trimmed
<1>7. Elements(recorded') = Elements(recorded) \cup Elements(r)
  BY <1>0, <1>1, <1>2, ElementsOfBoth DEF TypeOK
<1> HIDE DEF s
<1>8. ApartInv'
  <2>1. ASSUME NEW g \in Flushers
        PROVE  Elements(flush[g].batch) \subseteq InFlight
    BY DEF InFlight
  <2>2. ASSUME NEW g \in Flushers
        PROVE  /\ flush'[g].at = "idle" => flush'[g].batch = <<>>
               /\ Once(flush'[g].batch)
               /\ Elements(flush'[g].batch) \cap Elements(buffer') = {}
               /\ Elements(flush'[g].batch) \cap Visible' = {}
    BY <1>0, <1>2, <1>3, <1>4, <1>6, <2>1 DEF ApartInv
  <2>3. ASSUME NEW g \in Flushers, NEW h \in Flushers \ {g}
        PROVE  Elements(flush'[g].batch) \cap Elements(flush'[h].batch) = {}
    BY <1>0, <1>2 DEF ApartInv
  <2>4. Elements(buffer') \cap Visible' = {}
    BY <1>0, <1>3, <1>4, <1>6 DEF ApartInv
  <2>5. phase' = "serving" => flush'["shutdown"].at = "idle"
    BY <1>0, <1>2 DEF ApartInv
  <2> QED BY <1>6, <2>2, <2>3, <2>4, <2>5 DEF ApartInv
<1>9. DoneInv'
  <2>1. stage'[q] = "done" /\ \A p \in Queries : stage[p] = "done" => stage'[p] = "done"
    BY <1>0, <1>2 DEF TypeOK
  <2> QED BY <1>0, <1>1, <1>3, <1>6, <2>1, HeldAreEvents DEF DoneInv
<1>10. KeptInv'
  BY <1>0, <1>2, <1>3, <1>5, <1>7 DEF KeptInv
<1> QED BY <1>8, <1>9, <1>10

\* A crash leaves files, and counts the rest as lost.
LEMMA CrashTrail ==
  ASSUME TrailInv, Crash
  PROVE  (ApartInv /\ DoneInv /\ KeptInv)'
<1>0. TypeOK /\ ApartInv /\ DoneInv /\ KeptInv
  BY DEF TrailInv
<1>1. Visible' \subseteq Visible
  BY DEF Crash, Visible
<1>2. buffer' = <<>> /\ Elements(buffer') = {} /\ Once(buffer')
  BY EmptyHoldsNothing DEF Crash
<1>3. \A f \in Flushers : flush'[f] = Idle /\ Elements(flush'[f].batch) = {} /\ Once(flush'[f].batch)
  BY EmptyHoldsNothing DEF Crash, Idle
<1>4. InFlight' = {}
  <2>1. InFlight' = UNION {Elements(flush'[f].batch) : f \in Flushers}
    BY DEF InFlight, Elements
  <2> QED BY <1>3, <2>1
<1>5. ApartInv'
  BY <1>2, <1>3 DEF ApartInv, Idle, Flushers
<1>6. DoneInv'
  <2>1. \A p \in Queries : stage[p] = "done" => stage'[p] = "done"
    BY <1>0 DEF Crash, TypeOK
  <2> QED BY <1>0, <1>1, <1>2, <1>4, <2>1, HeldAreEvents DEF DoneInv
<1>7. KeptInv'
  <2>1. lost' = lost \cup (Elements(recorded) \ Visible') /\ recorded' = recorded
    BY DEF Crash, Visible, Elements
  <2> QED BY <2>1 DEF KeptInv
<1> QED BY <1>5, <1>6, <1>7

\* The trail is kept by every step.
LEMMA TrailStep ==
  ASSUME TrailInv, [Next]_vars
  PROVE  TrailInv'
<1> USE DEF clockVars, writerVars, sinkVars, nodeVars
<1>0. TypeOK /\ TypeOK'
  BY TypeStep DEF TrailInv
<1> SUFFICES (ApartInv /\ DoneInv /\ KeptInv)'
  BY <1>0 DEF TrailInv
<1>q. ASSUME UNCHANGED <<buffer, flush, files, recorded, lost, stage>>,
             phase' = "serving" => phase = "serving"
      PROVE  (ApartInv /\ DoneInv /\ KeptInv)'
  BY <1>q, QuietTrail
<1>1. CASE Tick \/ ReadPage \/ Pop \/ Park \/ Wake \/ Posted \/ UNCHANGED vars
  BY <1>q, <1>1 DEF Tick, ReadPage, Pop, Park, Wake, Posted, vars
<1>2. CASE DrainBegins \/ DrainWakes \/ Exit \/ BudgetSpent
  BY <1>q, <1>2 DEF DrainBegins, DrainWakes, Exit, BudgetSpent
<1>3. CASE PoolFlush
  BY <1>3, TakeTrail DEF PoolFlush, Flushers
<1>4. CASE Ask
  BY <1>4, TakeTrail DEF Ask, Flushers
<1>5. CASE Shutdown
  <2>1. flush["shutdown"].at = "idle"
    BY <1>5 DEF Shutdown, TrailInv, ApartInv
  <2> QED BY <1>5, <2>1, TakeTrail DEF Shutdown, Flushers
<1>6. CASE Crash
  BY <1>6, CrashTrail
<1>7. ASSUME NEW q \in Queries, Begin(q)
      PROVE  (ApartInv /\ DoneInv /\ KeptInv)'
  <2>1. \A p \in Queries : stage[p] = "done" => stage'[p] = "done"
    BY <1>0, <1>7 DEF Begin, TypeOK
  <2>2. UNCHANGED <<buffer, flush, files, recorded, lost, phase>>
    BY <1>7 DEF Begin
  <2> QED BY <2>1, <2>2, QuietTrail
<1>8. ASSUME NEW q \in Queries, EmitLineage(q)
      PROVE  (ApartInv /\ DoneInv /\ KeptInv)'
  BY <1>8, EmitTrail
<1>9. ASSUME NEW f \in Flushers, WriteTemp(f) \/ SyncTemp(f)
      PROVE  (ApartInv /\ DoneInv /\ KeptInv)'
  <2>1. \A g \in Flushers : /\ flush'[g].batch = flush[g].batch
                            /\ flush'[g].at = "idle" <=> flush[g].at = "idle"
    BY <1>0, <1>9, WritingKeeps
  <2>2. UNCHANGED <<buffer, files, recorded, lost, stage, phase>>
    BY <1>9 DEF WriteTemp, SyncTemp
  <2> QED BY <2>1, <2>2, QuietTrail
<1>10. ASSUME NEW f \in Flushers, Rename(f)
       PROVE  (ApartInv /\ DoneInv /\ KeptInv)'
  BY <1>10, RenameTrail
<1>11. ASSUME NEW f \in Flushers, Requeue(f)
       PROVE  (ApartInv /\ DoneInv /\ KeptInv)'
  BY <1>11, RequeueTrail
<1> QED BY <1>1, <1>2, <1>3, <1>4, <1>5, <1>6, <1>7, <1>8, <1>9, <1>10, <1>11 DEF Next

\* The trail begins empty.
LEMMA TrailInit == Init => TrailInv
<1> SUFFICES ASSUME Init PROVE TrailInv
  OBVIOUS
<1>1. buffer = <<>> /\ recorded = <<>> /\ Visible = {} /\ Elements(<<>>) = {} /\ Once(<<>>)
  BY EmptyHoldsNothing DEF Init, Visible
<1>2. \A f \in Flushers : flush[f] = Idle /\ flush[f].batch = <<>> /\ flush[f].at = "idle"
  BY DEF Init, Idle
<1>3. InFlight = {}
  BY <1>1, <1>2 DEF InFlight
<1> QED BY <1>1, <1>2, <1>3, TypeInit DEF TrailInv, ApartInv, DoneInv, KeptInv, Flushers

\* An event the writer accepted is in one place: the buffer, a batch being written,
\* or a file, unless the full buffer shed it or a crash took it (writer.rs,
\* write_or_requeue against a concurrent record and flush).
THEOREM ConservedHolds == Spec => []Conserved
<1>1. TrailInv => Conserved
  <2> SUFFICES ASSUME TrailInv PROVE Conserved
    OBVIOUS
  <2>1. Cardinality(Elements(buffer)) = Len(buffer)
    BY OnceCounts DEF TrailInv, TypeOK, ApartInv
  <2>2. InFlight \cap Visible = {} /\ InFlight \cap Elements(buffer) = {}
    BY DEF InFlight, TrailInv, ApartInv
  <2> QED BY <2>1, <2>2 DEF Conserved, TrailInv, ApartInv, KeptInv
<1> QED BY <1>1, TrailInit, TrailStep, PTL DEF Spec

-----------------------------------------------------------------------------
(* The reader. *)

\* What a get_lineage was asked after stays out of the buffer until its page.
LEMMA AskedStep ==
  ASSUME TrailInv, AskedInv, [Next]_vars
  PROVE  AskedInv'
<1> USE DEF clockVars, writerVars, sinkVars, nodeVars
<1> DEFINE Out == Visible \cup lost \cup InFlight
<1>0. TypeOK
  BY DEF TrailInv
<1>q. ASSUME UNCHANGED walk, fails' >= fails, fails' \in Nat, Out \subseteq Out'
      PROVE  AskedInv'
  <2>1. fails > 0 => fails' > 0
    BY <1>0, <1>q DEF TypeOK
  <2>2. walk.at = "flushing" => fails > 0 \/ walk.asked \subseteq Out
    BY DEF AskedInv
  <2>3. walk'.at = "flushing" => fails' > 0 \/ walk'.asked \subseteq Out'
    BY <1>q, <2>1, <2>2
  <2> QED BY <2>3 DEF AskedInv
<1>f. ASSUME UNCHANGED <<flush, files, lost>>
      PROVE  Out' = Out
  BY <1>f DEF Visible, InFlight
<1>1. CASE Tick \/ Pop \/ Park \/ Wake \/ Posted \/ UNCHANGED vars
  <2>1. UNCHANGED <<walk, fails, flush, files, lost>>
    BY <1>1 DEF Tick, Pop, Park, Wake, Posted, vars
  <2> QED BY <1>0, <1>q, <1>f, <2>1 DEF TypeOK
<1>2. CASE DrainBegins \/ DrainWakes \/ Exit
  <2>1. UNCHANGED <<walk, fails, flush, files, lost>>
    BY <1>2 DEF DrainBegins, DrainWakes, Exit
  <2> QED BY <1>0, <1>q, <1>f, <2>1 DEF TypeOK
<1>3. CASE BudgetSpent
  <2>1. UNCHANGED <<walk, flush, files, lost>> /\ fails' = fails + 1
    BY <1>3 DEF BudgetSpent
  <2> QED BY <1>0, <1>q, <1>f, <2>1 DEF TypeOK
<1>4. CASE PoolFlush \/ Shutdown
  <2>1. InFlight' = InFlight \cup Elements(buffer)
    <3>1. CASE PoolFlush
      BY <3>1, TakeTrail DEF PoolFlush, Flushers
    <3>2. CASE Shutdown
      <4>1. flush["shutdown"].at = "idle"
        BY <3>2 DEF Shutdown, TrailInv, ApartInv
      <4> QED BY <3>2, <4>1, TakeTrail DEF Shutdown, Flushers
    <3> QED BY <1>4, <3>1, <3>2
  <2>2. UNCHANGED <<walk, fails, files, lost>> /\ Visible' = Visible
    BY <1>4 DEF PoolFlush, Shutdown, Visible
  <2> QED BY <1>0, <1>q, <2>1, <2>2 DEF TypeOK
<1>5. CASE Ask
  <2>1. InFlight' = InFlight \cup Elements(buffer)
    BY <1>5, TakeTrail DEF Ask, Flushers
  <2>2. UNCHANGED <<files, lost, recorded>> /\ Visible' = Visible
    BY <1>5 DEF Ask, Visible
  <2>3. walk'.asked = Elements(recorded)
    BY <1>0, <1>5 DEF Ask, TypeOK, WalkFields
  <2> QED BY <2>1, <2>2, <2>3 DEF AskedInv, TrailInv, KeptInv
<1>6. CASE ReadPage
  <2>1. PICK a, s, c, o, b : walk' = [walk EXCEPT !.at = a, !.seen = s, !.cursor = c,
                                                  !.orderly = o, !.between = b]
                             /\ a \in {"page", "over"}
    BY <1>6, Zenon DEF ReadPage
  <2>2. walk'.at # "flushing"
    BY <1>0, <2>1 DEF TypeOK, WalkFields
  <2> QED BY <2>2 DEF AskedInv
<1>7. CASE Crash
  <2>1. walk'.at = "idle"
    BY <1>7 DEF Crash, NoWalk
  <2> QED BY <2>1 DEF AskedInv
<1>8. ASSUME NEW q \in Queries, Begin(q)
      PROVE  AskedInv'
  <2>1. UNCHANGED <<walk, fails, flush, files, lost>>
    BY <1>8 DEF Begin
  <2> QED BY <1>0, <1>q, <1>f, <2>1 DEF TypeOK
<1>9. ASSUME NEW q \in Queries, EmitLineage(q)
      PROVE  AskedInv'
  <2>1. UNCHANGED <<walk, fails, flush, files>> /\ lost \subseteq lost'
    BY <1>9 DEF EmitLineage, BufferAll
  <2>2. Visible' = Visible /\ InFlight' = InFlight
    BY <2>1 DEF Visible, InFlight
  <2> QED BY <1>0, <1>q, <2>1, <2>2 DEF TypeOK
<1>10. ASSUME NEW f \in Flushers, WriteTemp(f) \/ SyncTemp(f)
       PROVE  AskedInv'
  <2>1. UNCHANGED <<walk, fails, files, lost>> /\ Visible' = Visible
    BY <1>10 DEF WriteTemp, SyncTemp, Visible
  <2>2. \A g \in Flushers : flush'[g].batch = flush[g].batch
    BY <1>0, <1>10, WritingKeeps
  <2>3. InFlight' = UNION {Elements(flush'[g].batch) : g \in Flushers}
    BY DEF InFlight, Elements
  <2>4. InFlight' = InFlight
    BY <2>2, <2>3 DEF InFlight
  <2> QED BY <1>0, <1>q, <2>1, <2>4 DEF TypeOK
<1>11. ASSUME NEW f \in Flushers, Rename(f)
       PROVE  AskedInv'
  <2>1. UNCHANGED <<walk, fails, lost>>
    BY <1>11 DEF Rename
  <2>2. Visible \cup InFlight \subseteq Visible' \cup InFlight'
    BY <1>11, RenameTrail
  <2> QED BY <1>0, <1>q, <2>1, <2>2 DEF TypeOK
<1>12. ASSUME NEW f \in Flushers, Requeue(f)
       PROVE  AskedInv'
  <2>1. fails' > 0
    BY <1>0, <1>12 DEF Requeue, TypeOK
  <2> QED BY <2>1 DEF AskedInv
<1> QED BY <1>1, <1>2, <1>3, <1>4, <1>5, <1>6, <1>7, <1>8, <1>9, <1>10, <1>11, <1>12 DEF Next

\* A get_lineage sees every event recorded before it was asked, but for those
\* shed, those another flush still holds, and those it could not write (ops.rs,
\* get_lineage_local flushing first).
THEOREM SeesOwnQueryHolds == Spec => SeesOwnQuery
<1>1. Init => AskedInv
  BY DEF Init, NoWalk, AskedInv
<1>2. TrailInv /\ AskedInv /\ [Next]_vars => (TrailInv /\ AskedInv)'
  BY TrailStep, AskedStep
<1>3. AskedInv => [(walk.at = "flushing" /\ walk'.at \in {"page", "over"}) =>
                     fails > 0 \/ walk.asked \subseteq Visible \cup lost \cup InFlight]_vars
  BY DEF AskedInv
<1> QED BY <1>1, <1>2, <1>3, TrailInit, PTL DEF Spec, SeesOwnQuery

=============================================================================
