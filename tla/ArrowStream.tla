---------------------------- MODULE ArrowStream ----------------------------
(***************************************************************************)
(* One streamed read: the blocking producer that runs the query inside a   *)
(* read-only transaction on a pooled connection and pushes its batches     *)
(* into a bounded channel, the tasks that relay them, and the consumer.    *)
(*                                                                         *)
(* The path is a chain of hops bounded channels, and the task between      *)
(* channels k and k+1 is an IPC encoder (k odd) or decoder (k even):       *)
(*   1  read_query: the collector reads the producer's channel;            *)
(*   2  Stream/ReadArrow: the encoder feeds the client's response stream;  *)
(*   3  read_query at a greeter: the owner's stream is decoded again;      *)
(*   4  Stream/ReadArrow at a greeter, encoded a second time.              *)
(* A batch is a token: channels are first in first out, and what is asked  *)
(* here is how many arrive and what ends them.  The schema travels beside  *)
(* the batches; the slot its chunk takes in a channel is left out.         *)
(***************************************************************************)
EXTENDS Naturals, Sequences

CONSTANTS Chains,      \* the lengths a path may have; 1..4 in the code
          Capacity,    \* of every channel; 4 in the code
          MaxBatches,  \* bound: the batches of the longest result
          RowCap       \* the inline cap of the collector, in batches

ASSUME StreamAssumption ==
  /\ Chains \subseteq Nat \ {0}
  /\ Capacity \in Nat \ {0}
  /\ MaxBatches \in Nat
  /\ RowCap \in Nat

VARIABLES
  hops,      \* the channels between the engine and the consumer
  total,     \* the batches of the result
  pc,        \* where the producer is
  left,      \* the batches the engine has not handed over yet
  txn,       \* whether the read transaction is open
  conn,      \* the read connection: "out", "pooled" or "discarded"
  result,    \* what the engine returned, as it was classified
  inflight,  \* whether the operation is in the in-flight registry
  schema,    \* the schema oneshot
  meta,      \* the meta oneshot
  chan,      \* the channels
  tx,        \* the channels whose sender is alive
  rx,        \* the channels whose receiver is alive
  cs,        \* where the consumer is
  got,       \* the batches it has read
  outcome,   \* what it was told in the end
  token,     \* whether the AbortToken is cancelled
  timer,     \* the deadline's watcher: "armed", "flagged" or "done"
  expired,   \* Deadline::expired
  cause      \* who pulled the trigger first

request == <<hops, total>>
engineVars == <<pc, left, txn, conn, result, inflight>>
oneshots == <<schema, meta>>
channels == <<chan, tx, rx>>
consumerVars == <<cs, got, outcome>>
abortVars == <<token, timer, expired, cause>>
vars == <<request, engineVars, oneshots, channels, consumerVars, abortVars>>

Hop == 1..hops
\* The odd chains end in collect_stream, the even ones in a client's stream.
Collects == hops % 2 = 1

Failures == {"cancelled", "timeout", "error"}
Items == {"batch"} \cup Failures

TypeOK ==
  /\ hops \in Chains
  /\ total \in 0..MaxBatches
  /\ pc \in {"begin", "execute", "schema", "fetch", "send", "commit", "rollback",
             "release", "report", "deliver", "complete", "done", "panicked"}
  /\ left \in 0..MaxBatches
  /\ txn \in BOOLEAN
  /\ conn \in {"out", "pooled", "discarded"}
  /\ result \in {"none", "ok"} \cup Failures
  /\ inflight \in BOOLEAN
  /\ schema \in {"waiting", "ok"} \cup Failures
  /\ meta \in {"waiting", "sent", "dropped"}
  /\ chan \in [Hop -> Seq(Items)]
  /\ tx \subseteq Hop
  /\ rx \subseteq Hop
  /\ cs \in {"schema", "reading", "meta", "done"}
  /\ got \in Nat
  /\ outcome \in {"none", "end", "cap", "hungup"} \cup Failures
  /\ token \in BOOLEAN
  /\ timer \in {"armed", "flagged", "done"}
  /\ expired \in BOOLEAN
  /\ cause \in {"none", "deadline", "caller", "registry"}

\* read_arrow_local has registered the operation and spawned the producer, which
\* holds a checked-out connection.
Init ==
  /\ hops \in Chains
  /\ total \in 0..MaxBatches
  /\ left = total
  /\ pc = "begin"
  /\ txn = FALSE
  /\ conn = "out"
  /\ result = "none"
  /\ inflight = TRUE
  /\ schema = "waiting"
  /\ meta = "waiting"
  /\ chan = [k \in Hop |-> << >>]
  /\ tx = Hop
  /\ rx = Hop
  /\ cs = "schema"
  /\ got = 0
  /\ outcome = "none"
  /\ token = FALSE
  /\ timer = "armed"
  /\ expired = FALSE
  /\ cause = "none"

HasRoom(k) == Len(chan[k]) < Capacity

-----------------------------------------------------------------------------
(* The producer: read_arrow inside with_read, run_with_abort, in_read_txn. *)

\* ReadTxn::begin.
Begin ==
  /\ pc = "begin"
  /\ txn' = TRUE
  /\ pc' = "execute"
  /\ UNCHANGED <<request, left, conn, result, inflight, oneshots, channels, consumerVars, abortVars>>

\* prepare and query_arrow, which may refuse the caller's statement.
Execute ==
  /\ pc = "execute"
  /\ \/ pc' = "schema" /\ UNCHANGED result
     \/ pc' = "rollback" /\ result' = "error"
  /\ UNCHANGED <<request, left, txn, conn, inflight, oneshots, channels, consumerVars, abortVars>>

\* ChannelSink::schema; nobody waiting for it breaks the stream off.
PushSchema ==
  /\ pc = "schema"
  /\ schema' = "ok"
  /\ pc' = IF cs = "schema" THEN "fetch" ELSE "commit"
  /\ UNCHANGED <<request, left, txn, conn, result, inflight, meta, channels, consumerVars, abortVars>>

\* The loop of run_read_arrow: the token is looked at once per batch.
Fetch ==
  /\ pc = "fetch"
  /\ \/ /\ left = 0
        /\ pc' = "commit"
        /\ UNCHANGED <<left, result>>
     \/ /\ left > 0
        /\ ~token
        /\ left' = left - 1
        /\ pc' = "send"
        /\ UNCHANGED result
     \/ /\ left > 0
        /\ token
        /\ left' = left - 1
        /\ result' = "cancelled"
        /\ pc' = "rollback"
  /\ UNCHANGED <<request, txn, conn, inflight, oneshots, channels, consumerVars, abortVars>>

\* Mutant: a plain blocking_send, which knows nothing of the token.
SendBatchBlocking(item, next, broken) ==
  /\ \/ 1 \in rx /\ HasRoom(1) /\ chan' = [chan EXCEPT ![1] = Append(@, item)] /\ pc' = next
     \/ 1 \notin rx /\ pc' = broken /\ UNCHANGED chan
  /\ UNCHANGED <<tx, rx>>

\* Mutant: try_send, which drops what a full channel cannot take.
SendBatchTry(item, next, broken) ==
  /\ \/ 1 \in rx /\ HasRoom(1) /\ chan' = [chan EXCEPT ![1] = Append(@, item)] /\ pc' = next
     \/ 1 \in rx /\ ~HasRoom(1) /\ pc' = broken /\ UNCHANGED chan
     \/ 1 \notin rx /\ pc' = broken /\ UNCHANGED chan
  /\ UNCHANGED <<tx, rx>>

\* ChannelSink::send_batch: delivered when there is room, Break when the receiver
\* is gone or when the token is cancelled first.
SendBatch(item, next, broken) ==
  /\ \/ 1 \in rx /\ HasRoom(1) /\ chan' = [chan EXCEPT ![1] = Append(@, item)] /\ pc' = next
     \/ 1 \notin rx /\ pc' = broken /\ UNCHANGED chan
     \/ 1 \in rx /\ ~HasRoom(1) /\ token /\ pc' = broken /\ UNCHANGED chan
  /\ UNCHANGED <<tx, rx>>

\* A Break ends the loop, and run_read_arrow returns Ok.
Send ==
  /\ pc = "send"
  /\ SendBatch("batch", "fetch", "commit")
  /\ UNCHANGED <<request, left, txn, conn, result, inflight, oneshots, consumerVars, abortVars>>

\* ReadTxn::commit; a COMMIT that fails leaves the rest to Drop.
Commit ==
  /\ pc = "commit"
  /\ \/ txn' = FALSE /\ result' = "ok" /\ pc' = "release"
     \/ result' = "error" /\ pc' = "rollback" /\ UNCHANGED txn
  /\ UNCHANGED <<request, left, conn, inflight, oneshots, channels, consumerVars, abortVars>>

\* ReadTxn::drop.
Rollback ==
  /\ pc = "rollback"
  /\ txn' = FALSE
  /\ pc' = "release"
  /\ UNCHANGED <<request, left, conn, result, inflight, oneshots, channels, consumerVars, abortVars>>

\* The watcher's interrupt lands on the statement that runs: BEGIN, the query or
\* COMMIT fails, a ROLLBACK is lost and the transaction stays open.
Interrupt ==
  /\ token
  /\ \/ pc = "begin" /\ result' = "cancelled" /\ pc' = "release"
     \/ pc \in {"execute", "commit"} /\ result' = "cancelled" /\ pc' = "rollback"
     \/ pc = "rollback" /\ pc' = "release" /\ UNCHANGED result
  /\ UNCHANGED <<request, left, txn, conn, inflight, oneshots, channels, consumerVars, abortVars>>

\* Mutant: every connection goes back to the pool.
ReleaseAlwaysPools ==
  /\ pc = "release"
  /\ conn' = "pooled"
  /\ pc' = "report"
  /\ UNCHANGED <<request, left, txn, result, inflight, oneshots, channels, consumerVars, abortVars>>

\* with_read: the connection goes back to the pool only after a success.
Release ==
  /\ pc = "release"
  /\ conn' = IF result = "ok" THEN "pooled" ELSE "discarded"
  /\ pc' = "report"
  /\ UNCHANGED <<request, left, txn, result, inflight, oneshots, channels, consumerVars, abortVars>>

\* Deadline::classify: a cancellation after the expiry is a timeout.
Classify == IF result = "cancelled" /\ expired THEN "timeout" ELSE result

\* The blocking task after the engine: the meta on success, the error on the schema
\* oneshot while that is unused.
Report ==
  /\ pc = "report"
  /\ result' = Classify
  /\ \/ /\ result = "ok"
        /\ meta' = "sent"
        /\ pc' = "complete"
        /\ UNCHANGED schema
     \/ /\ result # "ok"
        /\ schema = "waiting"
        /\ schema' = Classify
        /\ pc' = "complete"
        /\ UNCHANGED meta
     \/ /\ result # "ok"
        /\ schema # "waiting"
        /\ pc' = "deliver"
        /\ UNCHANGED oneshots
  /\ UNCHANGED <<request, left, txn, conn, inflight, channels, consumerVars, abortVars>>

\* ... and on the batch channel afterwards, with the same bounded wait.
Deliver ==
  /\ pc = "deliver"
  /\ SendBatch(result, "complete", "complete")
  /\ UNCHANGED <<request, left, txn, conn, result, inflight, oneshots, consumerVars, abortVars>>

\* The blocking closure drops its senders and its deadline, whose Drop stops the
\* watcher and cancels the token.
DropProducer ==
  /\ tx' = tx \ {1}
  /\ meta' = IF meta = "waiting" THEN "dropped" ELSE meta
  /\ token' = TRUE
  /\ timer' = "done"
  /\ UNCHANGED <<chan, rx, expired, cause>>

Complete ==
  /\ pc = "complete"
  /\ inflight' = FALSE
  /\ DropProducer
  /\ pc' = "done"
  /\ UNCHANGED <<request, left, txn, conn, result, schema, consumerVars>>

\* Converting a batch panics: the unwind rolls back, discards the connection and
\* drops the senders, and nothing after the engine call runs.
Panic ==
  /\ pc = "fetch"
  /\ left > 0
  /\ txn' \in {FALSE, token}
  /\ conn' = "discarded"
  /\ DropProducer
  /\ pc' = "panicked"
  /\ UNCHANGED <<request, left, result, inflight, schema, consumerVars>>

-----------------------------------------------------------------------------
(* Deadline's watcher, and the other ways to the token. *)

Trigger(who) == cause' = IF cause = "none" THEN who ELSE cause

\* The timer arm of the watcher: first the flag ...
DeadlineExpires ==
  /\ timer = "armed"
  /\ expired' = TRUE
  /\ timer' = "flagged"
  /\ Trigger("deadline")
  /\ UNCHANGED <<request, engineVars, oneshots, channels, consumerVars, token>>

\* ... then the token.
DeadlineCancels ==
  /\ timer = "flagged"
  /\ token' = TRUE
  /\ timer' = "done"
  /\ UNCHANGED <<request, engineVars, oneshots, channels, consumerVars, expired, cause>>

\* The caller's own cancel, which only a collected read of this node carries.
CallerCancels ==
  /\ hops = 1
  /\ timer = "armed"
  /\ token' = TRUE
  /\ timer' = "done"
  /\ Trigger("caller")
  /\ UNCHANGED <<request, engineVars, oneshots, channels, consumerVars, expired>>

\* InFlightRegistry::cancel and cancel_for_pond; the watcher does not look at the
\* token and keeps its timer.
RegistryCancels ==
  /\ inflight
  /\ pc # "panicked"
  /\ ~token
  /\ token' = TRUE
  /\ Trigger("registry")
  /\ UNCHANGED <<request, engineVars, oneshots, channels, consumerVars, timer, expired>>

-----------------------------------------------------------------------------
(* The relays: encode_to_chunks and decode_arrow_stream. *)

\* Spawned once the schema is known.
Relaying(k) == k + 1 \in tx /\ schema = "ok"

\* The relay returns, and drops both its ends.
RelayReturns(k) ==
  /\ tx' = tx \ {k + 1}
  /\ rx' = rx \ {k}

\* The next item is passed on; an error is the last one.  A send to a receiver that
\* is gone ends the relay.
Relay(k) ==
  /\ Relaying(k)
  /\ chan[k] # << >>
  /\ \/ /\ k + 1 \in rx
        /\ HasRoom(k + 1)
        /\ chan' = [chan EXCEPT ![k] = Tail(@), ![k + 1] = Append(@, Head(chan[k]))]
        /\ IF Head(chan[k]) = "batch" THEN UNCHANGED <<tx, rx>> ELSE RelayReturns(k)
     \/ /\ k + 1 \notin rx
        /\ UNCHANGED chan
        /\ RelayReturns(k)
  /\ UNCHANGED <<request, engineVars, oneshots, consumerVars, abortVars>>

\* The input is at its end: so is the output.
RelayEnds(k) ==
  /\ Relaying(k)
  /\ chan[k] = << >>
  /\ k \notin tx
  /\ UNCHANGED chan
  /\ RelayReturns(k)
  /\ UNCHANGED <<request, engineVars, oneshots, consumerVars, abortVars>>

\* Mutant: a relay that fails closes the stream without a word.
RelayFailsSilently(k) ==
  /\ Relaying(k)
  /\ UNCHANGED chan
  /\ RelayReturns(k)
  /\ UNCHANGED <<request, engineVars, oneshots, consumerVars, abortVars>>

\* A batch cannot be encoded or decoded, or the decoder's connection to the peer
\* breaks: the error is the last item.
RelayFails(k) ==
  /\ Relaying(k)
  /\ chan[k] # << >> \/ k % 2 = 0
  /\ k + 1 \in rx
  /\ HasRoom(k + 1)
  /\ chan' = [chan EXCEPT ![k + 1] = Append(@, "error")]
  /\ RelayReturns(k)
  /\ UNCHANGED <<request, engineVars, oneshots, consumerVars, abortVars>>

-----------------------------------------------------------------------------
(* The consumer. *)

Finish(what) ==
  /\ outcome' = what
  /\ cs' = "done"

\* read_arrow_local returns: with the stream, or with the error and the stream dropped.
SchemaArrives ==
  /\ cs = "schema"
  /\ \/ schema = "ok" /\ cs' = "reading" /\ UNCHANGED <<outcome, rx>>
     \/ schema \in Failures /\ Finish(schema) /\ rx' = {}
  /\ UNCHANGED <<request, engineVars, oneshots, chan, tx, got, abortVars>>

\* The next item of collect_stream's loop or of the client's.
Take ==
  /\ cs = "reading"
  /\ chan[hops] # << >>
  /\ chan' = [chan EXCEPT ![hops] = Tail(@)]
  /\ \/ /\ Head(chan[hops]) = "batch"
        /\ got' = got + 1
        /\ IF Collects /\ got' > RowCap THEN Finish("cap") /\ rx' = rx \ {hops}
                                        ELSE UNCHANGED <<cs, outcome, rx>>
     \/ /\ Head(chan[hops]) # "batch"
        /\ Finish(Head(chan[hops]))
        /\ rx' = rx \ {hops}
        /\ UNCHANGED got
  /\ UNCHANGED <<request, engineVars, oneshots, tx, abortVars>>

\* The stream has ended; the collector goes on to the meta.
StreamEnds ==
  /\ cs = "reading"
  /\ chan[hops] = << >>
  /\ hops \notin tx
  /\ IF Collects THEN cs' = "meta" /\ UNCHANGED outcome ELSE Finish("end")
  /\ UNCHANGED <<request, engineVars, oneshots, channels, got, abortVars>>

\* Mutant: the collector waits until the meta is sent.
MetaArrivesOnlySent ==
  /\ cs = "meta"
  /\ hops > 1 \/ meta = "sent"
  /\ Finish("end")
  /\ UNCHANGED <<request, engineVars, oneshots, channels, got, abortVars>>

\* The meta, or the default in its place when its sender is gone; a decoded stream
\* has none.
MetaArrives ==
  /\ cs = "meta"
  /\ hops > 1 \/ meta # "waiting"
  /\ Finish("end")
  /\ UNCHANGED <<request, engineVars, oneshots, channels, got, abortVars>>

\* The caller disconnects, and whatever it was reading from is dropped.
Hangup ==
  /\ cs # "done"
  /\ Finish("hungup")
  /\ rx' = IF schema = "ok" THEN rx \ {hops} ELSE {}
  /\ UNCHANGED <<request, engineVars, oneshots, chan, tx, got, abortVars>>

-----------------------------------------------------------------------------
Producer == \/ Begin \/ Execute \/ PushSchema \/ Fetch \/ Send \/ Commit \/ Rollback
            \/ Release \/ Report \/ Deliver \/ Complete

Relays == \E k \in 1..hops - 1 : Relay(k) \/ RelayEnds(k)

Consumer == SchemaArrives \/ Take \/ StreamEnds \/ MetaArrives

Next ==
  \/ Producer \/ Interrupt \/ Panic
  \/ DeadlineExpires \/ DeadlineCancels \/ CallerCancels \/ RegistryCancels
  \/ Relays
  \/ \E k \in 1..hops - 1 : RelayFails(k)
  \/ Consumer \/ Hangup

Spec == Init /\ [][Next]_vars

\* The producer's thread runs except inside the query, which need not end by itself;
\* the deadline's timer and the interrupt watcher tick.  The consumer owes nothing.
ProducerFairness ==
  /\ WF_vars(Producer /\ pc # "execute")
  /\ WF_vars(Interrupt)
  /\ WF_vars(DeadlineExpires)
  /\ WF_vars(DeadlineCancels)

\* The relays are tasks of the runtime, and this consumer reads on.
ConsumerFairness == WF_vars(Relays) /\ WF_vars(Consumer)

FairSpec == Spec /\ ProducerFairness

-----------------------------------------------------------------------------
(* Properties. *)

\* with_read: a connection that goes back to the pool is outside any transaction,
\* however the interrupts fell on BEGIN, COMMIT and ROLLBACK.
PooledIsClean == conn = "pooled" => ~txn

\* A stream that nobody cut and that ends without an error has delivered every
\* batch of the result, whatever broke on the way.
UncutIsWhole ==
  outcome = "end" /\ cause = "none" /\ pc # "panicked" => got = total

\* ops.rs:1216-1219: the deadline covers the whole stream, so the connection and the
\* pinned snapshot are released whether the consumer reads on, slowly, or not at all.
\* The deadline armed at ops.rs:1303 is what makes it so; ops.rs:2198-2203 ("nothing
\* imposes an absolute deadline on a slow-but-live consumer") and arrow.rs:30-32 ("a
\* consumer that simply stops reading keeps them held") still deny it.
Released == <>(conn # "out")

\* Every read whose consumer reads on is answered in the end.
Answered == ConsumerFairness => <>(cs = "done")

\* arrow.rs:26: a stream is its batches, "or the first error encountered": one
\* that ends without an error is whole (panics apart).
CleanEndIsWhole == outcome = "end" /\ pc # "panicked" => got = total
=============================================================================
