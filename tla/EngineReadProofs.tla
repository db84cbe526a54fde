-------------------------- MODULE EngineReadProofs --------------------------
(***************************************************************************)
(* Proofs about the two halves of a read in the engine: the stream it      *)
(* sends, ArrowStream, and the pool its connection comes from, ReadPool.   *)
(*                                                                         *)
(* ArrowStream for every length of the path, every capacity and every size *)
(* of the result.  CleanInv says what the verdict and the producer's       *)
(* position imply about the transaction; only with it does the reuse of a  *)
(* connection depend on the verdict alone.                                 *)
(*                                                                         *)
(* UncutIsWhole is a count: CountInv has, for each channel, the number of  *)
(* batches that have passed it.  It stands as long as nothing was thrown   *)
(* away, and PathInv says when that is: channels and receivers close in    *)
(* order, nothing follows an error, and nobody cancels without a cause.    *)
(*                                                                         *)
(* ReadPool for every pool size and every number of readers.               *)
(* PlacesAccounted makes the counter redundant, so that a step is judged   *)
(* by the one reader it moves from one set of labels to another; the       *)
(* wakeup invariant is inductive together with it.                         *)
(***************************************************************************)
EXTENDS ArrowStream, ReadPool, FiniteSetTheorems, TLAPS

\* A producer past its query has a verdict, and one that delivers it has a failure;
\* a verdict of success means that COMMIT closed the transaction, and a pooled
\* connection had that verdict.
CleanInv ==
  /\ pc \in {"rollback", "release", "report"} => result # "none"
  /\ pc = "deliver" => result \in Failures
  /\ result = "ok" => ~txn /\ pc \in {"release", "report", "complete", "done"}
  /\ conn = "pooled" => result = "ok"

\* The last item of the channel is an error.
Broken(k) == chan[k] # << >> /\ chan[k][Len(chan[k])] # "batch"

\* The consumer went away, or was told of a failure.
Cut == outcome \notin {"none", "end"}

\* An error is on its way to the consumer at or after channel k, or there already.
DoomedFrom(k) == Cut \/ \E j \in k..hops : Broken(j)

\* What the consumer knows: it reads once the schema is there, and has seen the end
\* of the last channel when it says so.
ConsumerInv ==
  /\ cs # "done" <=> outcome = "none"
  /\ cs \in {"reading", "meta"} \/ outcome = "end" => schema = "ok"
  /\ schema = "waiting" /\ cs # "schema" => Cut
  /\ pc \in {"begin", "execute", "schema"} => schema = "waiting"
  /\ cs = "meta" \/ outcome = "end" => hops \notin tx /\ chan[hops] = << >>

\* As long as the consumer is there, a receiver goes only with its relay.
ReceiverInv == ~Cut => hops \in rx /\ \A k \in 1..hops - 1 : k \in rx \/ k + 1 \notin tx

\* Nothing follows an error, and nothing is sent without a sender.
LastInv ==
  /\ \A k \in Hop : Broken(k) => IF k = 1 THEN pc \in {"complete", "done"} ELSE k \notin tx
  /\ 1 \notin tx => pc \in {"done", "panicked"}

\* A channel is closed behind an error, or because all before it is over and empty.
ClosedInv ==
  \A k \in Hop : k \notin tx =>
    \/ DoomedFrom(k)
    \/ pc \in {"done", "panicked"} /\ \A j \in 1..k - 1 : j \notin tx /\ chan[j] = << >>

\* Nobody cancels a read without a cause, but for the end of its own producer.
TokenInv ==
  /\ token => cause # "none" \/ pc \in {"done", "panicked"}
  /\ timer = "flagged" => cause # "none"

\* The engine has handed over everything when it says so, unless somebody cut it.
LeftInv ==
  (/\ cause = "none" /\ pc # "panicked" /\ ~DoomedFrom(1)
   /\ pc = "commit" \/ result = "ok" \/ (pc \in {"complete", "done"} /\ schema = "ok")) => left = 0

\* The batches the producer still has to push.
InHand == left + (IF pc = "send" THEN 1 ELSE 0)

\* passed[k] batches have gone through channel k, passed[0] into the first: the
\* difference is in the channel, and over a stretch of empty channels there is none.
Passed(passed) ==
  /\ passed[hops] = got
  /\ \A k \in Hop : passed[k - 1] = passed[k] + Len(chan[k])
  /\ \A k \in Hop : (\A j \in 1..k : chan[j] = << >>) => passed[k] = passed[0]
  /\ (cause = "none" /\ pc # "panicked") => passed[0] + InHand = total

CountInv == DoomedFrom(1) \/ \E passed \in [0..hops -> Nat] : Passed(passed)

PathInv == ConsumerInv /\ ReceiverInv /\ LastInv /\ ClosedInv /\ TokenInv /\ LeftInv

-----------------------------------------------------------------------------
\* A relay or a consumer that takes an item leaves a sequence of items.
LEMMA TakeOne ==
  ASSUME NEW s \in Seq(Items), s # << >>
  PROVE  Head(s) \in Items /\ Tail(s) \in Seq(Items)
  OBVIOUS

\* SendBatch keeps the channels sequences of items.
LEMMA SendType ==
  ASSUME TypeOK, NEW item \in Items, NEW next, NEW broken, SendBatch(item, next, broken)
  PROVE  /\ chan' \in [Hop -> Seq(Items)]
         /\ tx' \subseteq Hop /\ rx' \subseteq Hop
         /\ pc' \in {next, broken}
<1>1. chan' = chan \/ chan' = [chan EXCEPT ![1] = Append(@, item)]
  BY DEF SendBatch
<1>2. 1 \in Hop
  BY StreamAssumption DEF Hop, TypeOK
<1>3. [chan EXCEPT ![1] = Append(@, item)] \in [Hop -> Seq(Items)]
  BY <1>2 DEF TypeOK
<1> QED
  BY <1>1, <1>3 DEF TypeOK, SendBatch

\* The request itself, and with it the chain of channels, never changes.
LEMMA PathStays == Next => hops' = hops /\ total' = total /\ Hop' = Hop
<1> SUFFICES ASSUME Next PROVE hops' = hops /\ total' = total
  BY DEF Hop
<1> USE DEF request
<1>1. ASSUME Producer PROVE hops' = hops /\ total' = total
  BY <1>1 DEF Producer, Begin, Execute, PushSchema, Fetch, Send, Commit, Rollback, Release,
              Report, Deliver, Complete
<1>2. ASSUME Relays \/ \E k \in 1..hops - 1 : RelayFails(k)
      PROVE  hops' = hops /\ total' = total
  BY <1>2 DEF Relays, Relay, RelayEnds, RelayFails
<1>3. ASSUME Consumer \/ Hangup PROVE hops' = hops /\ total' = total
  BY <1>3 DEF Consumer, SchemaArrives, Take, StreamEnds, MetaArrives, Hangup
<1>4. ASSUME \/ Interrupt \/ Panic
             \/ DeadlineExpires \/ DeadlineCancels \/ CallerCancels \/ RegistryCancels
      PROVE  hops' = hops /\ total' = total
  BY <1>4 DEF Interrupt, Panic, DeadlineExpires, DeadlineCancels, CallerCancels, RegistryCancels
<1> QED
  BY <1>1, <1>2, <1>3, <1>4 DEF Next

\* The producer's steps keep the types.
LEMMA ProducerType == TypeOK /\ CleanInv /\ (Producer \/ Interrupt \/ Panic) => TypeOK'
<1> SUFFICES ASSUME TypeOK, CleanInv, Producer \/ Interrupt \/ Panic PROVE TypeOK'
  OBVIOUS
<1>0. hops' = hops /\ total' = total /\ Hop' = Hop
  BY PathStays DEF Next
<1> USE StreamAssumption, <1>0
    DEF TypeOK, Failures, engineVars, oneshots, channels, consumerVars, abortVars
<1>1. ASSUME Begin PROVE TypeOK'
  BY <1>1 DEF Begin
<1>2. ASSUME Execute PROVE TypeOK'
  BY <1>2 DEF Execute
<1>3. ASSUME PushSchema PROVE TypeOK'
  BY <1>3 DEF PushSchema
<1>4. ASSUME Fetch PROVE TypeOK'
  BY <1>4 DEF Fetch
<1>5. ASSUME Send PROVE TypeOK'
  <2>1. /\ chan' \in [Hop -> Seq(Items)] /\ tx' \subseteq Hop /\ rx' \subseteq Hop
        /\ pc' \in {"fetch", "commit"}
    BY <1>5, SendType DEF Send, Items
  <2> QED
    BY <1>5, <2>1 DEF Send
<1>6. ASSUME Commit PROVE TypeOK'
  <2>1. txn' \in BOOLEAN
    BY <1>6, Zenon DEF Commit
  <2> QED
    BY <1>6, <2>1 DEF Commit
<1>7. ASSUME Rollback PROVE TypeOK'
  <2>1. txn' \in BOOLEAN
    BY <1>7, Zenon DEF Rollback
  <2> QED
    BY <1>7, <2>1 DEF Rollback
<1>8. ASSUME Release PROVE TypeOK'
  BY <1>8 DEF Release
<1>9. ASSUME Report PROVE TypeOK'
  BY <1>9 DEF Report, Classify, CleanInv
<1>10. ASSUME Deliver PROVE TypeOK'
  <2>1. result \in Items
    BY <1>10 DEF Deliver, CleanInv, Items
  <2>2. /\ chan' \in [Hop -> Seq(Items)] /\ tx' \subseteq Hop /\ rx' \subseteq Hop
        /\ pc' = "complete"
    BY <1>10, <2>1, SendType DEF Deliver
  <2> QED
    BY <1>10, <2>2 DEF Deliver
<1>11. ASSUME Complete PROVE TypeOK'
  <2>1. inflight' \in BOOLEAN /\ token' \in BOOLEAN
    BY <1>11, Zenon DEF Complete, DropProducer
  <2> QED
    BY <1>11, <2>1 DEF Complete, DropProducer
<1>12. ASSUME Interrupt PROVE TypeOK'
  BY <1>12 DEF Interrupt
<1>13. ASSUME Panic PROVE TypeOK'
  <2>1. txn' \in BOOLEAN /\ token' \in BOOLEAN
    BY <1>13, Zenon DEF Panic, DropProducer
  <2> QED
    BY <1>13, <2>1 DEF Panic, DropProducer
<1> QED
  BY <1>1, <1>2, <1>3, <1>4, <1>5, <1>6, <1>7, <1>8, <1>9, <1>10, <1>11, <1>12, <1>13
     DEF Producer

\* The watcher, the relays and the consumer keep the types.
LEMMA SurroundingsType ==
  ASSUME TypeOK,
         \/ DeadlineExpires \/ DeadlineCancels \/ CallerCancels \/ RegistryCancels
         \/ \E k \in 1..hops - 1 : Relay(k) \/ RelayEnds(k) \/ RelayFails(k)
         \/ Consumer \/ Hangup
  PROVE  TypeOK'
<1>0. hops' = hops /\ total' = total /\ Hop' = Hop
  BY PathStays DEF Next, Relays
<1> USE StreamAssumption, <1>0
    DEF TypeOK, engineVars, oneshots, channels, consumerVars, abortVars
<1>1. ASSUME DeadlineExpires PROVE TypeOK'
  <2>1. expired' \in BOOLEAN
    BY <1>1, Zenon DEF DeadlineExpires
  <2> QED
    BY <1>1, <2>1 DEF DeadlineExpires, Trigger
<1>2. ASSUME DeadlineCancels PROVE TypeOK'
  <2>1. token' \in BOOLEAN
    BY <1>2, Zenon DEF DeadlineCancels
  <2> QED
    BY <1>2, <2>1 DEF DeadlineCancels
<1>3. ASSUME CallerCancels PROVE TypeOK'
  <2>1. token' \in BOOLEAN
    BY <1>3, Zenon DEF CallerCancels
  <2> QED
    BY <1>3, <2>1 DEF CallerCancels, Trigger
<1>4. ASSUME RegistryCancels PROVE TypeOK'
  <2>1. token' \in BOOLEAN
    BY <1>4, Zenon DEF RegistryCancels
  <2> QED
    BY <1>4, <2>1 DEF RegistryCancels, Trigger
<1>5. ASSUME NEW k \in 1..hops - 1, Relay(k) PROVE TypeOK'
  <2>1. k \in Hop /\ k + 1 \in Hop /\ k # k + 1
    BY DEF Hop
  <2>2. Head(chan[k]) \in Items /\ Tail(chan[k]) \in Seq(Items)
    BY <1>5, <2>1, TakeOne DEF Relay
  <2>3. [chan EXCEPT ![k] = Tail(@), ![k + 1] = Append(@, Head(chan[k]))]
          \in [Hop -> Seq(Items)]
    BY <2>1, <2>2
  <2>4. chan' \in [Hop -> Seq(Items)]
    BY <1>5, <2>3 DEF Relay
  <2> QED
    BY <1>5, <2>4 DEF Relay, RelayReturns
<1>6. ASSUME NEW k \in 1..hops - 1, RelayEnds(k) PROVE TypeOK'
  BY <1>6 DEF RelayEnds, RelayReturns
<1>7. ASSUME NEW k \in 1..hops - 1, RelayFails(k) PROVE TypeOK'
  <2>1. k + 1 \in Hop /\ "error" \in Items
    BY DEF Hop, Items, Failures
  <2>2. chan' \in [Hop -> Seq(Items)]
    BY <1>7, <2>1 DEF RelayFails
  <2> QED
    BY <1>7, <2>2 DEF RelayFails, RelayReturns
<1>8. ASSUME SchemaArrives PROVE TypeOK'
  BY <1>8 DEF SchemaArrives, Finish
<1>9. ASSUME Take PROVE TypeOK'
  <2>1. hops \in Hop
    BY DEF Hop
  <2>2. Head(chan[hops]) \in Items /\ Tail(chan[hops]) \in Seq(Items)
    BY <1>9, <2>1, TakeOne DEF Take
  <2>3. chan' \in [Hop -> Seq(Items)]
    BY <1>9, <2>1, <2>2 DEF Take
  <2>4. got' \in Nat
    BY <1>9 DEF Take
  <2>5. /\ cs' \in {"schema", "reading", "meta", "done"}
        /\ outcome' \in {"none", "end", "cap", "hungup"} \cup Failures
        /\ rx' \subseteq Hop
    BY <1>9, <2>2 DEF Take, Finish, Items
  <2> QED
    BY <1>9, <2>3, <2>4, <2>5 DEF Take
<1>10. ASSUME StreamEnds PROVE TypeOK'
  BY <1>10 DEF StreamEnds, Finish
<1>11. ASSUME MetaArrives PROVE TypeOK'
  BY <1>11 DEF MetaArrives, Finish
<1>12. ASSUME Hangup PROVE TypeOK'
  BY <1>12 DEF Hangup, Finish
<1> QED
  BY <1>1, <1>2, <1>3, <1>4, <1>5, <1>6, <1>7, <1>8, <1>9, <1>10, <1>11, <1>12
     DEF Consumer

-----------------------------------------------------------------------------
\* Only the producer's own steps can touch what CleanInv is about.
LEMMA CleanStep == TypeOK /\ CleanInv /\ [Next]_vars => CleanInv'
<1> SUFFICES ASSUME TypeOK, CleanInv, [Next]_vars PROVE CleanInv'
  OBVIOUS
<1> USE DEF CleanInv
<1>1. ASSUME Begin PROVE CleanInv'
  BY <1>1 DEF Begin
<1>2. ASSUME Execute PROVE CleanInv'
  BY <1>2 DEF Execute
<1>3. ASSUME PushSchema PROVE CleanInv'
  BY <1>3 DEF PushSchema
<1>4. ASSUME Fetch PROVE CleanInv'
  BY <1>4 DEF Fetch
<1>5. ASSUME Send PROVE CleanInv'
  BY <1>5 DEF Send, SendBatch
<1>6. ASSUME Commit PROVE CleanInv'
  BY <1>6 DEF Commit
<1>7. ASSUME Rollback PROVE CleanInv'
  BY <1>7 DEF Rollback
<1>8. ASSUME Release PROVE CleanInv'
  BY <1>8 DEF Release
<1>9. ASSUME Report PROVE CleanInv'
  BY <1>9 DEF Report, Classify, TypeOK, Failures
<1>10. ASSUME Deliver PROVE CleanInv'
  BY <1>10 DEF Deliver, SendBatch, Failures
<1>11. ASSUME Complete PROVE CleanInv'
  BY <1>11 DEF Complete
<1>12. ASSUME Interrupt PROVE CleanInv'
  BY <1>12 DEF Interrupt
<1>13. ASSUME Panic PROVE CleanInv'
  BY <1>13 DEF Panic
<1>14. ASSUME UNCHANGED <<pc, txn, conn, result>> PROVE CleanInv'
  BY <1>14
<1>15. ASSUME DeadlineExpires \/ DeadlineCancels \/ CallerCancels \/ RegistryCancels
       PROVE  CleanInv'
  BY <1>14, <1>15 DEF DeadlineExpires, DeadlineCancels, CallerCancels, RegistryCancels, engineVars
<1>16. ASSUME NEW k \in 1..hops - 1, Relay(k) \/ RelayEnds(k) \/ RelayFails(k)
       PROVE  CleanInv'
  BY <1>14, <1>16 DEF Relay, RelayEnds, RelayFails, engineVars
<1>17. ASSUME Consumer \/ Hangup PROVE CleanInv'
  BY <1>14, <1>17 DEF Consumer, SchemaArrives, Take, StreamEnds, MetaArrives, Hangup, engineVars
<1>18. CASE UNCHANGED vars
  BY <1>14, <1>18 DEF vars, engineVars
<1> QED
  BY <1>1, <1>2, <1>3, <1>4, <1>5, <1>6, <1>7, <1>8, <1>9, <1>10, <1>11, <1>12, <1>13,
     <1>15, <1>16, <1>17, <1>18 DEF Next, Producer, Relays

\* Types and CleanInv are inductive together.
LEMMA StreamCorrect == Spec => [](TypeOK /\ CleanInv)
<1>1. Init => TypeOK /\ CleanInv
  <2> SUFFICES ASSUME Init PROVE TypeOK /\ CleanInv
    OBVIOUS
  <2>1. txn \in BOOLEAN /\ inflight \in BOOLEAN /\ token \in BOOLEAN /\ expired \in BOOLEAN
    BY Zenon DEF Init
  <2>2. TypeOK
    BY <2>1, StreamAssumption DEF Init, TypeOK, Hop
  <2>3. CleanInv
    BY DEF Init, CleanInv
  <2> QED
    BY <2>2, <2>3
<1>2. TypeOK /\ CleanInv /\ [Next]_vars => TypeOK' /\ CleanInv'
  <2> SUFFICES ASSUME TypeOK, CleanInv, [Next]_vars PROVE TypeOK'
    BY CleanStep
  <2>1. CASE UNCHANGED vars
    BY <2>1 DEF TypeOK, Hop, vars, request, engineVars, oneshots, channels, consumerVars, abortVars
  <2>2. CASE Next
    BY <2>2, ProducerType, SurroundingsType DEF Next, Relays
  <2> QED
    BY <2>1, <2>2
<1> QED
  BY <1>1, <1>2, PTL DEF Spec

\* read_arrow's channels, verdicts and counters keep their types.
THEOREM StreamTypeCorrect == Spec => []TypeOK
  BY StreamCorrect, PTL

\* with_read never gives a connection with an open transaction back to the pool.
THEOREM PooledIsCleanHolds == Spec => []PooledIsClean
<1>1. TypeOK /\ CleanInv => PooledIsClean
  BY DEF CleanInv, PooledIsClean
<1> QED
  BY <1>1, StreamCorrect, PTL
-----------------------------------------------------------------------------
(* A stream that nobody cut is whole. *)

\* What the last item is after one is taken, and after one is added.
LEMMA LastItem ==
  ASSUME NEW s \in Seq(Items)
  PROVE  /\ s # << >> => /\ Len(s) \in Nat \ {0} /\ Len(Tail(s)) = Len(s) - 1
                         /\ (Len(s) = 1 => Tail(s) = << >> /\ s[Len(s)] = Head(s))
                         /\ (Tail(s) # << >> => Tail(s)[Len(Tail(s))] = s[Len(s)])
                         /\ (Len(s) # 1 => Tail(s) # << >>)
         /\ \A item \in Items : /\ Append(s, item) # << >> /\ Len(Append(s, item)) = Len(s) + 1
                                /\ Append(s, item)[Len(Append(s, item))] = item
<1>1. ASSUME s # << >>
      PROVE  /\ Len(s) \in Nat \ {0} /\ Len(Tail(s)) = Len(s) - 1
             /\ (Len(s) = 1 => Tail(s) = << >> /\ s[Len(s)] = Head(s))
             /\ (Tail(s) # << >> => Tail(s)[Len(Tail(s))] = s[Len(s)])
             /\ (Len(s) # 1 => Tail(s) # << >>)
  <2>1. Len(s) \in Nat \ {0} /\ Len(Tail(s)) = Len(s) - 1 /\ Tail(s) \in Seq(Items)
    BY <1>1
  <2>e. \A t \in Seq(Items) : t = << >> <=> Len(t) = 0
    OBVIOUS
  <2> DEFINE t == Tail(s)
  <2>f. t \in Seq(Items) /\ Len(t) = Len(s) - 1
    BY <2>1
  <2> HIDE DEF t
  <2>g. t = << >> <=> Len(s) = 1
    <3>1. t = << >> <=> Len(t) = 0
      BY <2>e, <2>f, Zenon
    <3>2. Len(t) = 0 <=> Len(s) = 1
      BY <2>1, <2>f
    <3> QED BY <3>1, <3>2, Zenon
  <2>2. Len(s) = 1 => Tail(s) = << >>
    BY <2>g DEF t
  <2>3. s[1] = Head(s)
    BY <1>1
  <2>4. Tail(s) # << >> => Len(s) - 1 \in 1..Len(s) - 1
    BY <2>1
  <2>5. \A i \in 1..Len(s) - 1 : Tail(s)[i] = s[i + 1]
    BY <1>1
  <2>6. Tail(s) # << >> => Tail(s)[Len(Tail(s))] = s[Len(s)]
    BY <2>1, <2>4, <2>5
  <2>7. Len(s) # 1 => Tail(s) # << >>
    BY <2>g DEF t
  <2> QED BY <2>1, <2>2, <2>3, <2>6, <2>7
<1>2. ASSUME NEW item \in Items
      PROVE  /\ Append(s, item) # << >> /\ Len(Append(s, item)) = Len(s) + 1
             /\ Append(s, item)[Len(Append(s, item))] = item
  OBVIOUS
<1> QED BY <1>1, <1>2

\* The steps on the channels: the producer pushes an item,
Pushes(item) ==
  /\ chan' = [chan EXCEPT ![1] = Append(@, item)]
  /\ \/ pc = "send" /\ item = "batch" /\ pc' = "fetch"
     \/ pc = "deliver" /\ item \in Failures /\ pc' = "complete"
  /\ UNCHANGED <<tx, rx, left, result, schema, consumerVars, abortVars>>

\* or drops its sender;
Drops ==
  /\ pc \in {"complete", "fetch"} /\ pc' \in {"done", "panicked"} /\ tx' = tx \ {1}
  /\ UNCHANGED <<chan, rx, consumerVars, cause>>

\* a relay passes an item on,
Passes(k) ==
  /\ k + 1 \in tx /\ chan[k] # << >>
  /\ chan' = [chan EXCEPT ![k] = Tail(@), ![k + 1] = Append(@, Head(chan[k]))]
  /\ IF Head(chan[k]) = "batch" THEN UNCHANGED tx ELSE tx' = tx \ {k + 1}
  /\ UNCHANGED <<engineVars, oneshots, consumerVars, abortVars>>

\* finds its receiver gone or its input at its end,
Returns(k) ==
  /\ k + 1 \in tx /\ tx' = tx \ {k + 1}
  /\ k + 1 \notin rx \/ (chan[k] = << >> /\ k \notin tx)
  /\ UNCHANGED <<chan, engineVars, oneshots, consumerVars, abortVars>>

\* or fails.
Fails(k) ==
  /\ k + 1 \in tx /\ tx' = tx \ {k + 1}
  /\ chan' = [chan EXCEPT ![k + 1] = Append(@, "error")]
  /\ UNCHANGED <<engineVars, oneshots, consumerVars, abortVars>>

\* Every step is one of these, takes an item, or leaves channels and senders alone.
LEMMA ChannelStep ==
  ASSUME TypeOK, CleanInv, [Next]_vars
  PROVE  \/ UNCHANGED <<chan, tx, got>>
         \/ Drops
         \/ \E item \in Items : Pushes(item)
         \/ \E k \in 1..hops - 1 : Passes(k) \/ Returns(k) \/ Fails(k)
         \/ Take
<1> USE DEF channels, consumerVars
<1>1. CASE Begin \/ Execute \/ PushSchema \/ Fetch \/ Commit \/ Rollback \/ Release \/ Report \/ Interrupt
  BY <1>1 DEF Begin, Execute, PushSchema, Fetch, Commit, Rollback, Release, Report, Interrupt
<1>2. CASE Send
  <2>1. "batch" \in Items
    BY DEF Items
  <2>2. UNCHANGED <<chan, tx, got>> \/ Pushes("batch")
    BY <1>2 DEF Send, SendBatch, Pushes, oneshots
  <2> QED BY <2>1, <2>2
<1>3. CASE Deliver
  <2>1. result \in Failures
    BY <1>3 DEF Deliver, CleanInv
  <2>2. UNCHANGED <<chan, tx, got>> \/ Pushes(result)
    BY <1>3, <2>1 DEF Deliver, SendBatch, Pushes, oneshots
  <2> QED BY <2>1, <2>2 DEF Items
<1>4. CASE Complete \/ Panic
  BY <1>4 DEF Complete, Panic, DropProducer, Drops
<1>5. CASE DeadlineExpires \/ DeadlineCancels \/ CallerCancels \/ RegistryCancels
  BY <1>5 DEF DeadlineExpires, DeadlineCancels, CallerCancels, RegistryCancels
<1>6. ASSUME NEW k \in 1..hops - 1, Relay(k)
      PROVE  Passes(k) \/ Returns(k)
  BY <1>6 DEF Relay, Relaying, RelayReturns, Passes, Returns
<1>7. ASSUME NEW k \in 1..hops - 1, RelayEnds(k)
      PROVE  Returns(k)
  BY <1>7 DEF RelayEnds, Relaying, RelayReturns, Returns
<1>8. ASSUME NEW k \in 1..hops - 1, RelayFails(k)
      PROVE  Fails(k)
  BY <1>8 DEF RelayFails, Relaying, RelayReturns, Fails
<1>9. CASE SchemaArrives \/ StreamEnds \/ MetaArrives \/ Hangup
  BY <1>9 DEF SchemaArrives, StreamEnds, MetaArrives, Hangup
<1>10. CASE UNCHANGED vars
  BY <1>10 DEF vars
<1> QED BY <1>1, <1>2, <1>3, <1>4, <1>5, <1>6, <1>7, <1>8, <1>9, <1>10 DEF Next, Producer, Relays, Consumer

\* A producer that completes, is done or has panicked stays so; a cause is for good.
LEMMA ProducerStays ==
  ASSUME [Next]_vars
  PROVE  /\ pc \in {"complete", "done"} => pc' \in {"complete", "done"}
         /\ pc \in {"done", "panicked"} => pc' = pc
         /\ cause # "none" => cause' # "none"
<1> USE DEF engineVars, abortVars
<1>1. CASE Producer \/ Interrupt
  BY <1>1 DEF Producer, Begin, Execute, PushSchema, Fetch, Send, SendBatch, Commit, Rollback, Release,
              Report, Deliver, Complete, DropProducer, Interrupt
<1>2. CASE Panic
  BY <1>2 DEF Panic, DropProducer
<1>3. CASE DeadlineExpires \/ DeadlineCancels \/ CallerCancels \/ RegistryCancels
  BY <1>3 DEF DeadlineExpires, DeadlineCancels, CallerCancels, RegistryCancels, Trigger
<1>4. CASE Relays \/ \E k \in 1..hops - 1 : RelayFails(k)
  BY <1>4 DEF Relays, Relay, RelayEnds, RelayFails
<1>5. CASE Consumer \/ Hangup
  BY <1>5 DEF Consumer, SchemaArrives, Take, StreamEnds, MetaArrives, Hangup
<1>6. CASE UNCHANGED vars
  BY <1>6 DEF vars
<1> QED BY <1>1, <1>2, <1>3, <1>4, <1>5, <1>6 DEF Next

\* The path is what it was.
LEMMA SamePath ==
  ASSUME TypeOK, [Next]_vars
  PROVE  /\ hops' = hops /\ total' = total /\ Hop' = Hop
         /\ hops \in Nat \ {0} /\ 1 \in Hop /\ hops \in Hop
<1>1. hops' = hops /\ total' = total
  BY PathStays DEF vars, request
<1> QED BY <1>1, StreamAssumption DEF TypeOK, Hop

\* Once the consumer is cut off it stays so.
LEMMA CutStays ==
  ASSUME TypeOK, ConsumerInv, Cut, [Next]_vars
  PROVE  Cut'
<1>0. cs = "done"
  BY DEF ConsumerInv, Cut
<1>1. UNCHANGED outcome
  BY <1>0 DEF Next, Producer, Begin, Execute, PushSchema, Fetch, Send, Commit, Rollback, Release,
     Report, Deliver, Complete, Interrupt, Panic, DeadlineExpires, DeadlineCancels, CallerCancels,
     RegistryCancels, Relays, Relay, RelayEnds, RelayFails, Consumer, SchemaArrives, Take,
     StreamEnds, MetaArrives, Hangup, consumerVars, vars
<1> QED BY <1>1 DEF Cut

\* An error stays the last item of its channel, is passed on, or reaches the consumer.
LEMMA ErrorStays ==
  ASSUME TypeOK, CleanInv, LastInv, [Next]_vars, NEW j \in Hop, Broken(j)
  PROVE  Broken(j)' \/ (j + 1 \in Hop /\ Broken(j + 1)') \/ Cut'
<1>0. hops' = hops /\ 1 \in Hop /\ hops \in Hop /\ hops \in Nat \ {0}
  BY SamePath
<1>t. chan \in [Hop -> Seq(Items)]
  BY DEF TypeOK
<1>s. chan'[j] = chan[j] => Broken(j)'
  BY DEF Broken
<1>1. CASE UNCHANGED <<chan, tx, got>> \/ Drops \/ \E k \in 1..hops - 1 : Returns(k)
  BY <1>1, <1>s DEF Drops, Returns
<1>2. ASSUME NEW item \in Items, Pushes(item)
      PROVE  Broken(j)'
  <2>1. j # 1
    BY <1>2 DEF Pushes, LastInv
  <2> QED BY <1>2, <1>t, <1>s, <2>1 DEF Pushes
<1>3. ASSUME NEW k \in 1..hops - 1, Passes(k)
      PROVE  Broken(j)' \/ (j + 1 \in Hop /\ Broken(j + 1)')
  <2>0. k \in Hop /\ k + 1 \in Hop /\ k # k + 1 /\ k + 1 # 1
    BY <1>0 DEF Hop
  <2>1. j # k + 1
    BY <1>3, <2>0 DEF Passes, LastInv
  <2>h. chan[k] \in Seq(Items) /\ Head(chan[k]) \in Items
    BY <1>3, <1>t, <2>0, TakeOne DEF Passes
  <2>c. /\ chan'[k] = Tail(chan[k]) /\ chan'[k + 1] = Append(chan[k + 1], Head(chan[k]))
        /\ \A i \in Hop \ {k, k + 1} : chan'[i] = chan[i]
    BY <1>3, <1>t, <2>0 DEF Passes
  <2>2. CASE j # k
    BY <1>s, <2>1, <2>2, <2>c
  <2>3. CASE j = k /\ Len(chan[k]) = 1
    <3>1. Head(chan[k]) # "batch"
      BY <2>3, <2>h, LastItem DEF Broken
    <3>2. Broken(k + 1)'
      BY <1>t, <2>0, <2>c, <2>h, <3>1, LastItem DEF Broken
    <3> QED BY <2>0, <2>3, <3>2
  <2>4. CASE j = k /\ Len(chan[k]) # 1
    <3>1. Tail(chan[k]) # << >> /\ Tail(chan[k])[Len(Tail(chan[k]))] = chan[k][Len(chan[k])]
      BY <1>3, <2>4, <2>h, LastItem DEF Passes
    <3> QED BY <2>4, <2>c, <3>1 DEF Broken
  <2> QED BY <2>2, <2>3, <2>4
<1>4. ASSUME NEW k \in 1..hops - 1, Fails(k)
      PROVE  Broken(j)'
  <2>0. k + 1 \in Hop /\ k + 1 # 1
    BY <1>0 DEF Hop
  <2>1. j # k + 1
    BY <1>4, <2>0 DEF Fails, LastInv
  <2> QED BY <1>4, <1>t, <1>s, <2>1 DEF Fails
<1>5. CASE Take
  <2>c. /\ chan[hops] \in Seq(Items) /\ chan[hops] # << >> /\ chan'[hops] = Tail(chan[hops])
        /\ \A i \in Hop \ {hops} : chan'[i] = chan[i]
    BY <1>0, <1>5, <1>t DEF Take
  <2>1. CASE j # hops
    BY <1>s, <2>1, <2>c
  <2>2. CASE j = hops /\ Len(chan[hops]) = 1
    <3>1. Head(chan[hops]) # "batch" /\ Head(chan[hops]) \in Items
      BY <2>2, <2>c, LastItem, TakeOne DEF Broken
    <3>2. outcome' = Head(chan[hops])
      BY <1>5, <3>1 DEF Take, Finish
    <3> QED BY <3>1, <3>2 DEF Cut, Items, Failures
  <2>3. CASE j = hops /\ Len(chan[hops]) # 1
    <3>1. Tail(chan[hops]) # << >> /\ Tail(chan[hops])[Len(Tail(chan[hops]))] = chan[hops][Len(chan[hops])]
      BY <2>3, <2>c, LastItem
    <3> QED BY <1>0, <2>3, <2>c, <3>1 DEF Broken
  <2> QED BY <2>1, <2>2, <2>3
<1> QED BY <1>1, <1>2, <1>3, <1>4, <1>5, ChannelStep

\* So a stream that is doomed stays doomed.
LEMMA DoomStays ==
  ASSUME TypeOK, CleanInv, ConsumerInv, LastInv, [Next]_vars, NEW k \in Hop, DoomedFrom(k)
  PROVE  DoomedFrom(k)'
<1>0. hops' = hops /\ hops \in Nat \ {0}
  BY SamePath
<1>1. CASE Cut
  BY <1>1, CutStays DEF DoomedFrom
<1>2. ASSUME NEW j \in k..hops, Broken(j)
      PROVE  DoomedFrom(k)'
  <2>1. j \in Hop
    BY <1>0 DEF Hop
  <2>2. Broken(j)' \/ (j + 1 \in k..hops /\ Broken(j + 1)') \/ Cut'
    BY <1>0, <1>2, <2>1, ErrorStays DEF Hop
  <2> QED BY <1>0, <2>2 DEF DoomedFrom
<1> QED BY <1>1, <1>2 DEF DoomedFrom

\* A receiver that is gone before its stream is over has a doomed consumer.
LEMMA GoneIsDoomed ==
  ASSUME TypeOK, ReceiverInv, ClosedInv, NEW k \in Hop, k \notin rx,
         k \in tx \/ pc \notin {"done", "panicked"}
  PROVE  DoomedFrom(k)
<1>0. hops \in Nat \ {0} /\ k \in 1..hops
  BY StreamAssumption DEF TypeOK, Hop
<1>1. CASE Cut
  BY <1>1 DEF DoomedFrom
<1>2. CASE ~Cut
  <2>1. k \in 1..hops - 1 /\ k + 1 \notin tx /\ k + 1 \in Hop
    BY <1>0, <1>2 DEF ReceiverInv, Hop
  <2>2. \/ DoomedFrom(k + 1)
        \/ pc \in {"done", "panicked"} /\ \A j \in 1..(k + 1) - 1 : j \notin tx /\ chan[j] = << >>
    BY <2>1 DEF ClosedInv
  <2>3. k \in 1..(k + 1) - 1
    BY <1>0
  <2>4. DoomedFrom(k + 1)
    BY <2>2, <2>3
  <2> QED BY <1>0, <1>2, <2>4 DEF DoomedFrom
<1> QED BY <1>1, <1>2

\* What the consumer knows stays true.
LEMMA ConsumerStep ==
  ASSUME TypeOK, CleanInv, ConsumerInv, LastInv, [Next]_vars
  PROVE  ConsumerInv'
<1>0. hops' = hops /\ hops \in Hop /\ hops \in Nat \ {0}
  BY SamePath
<1>e. (hops \notin tx /\ chan[hops] = << >>) => (hops \notin tx /\ chan[hops] = << >>)'
  <2> SUFFICES ASSUME hops \notin tx, chan[hops] = << >>
               PROVE  hops \notin tx' /\ chan'[hops] = << >>
    BY <1>0
  <2>1. CASE UNCHANGED <<chan, tx, got>> \/ Drops \/ \E k \in 1..hops - 1 : Returns(k)
    BY <2>1 DEF Drops, Returns
  <2>2. ASSUME NEW item \in Items, Pushes(item)
        PROVE  hops \notin tx' /\ chan'[hops] = << >>
    <3>1. hops # 1
      BY <2>2 DEF Pushes, LastInv
    <3> QED BY <1>0, <2>2, <3>1 DEF Pushes, TypeOK
  <2>3. ASSUME NEW k \in 1..hops - 1, Passes(k) \/ Fails(k)
        PROVE  hops \notin tx' /\ chan'[hops] = << >>
    <3>1. k # hops /\ k + 1 # hops
      BY <1>0, <2>3 DEF Passes, Fails
    <3> QED BY <1>0, <2>3, <3>1 DEF Passes, Fails, TypeOK
  <2>4. ~Take
    BY DEF Take
  <2> QED BY <2>1, <2>2, <2>3, <2>4, ChannelStep
<1>c. ASSUME UNCHANGED consumerVars, schema' = schema, pc' \in {"begin", "execute", "schema"} => pc \in {"begin", "execute", "schema"}
      PROVE  ConsumerInv'
  BY <1>0, <1>c, <1>e DEF ConsumerInv, Cut, consumerVars
<1>1. CASE Begin \/ Execute \/ Fetch \/ Commit \/ Rollback \/ Release \/ Interrupt
  BY <1>1, <1>c DEF Begin, Execute, Fetch, Commit, Rollback, Release, Interrupt, oneshots
<1>2. CASE Send \/ Deliver \/ Complete \/ Panic
  BY <1>2, <1>c DEF Send, Deliver, SendBatch, Complete, Panic, DropProducer, oneshots
<1>3. CASE PushSchema
  BY <1>0, <1>3, <1>e DEF PushSchema, ConsumerInv, Cut, consumerVars
<1>4. CASE Report
  <2>1. /\ schema' = schema \/ (schema = "waiting" /\ schema' # "waiting")
        /\ pc' \notin {"begin", "execute", "schema"} /\ UNCHANGED consumerVars
    BY <1>4 DEF Report, Classify, CleanInv, oneshots, TypeOK, Failures
  <2> QED BY <1>0, <2>1, <1>e DEF ConsumerInv, Cut, consumerVars
<1>5. CASE DeadlineExpires \/ DeadlineCancels \/ CallerCancels \/ RegistryCancels
  BY <1>5, <1>c DEF DeadlineExpires, DeadlineCancels, CallerCancels, RegistryCancels, engineVars, oneshots
<1>6. CASE Relays \/ \E k \in 1..hops - 1 : RelayFails(k)
  BY <1>6, <1>c DEF Relays, Relay, RelayEnds, RelayFails, engineVars, oneshots
<1>7. CASE SchemaArrives
  BY <1>0, <1>7 DEF SchemaArrives, Finish, ConsumerInv, Cut, Failures, engineVars, oneshots
<1>8. CASE Take
  <2>1. UNCHANGED <<pc, schema>> /\ cs = "reading"
    BY <1>8 DEF Take, engineVars, oneshots
  <2>2. (cs' = cs /\ outcome' = outcome) \/ (cs' = "done" /\ outcome' \in {"cap"} \cup Failures)
    <3>1. Head(chan[hops]) \in Items
      BY <1>0, <1>8, TakeOne DEF Take, TypeOK
    <3> QED BY <1>8, <3>1 DEF Take, Finish, Items
  <2> QED BY <1>0, <2>1, <2>2 DEF ConsumerInv, Cut, Failures
<1>9. CASE StreamEnds
  BY <1>0, <1>9 DEF StreamEnds, Finish, ConsumerInv, Cut, engineVars, oneshots, channels
<1>10. CASE MetaArrives \/ Hangup
  BY <1>0, <1>10, <1>e DEF MetaArrives, Hangup, Finish, ConsumerInv, Cut, engineVars, oneshots, channels
<1>11. CASE UNCHANGED vars
  BY <1>11, <1>c DEF vars, engineVars, oneshots
<1> QED BY <1>1, <1>2, <1>3, <1>4, <1>5, <1>6, <1>7, <1>8, <1>9, <1>10, <1>11 DEF Next, Producer, Consumer

\* A receiver goes only with its relay, or with the consumer.
LEMMA ReceiverStep ==
  ASSUME TypeOK, ConsumerInv, ReceiverInv, [Next]_vars
  PROVE  ReceiverInv'
<1>0. hops' = hops /\ hops \in Nat \ {0}
  BY SamePath
<1>1. SUFFICES ASSUME ~Cut' PROVE hops \in rx' /\ \A k \in 1..hops - 1 : k \in rx' \/ k + 1 \notin tx'
  BY <1>0 DEF ReceiverInv
<1>2. hops \in rx /\ \A k \in 1..hops - 1 : k \in rx \/ k + 1 \notin tx
  BY <1>1, CutStays DEF ReceiverInv
<1>3. CASE rx' = rx /\ tx' \subseteq tx
  BY <1>2, <1>3
<1>4. CASE Producer \/ Interrupt \/ Panic
  BY <1>3, <1>4 DEF Producer, Begin, Execute, PushSchema, Fetch, Send, SendBatch, Commit, Rollback,
     Release, Report, Deliver, Complete, DropProducer, Interrupt, Panic, channels
<1>5. CASE DeadlineExpires \/ DeadlineCancels \/ CallerCancels \/ RegistryCancels \/ UNCHANGED vars
  BY <1>3, <1>5 DEF DeadlineExpires, DeadlineCancels, CallerCancels, RegistryCancels, vars, channels
<1>6. ASSUME NEW k \in 1..hops - 1, Relay(k) \/ RelayEnds(k) \/ RelayFails(k)
      PROVE  hops \in rx' /\ \A j \in 1..hops - 1 : j \in rx' \/ j + 1 \notin tx'
  <2>1. (rx' = rx /\ tx' = tx) \/ (tx' = tx \ {k + 1} /\ rx' = rx \ {k})
    BY <1>6 DEF Relay, RelayEnds, RelayFails, RelayReturns
  <2> QED BY <1>0, <1>2, <2>1
<1>7. CASE SchemaArrives \/ StreamEnds \/ MetaArrives
  <2>1. rx' = rx /\ tx' = tx
    BY <1>1, <1>7 DEF SchemaArrives, StreamEnds, MetaArrives, Finish, Cut, Failures, channels
  <2> QED BY <1>3, <2>1
<1>8. CASE Take
  <2>1. (rx' = rx \/ outcome' = "cap" \/ outcome' = Head(chan[hops])) /\ tx' = tx
    BY <1>8 DEF Take, Finish
  <2>2. outcome' = Head(chan[hops]) => outcome' \in Failures \/ outcome' = "batch"
    <3>1. Head(chan[hops]) \in Items
      BY <1>0, <1>8, TakeOne DEF Take, TypeOK, Hop
    <3> QED BY <3>1 DEF Items
  <2> QED BY <1>1, <1>3, <2>1, <2>2 DEF Cut, Failures
<1>9. ~Hangup
  BY <1>1 DEF Hangup, Finish, Cut
<1> QED BY <1>4, <1>5, <1>6, <1>7, <1>8, <1>9 DEF Next, Relays, Consumer

\* Nothing follows an error.
LEMMA LastStep ==
  ASSUME TypeOK, CleanInv, LastInv, [Next]_vars
  PROVE  LastInv'
<1>0. hops' = hops /\ Hop' = Hop /\ 1 \in Hop /\ hops \in Hop /\ hops \in Nat \ {0}
  BY SamePath
<1>t. chan \in [Hop -> Seq(Items)]
  BY DEF TypeOK
<1>s. ASSUME NEW j \in Hop, Broken(j), tx' \subseteq tx
      PROVE  IF j = 1 THEN pc' \in {"complete", "done"} ELSE j \notin tx'
  BY <1>s, ProducerStays DEF LastInv
<1>u. (1 \notin tx => pc' \in {"done", "panicked"}) /\ (1 \notin tx => pc \in {"done", "panicked"})
  BY ProducerStays DEF LastInv
<1>1. ASSUME tx' \subseteq tx, 1 \in tx \ tx' => pc' \in {"done", "panicked"},
             \A j \in Hop : Broken(j)' => Broken(j) \/ (IF j = 1 THEN pc' \in {"complete", "done"} ELSE j \notin tx')
      PROVE  LastInv'
  <2>1. ASSUME NEW j \in Hop, Broken(j)'
        PROVE  IF j = 1 THEN pc' \in {"complete", "done"} ELSE j \notin tx'
    BY <1>1, <1>s, <2>1
  <2>2. 1 \notin tx' => pc' \in {"done", "panicked"}
    BY <1>1, <1>u
  <2> QED BY <1>0, <2>1, <2>2 DEF LastInv
<1>2. CASE UNCHANGED <<chan, tx, got>> \/ Drops \/ \E k \in 1..hops - 1 : Returns(k)
  <2>1. chan' = chan /\ tx' \subseteq tx /\ (1 \in tx \ tx' => pc' \in {"done", "panicked"})
    BY <1>0, <1>2 DEF Drops, Returns
  <2>2. \A j \in Hop : Broken(j)' => Broken(j)
    BY <2>1 DEF Broken
  <2> QED BY <1>1, <2>1, <2>2
<1>3. ASSUME NEW item \in Items, Pushes(item)
      PROVE  LastInv'
  <2>1. tx' = tx /\ chan'[1] = Append(chan[1], item) /\ \A j \in Hop \ {1} : chan'[j] = chan[j]
    BY <1>0, <1>3, <1>t DEF Pushes
  <2>2. Broken(1)' => pc' = "complete"
    <3>1. chan'[1][Len(chan'[1])] = item
      BY <1>0, <1>t, <2>1, LastItem
    <3> QED BY <1>3, <3>1 DEF Broken, Pushes
  <2>3. \A j \in Hop \ {1} : Broken(j)' => Broken(j)
    BY <2>1 DEF Broken
  <2> QED BY <1>1, <2>1, <2>2, <2>3
<1>4. ASSUME NEW k \in 1..hops - 1, Passes(k)
      PROVE  LastInv'
  <2>0. k \in Hop /\ k + 1 \in Hop /\ k # k + 1 /\ k + 1 # 1
    BY <1>0 DEF Hop
  <2>h. chan[k] \in Seq(Items) /\ Head(chan[k]) \in Items /\ chan[k] # << >>
    BY <1>4, <1>t, <2>0, TakeOne DEF Passes
  <2>c. /\ chan'[k] = Tail(chan[k]) /\ chan'[k + 1] = Append(chan[k + 1], Head(chan[k]))
        /\ \A i \in Hop \ {k, k + 1} : chan'[i] = chan[i]
    BY <1>4, <1>t, <2>0 DEF Passes
  <2>1. tx' \subseteq tx /\ 1 \notin tx \ tx'
    BY <1>4, <2>0 DEF Passes
  <2>2. Broken(k)' => Broken(k)
    BY <2>c, <2>h, LastItem DEF Broken
  <2>3. Broken(k + 1)' => k + 1 \notin tx'
    <3>1. chan'[k + 1][Len(chan'[k + 1])] = Head(chan[k])
      BY <1>t, <2>0, <2>c, <2>h, LastItem
    <3> QED BY <1>4, <3>1 DEF Broken, Passes
  <2>4. \A j \in Hop \ {k, k + 1} : Broken(j)' => Broken(j)
    BY <2>c DEF Broken
  <2> QED BY <1>1, <2>0, <2>1, <2>2, <2>3, <2>4
<1>5. ASSUME NEW k \in 1..hops - 1, Fails(k)
      PROVE  LastInv'
  <2>0. k + 1 \in Hop /\ k + 1 # 1
    BY <1>0 DEF Hop
  <2>1. tx' = tx \ {k + 1} /\ \A i \in Hop \ {k + 1} : chan'[i] = chan[i]
    BY <1>5, <1>t DEF Fails
  <2>2. \A j \in Hop \ {k + 1} : Broken(j)' => Broken(j)
    BY <2>1 DEF Broken
  <2> QED BY <1>1, <2>0, <2>1, <2>2
<1>6. CASE Take
  <2>c. /\ chan[hops] \in Seq(Items) /\ chan[hops] # << >> /\ chan'[hops] = Tail(chan[hops])
        /\ tx' = tx /\ \A i \in Hop \ {hops} : chan'[i] = chan[i]
    BY <1>0, <1>6, <1>t DEF Take
  <2>1. Broken(hops)' => Broken(hops)
    BY <1>0, <2>c, LastItem DEF Broken
  <2>2. \A j \in Hop \ {hops} : Broken(j)' => Broken(j)
    BY <2>c DEF Broken
  <2> QED BY <1>0, <1>1, <2>c, <2>1, <2>2
<1> QED BY <1>2, <1>3, <1>4, <1>5, <1>6, ChannelStep

\* A channel is closed behind an error or at the end of everything before it.
LEMMA ClosedStep ==
  ASSUME TypeOK, CleanInv, ConsumerInv, ReceiverInv, LastInv, ClosedInv, [Next]_vars
  PROVE  ClosedInv'
<1>0. hops' = hops /\ Hop' = Hop /\ 1 \in Hop /\ hops \in Hop /\ hops \in Nat \ {0}
  BY SamePath
<1>t. chan \in [Hop -> Seq(Items)]
  BY DEF TypeOK
<1> DEFINE Over(k) == pc' \in {"done", "panicked"} /\ \A j \in 1..k - 1 : j \notin tx' /\ chan'[j] = << >>
<1>1. SUFFICES ASSUME NEW k \in Hop, k \notin tx' PROVE DoomedFrom(k)' \/ Over(k)
  BY <1>0 DEF ClosedInv
<1>d. DoomedFrom(k) => DoomedFrom(k)'
  BY DoomStays
<1>k. k \in Nat /\ 1..k - 1 \subseteq Hop
  BY <1>0 DEF Hop
<1>c. k \notin tx => \/ DoomedFrom(k)'
                     \/ /\ pc \in {"done", "panicked"} /\ pc' = pc
                        /\ \A j \in 1..k - 1 : j \notin tx /\ chan[j] = << >>
  BY <1>d, ProducerStays DEF ClosedInv
<1>2. CASE UNCHANGED <<chan, tx, got>>
  BY <1>1, <1>2, <1>c
<1>3. CASE Drops
  <2>1. CASE k = 1
    BY <1>3, <2>1 DEF Drops
  <2>2. CASE k # 1
    <3>1. k \notin tx /\ pc \notin {"done", "panicked"}
      BY <1>1, <1>3, <2>2 DEF Drops
    <3> QED BY <1>c, <3>1
  <2> QED BY <2>1, <2>2
<1>4. ASSUME NEW item \in Items, Pushes(item)
      PROVE  DoomedFrom(k)'
  <2>1. k \notin tx /\ pc \notin {"done", "panicked"}
    BY <1>1, <1>4 DEF Pushes
  <2> QED BY <1>c, <2>1
<1>5. ASSUME NEW i \in 1..hops - 1, Passes(i) \/ Fails(i)
      PROVE  DoomedFrom(k)' \/ Over(k)
  <2>0. i \in Hop /\ i + 1 \in Hop /\ i # i + 1
    BY <1>0 DEF Hop
  <2>c. \A j \in Hop \ {i, i + 1} : chan'[j] = chan[j]
    BY <1>5, <1>t DEF Passes, Fails
  <2>f. Fails(i) => chan'[i] = chan[i]
    BY <1>t, <2>0 DEF Fails
  <2>1. CASE k \in tx
    <3>1. k = i + 1 /\ (Passes(i) => Head(chan[i]) # "batch")
      BY <1>1, <1>5, <2>1 DEF Passes, Fails
    <3>2. \E x \in Items : x # "batch" /\ chan'[k] = Append(chan[k], x)
      <4>1. CASE Passes(i)
        <5>1. Head(chan[i]) \in Items
          BY <1>t, <2>0, <4>1, TakeOne DEF Passes
        <5>2. chan'[i + 1] = Append(chan[i + 1], Head(chan[i]))
          BY <1>t, <2>0, <4>1 DEF Passes
        <5> QED BY <3>1, <4>1, <5>1, <5>2
      <4>2. CASE Fails(i)
        <5>1. "error" \in Items /\ chan'[i + 1] = Append(chan[i + 1], "error")
          BY <1>t, <2>0, <4>2 DEF Fails, Items, Failures
        <5> QED BY <3>1, <5>1
      <4> QED BY <1>5, <4>1, <4>2
    <3>3. Broken(k)'
      BY <1>t, <3>2, LastItem DEF Broken
    <3>4. k \in k..hops'
      BY <1>0 DEF Hop
    <3> QED BY <3>3, <3>4 DEF DoomedFrom
  <2>2. CASE k \notin tx
    <3>1. i + 1 \in tx /\ (Passes(i) => chan[i] # << >>) /\ tx' \subseteq tx /\ pc' = pc
      BY <1>5 DEF Passes, Fails, engineVars
    <3>2. ASSUME pc \in {"done", "panicked"} /\ \A j \in 1..k - 1 : j \notin tx /\ chan[j] = << >>
          PROVE  Over(k)
      <4>1. ASSUME NEW j \in 1..k - 1
            PROVE  j \notin tx' /\ chan'[j] = << >>
        <5>1. j \in Hop /\ j # i + 1 /\ j \notin tx /\ chan[j] = << >>
          BY <1>k, <3>1, <3>2
        <5>2. chan'[j] = chan[j]
          BY <1>5, <2>c, <2>f, <3>1, <5>1
        <5> QED BY <3>1, <5>1, <5>2
      <4> QED BY <3>1, <3>2, <4>1
    <3> QED BY <1>c, <2>2, <3>2
  <2> QED BY <2>1, <2>2
<1>6. ASSUME NEW i \in 1..hops - 1, Returns(i)
      PROVE  DoomedFrom(k)' \/ Over(k)
  <2>0. i \in Hop /\ i + 1 \in Hop /\ i \in Nat
    BY <1>0 DEF Hop
  <2>r. chan' = chan /\ pc' = pc /\ tx' = tx \ {i + 1} /\ i + 1 \in tx
    BY <1>6 DEF Returns, engineVars
  <2>1. CASE k \notin tx
    BY <1>c, <2>1, <2>r
  <2>2. CASE k \in tx /\ i + 1 \notin rx
    <3>1. k = i + 1
      BY <1>1, <2>2, <2>r
    <3> QED BY <1>d, <2>2, <3>1, GoneIsDoomed
  <2>3. CASE k \in tx /\ chan[i] = << >> /\ i \notin tx
    <3>1. k = i + 1
      BY <1>1, <2>3, <2>r
    <3>2. CASE DoomedFrom(i)
      <4>1. \A j \in i..hops : j = i \/ j \in (i + 1)..hops
        BY <1>0, <2>0
      <4>2. ~Broken(i)
        BY <2>3 DEF Broken
      <4>3. DoomedFrom(i + 1)
        BY <3>2, <4>1, <4>2 DEF DoomedFrom
      <4> QED BY <1>d, <3>1, <4>3
    <3>3. CASE pc \in {"done", "panicked"} /\ \A j \in 1..i - 1 : j \notin tx /\ chan[j] = << >>
      <4>1. \A j \in 1..k - 1 : j = i \/ j \in 1..i - 1
        BY <2>0, <3>1
      <4> QED BY <2>3, <2>r, <3>3, <4>1
    <3> QED BY <2>0, <2>3, <3>2, <3>3 DEF ClosedInv
  <2> QED BY <1>6, <2>1, <2>2, <2>3 DEF Returns
<1>7. CASE Take
  <2>1. tx' = tx /\ pc' = pc /\ \A j \in Hop \ {hops} : chan'[j] = chan[j]
    BY <1>0, <1>7, <1>t DEF Take, engineVars
  <2>2. \A j \in 1..k - 1 : j \in Hop \ {hops}
    BY <1>0, <1>1 DEF Hop
  <2> QED BY <1>1, <1>c, <2>1, <2>2
<1> QED BY <1>2, <1>3, <1>4, <1>5, <1>6, <1>7, ChannelStep

\* The token is cancelled for a reason.
LEMMA TokenStep ==
  ASSUME TypeOK, TokenInv, [Next]_vars
  PROVE  TokenInv'
<1> USE DEF TokenInv
<1>1. CASE DeadlineExpires \/ DeadlineCancels \/ CallerCancels \/ RegistryCancels
  BY <1>1 DEF DeadlineExpires, DeadlineCancels, CallerCancels, RegistryCancels, Trigger, engineVars
<1>2. CASE Complete \/ Panic
  BY <1>2 DEF Complete, Panic, DropProducer
<1>3. CASE UNCHANGED abortVars
  BY <1>3, ProducerStays DEF abortVars
<1>4. CASE Producer \/ Interrupt
  BY <1>2, <1>3, <1>4 DEF Producer, Begin, Execute, PushSchema, Fetch, Send, Commit, Rollback, Release,
     Report, Deliver, Interrupt
<1>5. CASE Relays \/ \E k \in 1..hops - 1 : RelayFails(k)
  BY <1>3, <1>5 DEF Relays, Relay, RelayEnds, RelayFails
<1>6. CASE Consumer \/ Hangup \/ UNCHANGED vars
  BY <1>3, <1>6 DEF Consumer, SchemaArrives, Take, StreamEnds, MetaArrives, Hangup, vars
<1> QED BY <1>1, <1>2, <1>4, <1>5, <1>6 DEF Next

\* A stream that is neither cut nor doomed after a step was neither before it, and
\* its producer was not turned away.
LEMMA UncutBefore ==
  ASSUME TypeOK, CleanInv, PathInv, [Next]_vars, cause' = "none", pc' # "panicked", ~DoomedFrom(1)'
  PROVE  /\ cause = "none" /\ pc # "panicked" /\ ~DoomedFrom(1)
         /\ pc \notin {"done", "panicked"} => 1 \in rx /\ ~token
<1>1. 1 \in Hop
  BY SamePath
<1>2. ~DoomedFrom(1)
  BY <1>1, DoomStays DEF PathInv
<1>3. cause = "none" /\ pc # "panicked"
  BY ProducerStays
<1>4. pc \notin {"done", "panicked"} => 1 \in rx
  BY <1>1, <1>2, GoneIsDoomed DEF PathInv
<1>5. pc \notin {"done", "panicked"} => ~token
  BY <1>3 DEF PathInv, TokenInv
<1> QED BY <1>2, <1>3, <1>4, <1>5

\* What is left of the result is what the producer has not handed over.
LEMMA LeftStep ==
  ASSUME TypeOK, CleanInv, PathInv, [Next]_vars
  PROVE  LeftInv'
<1>1. SUFFICES ASSUME cause' = "none", pc' # "panicked", ~DoomedFrom(1)',
                      pc' = "commit" \/ result' = "ok" \/ (pc' \in {"complete", "done"} /\ schema' = "ok")
               PROVE  left' = 0
  BY DEF LeftInv
<1>2. /\ cause = "none" /\ pc # "panicked" /\ ~DoomedFrom(1)
      /\ pc \notin {"done", "panicked"} => 1 \in rx /\ ~token
  BY <1>1, UncutBefore
<1>3. (pc = "commit" \/ result = "ok" \/ (pc \in {"complete", "done"} /\ schema = "ok")) => left = 0
  BY <1>2 DEF PathInv, LeftInv
<1>4. CASE Begin \/ Execute \/ Commit \/ Rollback \/ Release \/ Complete
  BY <1>1, <1>3, <1>4 DEF Begin, Execute, Commit, Rollback, Release, Complete, DropProducer, CleanInv, oneshots
<1>5. CASE PushSchema
  <2>1. cs = "schema"
    BY <1>2, <1>5 DEF PushSchema, PathInv, ConsumerInv, DoomedFrom
  <2> QED BY <1>1, <1>3, <1>5, <2>1 DEF PushSchema
<1>6. CASE Fetch
  BY <1>1, <1>2, <1>3, <1>6 DEF Fetch, CleanInv
<1>7. CASE Send
  BY <1>1, <1>2, <1>3, <1>7 DEF Send, SendBatch
<1>8. CASE Report
  BY <1>1, <1>3, <1>8 DEF Report, Classify
<1>9. CASE Deliver
  <2>1. result \in Failures /\ result \in Items
    BY <1>9 DEF Deliver, CleanInv, Items
  <2>2. chan' = [chan EXCEPT ![1] = Append(@, result)]
    BY <1>2, <1>9 DEF Deliver, SendBatch
  <2>3. 1 \in Hop /\ hops' = hops /\ 1 \in 1..hops'
    BY SamePath DEF Hop
  <2>4. chan'[1] = Append(chan[1], result) /\ chan[1] \in Seq(Items)
    BY <2>2, <2>3 DEF TypeOK
  <2>5. Broken(1)'
    BY <2>1, <2>4, LastItem DEF Broken, Failures
  <2> QED BY <1>1, <2>3, <2>5 DEF DoomedFrom
<1>10. CASE Interrupt
  BY <1>2, <1>10 DEF Interrupt
<1>11. CASE Panic
  BY <1>1, <1>11 DEF Panic
<1>12. CASE UNCHANGED <<pc, result, schema, left>>
  BY <1>1, <1>3, <1>12
<1>13. CASE DeadlineExpires \/ DeadlineCancels \/ CallerCancels \/ RegistryCancels \/ UNCHANGED vars
  BY <1>12, <1>13 DEF DeadlineExpires, DeadlineCancels, CallerCancels, RegistryCancels, vars, engineVars, oneshots
<1>14. CASE Relays \/ \E k \in 1..hops - 1 : RelayFails(k)
  BY <1>12, <1>14 DEF Relays, Relay, RelayEnds, RelayFails, engineVars, oneshots
<1>15. CASE Consumer \/ Hangup
  BY <1>12, <1>15 DEF Consumer, SchemaArrives, Take, StreamEnds, MetaArrives, Hangup, engineVars, oneshots
<1> QED BY <1>4, <1>5, <1>6, <1>7, <1>8, <1>9, <1>10, <1>11, <1>13, <1>14, <1>15 DEF Next, Producer

\* Of an uncut stream, only a push takes one of them.
LEMMA InHandStays ==
  ASSUME TypeOK, CleanInv, PathInv, [Next]_vars, cause' = "none", pc' # "panicked", ~DoomedFrom(1)'
  PROVE  InHand' = InHand \/ (pc = "send" /\ \E item \in Items : Pushes(item))
<1>2. pc \notin {"done", "panicked"} => 1 \in rx /\ ~token
  BY UncutBefore
<1>t. left \in Nat
  BY DEF TypeOK
<1> USE DEF InHand
<1>3. CASE Begin \/ Execute \/ PushSchema \/ Commit \/ Rollback \/ Release \/ Report \/ Complete \/ Interrupt
  BY <1>3 DEF Begin, Execute, PushSchema, Commit, Rollback, Release, Report, Complete, Interrupt
<1>4. CASE Fetch
  BY <1>2, <1>4, <1>t DEF Fetch
<1>5. CASE Send
  <2>1. Pushes("batch") /\ "batch" \in Items /\ pc = "send"
    BY <1>2, <1>5 DEF Send, SendBatch, Pushes, Items, oneshots
  <2> QED BY <2>1
<1>6. CASE Deliver
  BY <1>6 DEF Deliver, SendBatch
<1>7. CASE Panic
  BY <1>7 DEF Panic
<1>8. CASE UNCHANGED <<pc, left>>
  BY <1>8
<1>9. CASE DeadlineExpires \/ DeadlineCancels \/ CallerCancels \/ RegistryCancels \/ UNCHANGED vars
  BY <1>8, <1>9 DEF DeadlineExpires, DeadlineCancels, CallerCancels, RegistryCancels, vars, engineVars
<1>10. CASE Relays \/ \E k \in 1..hops - 1 : RelayFails(k)
  BY <1>8, <1>10 DEF Relays, Relay, RelayEnds, RelayFails, engineVars
<1>11. CASE Consumer \/ Hangup
  BY <1>8, <1>11 DEF Consumer, SchemaArrives, Take, StreamEnds, MetaArrives, Hangup, engineVars
<1> QED BY <1>3, <1>4, <1>5, <1>6, <1>7, <1>9, <1>10, <1>11 DEF Next, Producer

\* A witness for the counts after a step that moves no batch.
LEMMA CountKept ==
  ASSUME TypeOK, CleanInv, PathInv, [Next]_vars, ~DoomedFrom(1)',
         NEW passed \in [0..hops -> Nat], Passed(passed), UNCHANGED <<chan, got>>
  PROVE  Passed(passed)'
<1>0. hops' = hops /\ total' = total /\ Hop' = Hop /\ 1 \in Hop
  BY SamePath
<1>1. (cause' = "none" /\ pc' # "panicked") => passed[0] + InHand' = total
  <2> SUFFICES ASSUME cause' = "none", pc' # "panicked" PROVE passed[0] + InHand' = total
    OBVIOUS
  <2>1. cause = "none" /\ pc # "panicked"
    BY UncutBefore
  <2>2. \A item \in Items : ~Pushes(item)
    <3>1. SUFFICES ASSUME NEW item \in Items, Pushes(item) PROVE FALSE
      OBVIOUS
    <3>2. chan'[1] = Append(chan[1], item) /\ chan[1] \in Seq(Items)
      BY <1>0, <3>1 DEF Pushes, TypeOK
    <3>3. Len(chan[1]) \in Nat /\ Len(chan'[1]) = Len(chan[1]) + 1
      BY <3>2, LastItem
    <3> QED BY <3>3
  <2>3. InHand' = InHand
    BY <2>2, InHandStays
  <2> QED BY <2>1, <2>3 DEF Passed
<1>2. /\ passed[hops] = got /\ \A k \in Hop : passed[k - 1] = passed[k] + Len(chan[k])
      /\ \A k \in Hop : (\A j \in 1..k : chan[j] = << >>) => passed[k] = passed[0]
  BY DEF Passed
<1> QED BY <1>0, <1>1, <1>2 DEF Passed

\* A batch goes from channel i on: the count of channel i goes up by one.
LEMMA CountMoves ==
  ASSUME TypeOK, [Next]_vars, NEW passed \in [0..hops -> Nat], Passed(passed), NEW i \in 0..hops,
         i # 0 => chan[i] # << >> /\ chan'[i] = Tail(chan[i]),
         i # hops => \E item \in Items : chan'[i + 1] = Append(chan[i + 1], item),
         \A k \in Hop \ {i, i + 1} : chan'[k] = chan[k],
         got' = IF i = hops THEN got + 1 ELSE got, InHand' \in Nat,
         (cause' = "none" /\ pc' # "panicked") =>
           /\ cause = "none" /\ pc # "panicked"
           /\ InHand = IF i = 0 THEN InHand' + 1 ELSE InHand'
  PROVE  \E next \in [0..hops' -> Nat] : Passed(next)'
<1>0. hops' = hops /\ total' = total /\ Hop' = Hop /\ hops \in Nat \ {0}
  BY SamePath
<1>t. /\ chan \in [Hop -> Seq(Items)] /\ got \in Nat /\ total \in Nat
      /\ \A k \in Hop : k \in 1..hops /\ k \in 0..hops /\ k - 1 \in 0..hops /\ k # k - 1
  BY <1>0 DEF TypeOK, Hop
<1>p. /\ passed[hops] = got /\ \A k \in Hop : passed[k - 1] = passed[k] + Len(chan[k])
      /\ \A k \in Hop : (\A j \in 1..k : chan[j] = << >>) => passed[k] = passed[0]
      /\ (cause = "none" /\ pc # "panicked") => passed[0] + InHand = total
  BY DEF Passed
<1> DEFINE next == [passed EXCEPT ![i] = @ + 1]
<1>n. /\ next \in [0..hops -> Nat] /\ next[i] = passed[i] + 1
      /\ \A k \in 0..hops : k # i => next[k] = passed[k]
      /\ \A k \in 0..hops : passed[k] \in Nat
  OBVIOUS
<1> HIDE DEF next
<1>1. next[hops] = got'
  BY <1>0, <1>n, <1>p
<1>l. /\ i # 0 => i \in Hop /\ Len(chan[i]) \in Nat \ {0} /\ Len(chan'[i]) = Len(chan[i]) - 1
      /\ i # hops => i + 1 \in Hop /\ Len(chan[i + 1]) \in Nat /\ Len(chan'[i + 1]) = Len(chan[i + 1]) + 1
      /\ i # hops => chan'[i + 1] # << >>
      /\ i # 0 => (chan'[i] = << >> => Len(chan[i]) = 1)
  <2>1. i # 0 => i \in Hop
    BY <1>0 DEF Hop
  <2>2. i # hops => i + 1 \in Hop
    BY <1>0 DEF Hop
  <2>3. ASSUME i # 0
        PROVE  /\ Len(chan[i]) \in Nat \ {0} /\ Len(chan'[i]) = Len(chan[i]) - 1
               /\ chan'[i] = << >> => Len(chan[i]) = 1
    <3>1. chan[i] \in Seq(Items) /\ chan[i] # << >> /\ chan'[i] = Tail(chan[i])
      BY <1>t, <2>1, <2>3
    <3> QED BY <3>1, LastItem
  <2>4. ASSUME i # hops
        PROVE  /\ Len(chan[i + 1]) \in Nat /\ Len(chan'[i + 1]) = Len(chan[i + 1]) + 1
               /\ chan'[i + 1] # << >>
    <3>1. chan[i + 1] \in Seq(Items)
      BY <1>t, <2>2, <2>4
    <3>2. PICK item \in Items : chan'[i + 1] = Append(chan[i + 1], item)
      BY <2>4
    <3> QED BY <3>1, <3>2, LastItem
  <2> QED BY <2>1, <2>2, <2>3, <2>4
<1>2. ASSUME NEW k \in Hop
      PROVE  next[k - 1] = next[k] + Len(chan'[k])
  <2>0. k \in Nat \ {0} /\ k \in 0..hops /\ k - 1 \in 0..hops /\ i \in Nat
    BY <1>t
  <2>p. passed[k - 1] = passed[k] + Len(chan[k]) /\ Len(chan[k]) \in Nat
    BY <1>p, <1>t
  <2>1. CASE k = i
    <3>1. next[k] = passed[k] + 1 /\ next[k - 1] = passed[k - 1] /\ Len(chan'[k]) = Len(chan[k]) - 1
      BY <1>l, <1>n, <2>0, <2>1
    <3> QED BY <1>n, <2>0, <2>p, <3>1
  <2>2. CASE k = i + 1
    <3>1. i = k - 1 /\ i # hops /\ k # i
      BY <1>0, <2>0, <2>2
    <3>2. next[k] = passed[k] /\ next[k - 1] = passed[k - 1] + 1 /\ Len(chan'[k]) = Len(chan[k]) + 1
      BY <1>l, <1>n, <2>0, <2>2, <3>1
    <3> QED BY <1>n, <2>0, <2>p, <3>2
  <2>3. CASE k # i /\ k # i + 1
    <3>1. next[k] = passed[k] /\ next[k - 1] = passed[k - 1] /\ chan'[k] = chan[k]
      BY <1>n, <2>0, <2>3
    <3> QED BY <2>p, <3>1
  <2> QED BY <2>1, <2>2, <2>3
<1>3. ASSUME NEW k \in Hop, \A j \in 1..k : chan'[j] = << >>
      PROVE  next[k] = next[0]
  <2>0. k \in Nat \ {0} /\ k \in 0..hops /\ i \in Nat /\ 1..k \subseteq Hop /\ 0 \in 0..hops
    BY <1>0, <1>t DEF Hop
  <2>1. k < i + 1 /\ i # 0
    <3>1. CASE i = hops
      BY <1>0, <1>t, <2>0, <3>1
    <3>2. CASE i # hops
      <4>1. i + 1 \notin 1..k
        BY <1>3, <1>l, <3>2
      <4> QED BY <2>0, <4>1
    <3> QED BY <3>1, <3>2
  <2>2. \A j \in 1..k : j # i => chan[j] = << >>
    <3>1. \A j \in 1..k : j # i + 1
      BY <2>0, <2>1
    <3> QED BY <1>3, <2>0, <3>1
  <2>3. CASE k < i
    <3>1. \A j \in 1..k : j # i
      BY <2>0, <2>3
    <3>2. passed[k] = passed[0]
      BY <1>p, <2>2, <3>1
    <3> QED BY <1>n, <2>0, <2>1, <2>3, <3>2
  <2>4. CASE k = i
    <3>1. Len(chan[k]) = 1
      <4>1. k \in 1..k
        BY <2>0
      <4> QED BY <1>3, <1>l, <2>1, <2>4, <4>1
    <3>2. passed[k - 1] = passed[k] + 1
      BY <1>p, <3>1
    <3>3. passed[k - 1] = passed[0]
      <4>1. CASE k = 1
        BY <4>1
      <4>2. CASE k # 1
        <5>1. k - 1 \in Hop /\ \A j \in 1..k - 1 : j \in 1..k /\ j # i
          BY <1>t, <2>0, <2>4, <4>2 DEF Hop
        <5> QED BY <1>p, <2>2, <5>1
      <4> QED BY <4>1, <4>2
    <3> QED BY <1>n, <2>0, <2>1, <2>4, <3>2, <3>3
  <2> QED BY <2>0, <2>1, <2>3, <2>4
<1>4. (cause' = "none" /\ pc' # "panicked") => next[0] + InHand' = total
  <2>1. SUFFICES ASSUME cause' = "none", pc' # "panicked" PROVE next[0] + InHand' = total
    OBVIOUS
  <2>2. passed[0] + InHand = total /\ InHand = IF i = 0 THEN InHand' + 1 ELSE InHand'
    BY <1>p, <2>1
  <2>3. InHand' \in Nat /\ 0 \in 0..hops
    BY <1>0
  <2> QED BY <1>n, <2>2, <2>3
<1>5. Passed(next)'
  BY <1>0, <1>1, <1>2, <1>3, <1>4 DEF Passed
<1> QED BY <1>0, <1>n, <1>5

\* Every step keeps the count.
LEMMA CountStep ==
  ASSUME TypeOK, CleanInv, PathInv, CountInv, [Next]_vars
  PROVE  CountInv'
<1>0. hops' = hops /\ Hop' = Hop /\ 1 \in Hop /\ hops \in Hop /\ hops \in Nat \ {0}
  BY SamePath
<1>1. SUFFICES ASSUME ~DoomedFrom(1)' PROVE \E next \in [0..hops' -> Nat] : Passed(next)'
  BY DEF CountInv
<1>2. PICK passed \in [0..hops -> Nat] : Passed(passed)
  <2>1. ~DoomedFrom(1)
    BY <1>0, <1>1, DoomStays DEF PathInv
  <2> QED BY <2>1 DEF CountInv
<1>t. chan \in [Hop -> Seq(Items)]
  BY DEF TypeOK
<1>u. (cause' = "none" /\ pc' # "panicked") => cause = "none" /\ pc # "panicked"
  BY ProducerStays
<1>h. ASSUME cause' = "none", pc' # "panicked", \A item \in Items : ~Pushes(item)
      PROVE  InHand' = InHand
  BY <1>1, <1>h, InHandStays
<1>3. CASE UNCHANGED <<chan, got>>
  <2>1. Passed(passed)'
    BY <1>1, <1>2, <1>3, CountKept
  <2> QED BY <1>0, <2>1
<1>4. ASSUME NEW item \in Items, Pushes(item)
      PROVE  \E next \in [0..hops' -> Nat] : Passed(next)'
  <2>1. chan'[1] = Append(chan[1], item) /\ \A k \in Hop \ {1} : chan'[k] = chan[k]
    BY <1>0, <1>4, <1>t DEF Pushes
  <2>2. item = "batch"
    <3>1. CASE item # "batch"
      <4>1. Broken(1)'
        BY <1>0, <1>t, <2>1, <3>1, LastItem DEF Broken
      <4> QED BY <1>0, <1>1, <4>1 DEF DoomedFrom
    <3> QED BY <3>1
  <2>3. pc = "send" /\ pc' = "fetch" /\ left' = left /\ got' = got
    BY <1>4, <2>2 DEF Pushes, Failures, consumerVars
  <2>4. InHand = InHand' + 1 /\ InHand' \in Nat
    BY <2>3 DEF InHand, TypeOK
  <2>5. 0 \in 0..hops /\ 0 # hops /\ 0 + 1 = 1
    BY <1>0
  <2>6. \A k \in Hop \ {0, 0 + 1} : chan'[k] = chan[k]
    BY <2>1, <2>5
  <2>7. chan'[0 + 1] = Append(chan[0 + 1], item)
    BY <2>1, <2>5
  <2> QED BY <1>2, <1>u, <2>3, <2>4, <2>5, <2>6, <2>7, CountMoves
<1>5. ASSUME NEW i \in 1..hops - 1, Passes(i)
      PROVE  \E next \in [0..hops' -> Nat] : Passed(next)'
  <2>0. i \in Hop /\ i + 1 \in Hop /\ i # i + 1 /\ i \in 0..hops /\ i # 0 /\ i # hops
    BY <1>0 DEF Hop
  <2>1. /\ chan[i] # << >> /\ chan'[i] = Tail(chan[i]) /\ chan'[i + 1] = Append(chan[i + 1], Head(chan[i]))
        /\ \A k \in Hop \ {i, i + 1} : chan'[k] = chan[k]
    BY <1>5, <1>t, <2>0 DEF Passes
  <2>2. Head(chan[i]) \in Items
    BY <1>t, <2>0, <2>1, TakeOne
  <2>3. got' = got /\ UNCHANGED <<pc, left>>
    BY <1>5 DEF Passes, consumerVars, engineVars
  <2>4. InHand' = InHand /\ InHand \in Nat
    BY <2>3 DEF InHand, TypeOK
  <2> QED BY <1>2, <1>u, <2>0, <2>1, <2>2, <2>3, <2>4, CountMoves
<1>6. ASSUME NEW i \in 1..hops - 1, Fails(i)
      PROVE  FALSE
  <2>0. i + 1 \in Hop /\ i + 1 \in 1..hops' /\ "error" \in Items
    BY <1>0 DEF Hop, Items, Failures
  <2>1. chan'[i + 1] = Append(chan[i + 1], "error")
    BY <1>6, <1>t, <2>0 DEF Fails
  <2>2. Broken(i + 1)'
    BY <1>t, <2>0, <2>1, LastItem DEF Broken
  <2> QED BY <1>1, <2>0, <2>2 DEF DoomedFrom
<1>7. CASE Take
  <2>1. /\ chan[hops] # << >> /\ chan'[hops] = Tail(chan[hops])
        /\ \A k \in Hop \ {hops, hops + 1} : chan'[k] = chan[k]
    BY <1>0, <1>7, <1>t DEF Take
  <2>2. got' = got + 1
    <3>1. Head(chan[hops]) \in Items
      BY <1>0, <1>t, <2>1, TakeOne
    <3>2. CASE Head(chan[hops]) # "batch"
      <4>1. outcome' \in Failures
        BY <1>7, <3>1, <3>2 DEF Take, Finish, Items
      <4> QED BY <1>1, <4>1 DEF DoomedFrom, Cut, Failures
    <3> QED BY <1>7, <3>2 DEF Take
  <2>3. UNCHANGED <<pc, left>>
    BY <1>7 DEF Take, engineVars
  <2>4. InHand' = InHand /\ InHand \in Nat
    BY <2>3 DEF InHand, TypeOK
  <2>5. hops \in 0..hops /\ hops # 0
    BY <1>0
  <2> QED BY <1>2, <1>u, <2>1, <2>2, <2>4, <2>5, CountMoves
<1>8. CASE Drops \/ \E i \in 1..hops - 1 : Returns(i)
  BY <1>3, <1>8 DEF Drops, Returns, consumerVars
<1> QED BY <1>3, <1>4, <1>5, <1>6, <1>7, <1>8, ChannelStep

\* The inductive invariant of the whole path.
LEMMA PathCorrect == Spec => [](PathInv /\ CountInv)
<1>1. Init => PathInv /\ CountInv
  <2> SUFFICES ASSUME Init PROVE PathInv /\ CountInv
    OBVIOUS
  <2>0. hops \in Nat \ {0}
    BY StreamAssumption DEF Init
  <2>1. \A k \in Hop : chan[k] = << >> /\ ~Broken(k)
    BY DEF Init, Broken
  <2>2. ConsumerInv /\ ReceiverInv /\ LastInv /\ TokenInv
    BY <2>0, <2>1 DEF Init, ConsumerInv, Cut, ReceiverInv, LastInv, TokenInv, Hop
  <2>3. ClosedInv
    BY DEF Init, ClosedInv
  <2>4. LeftInv
    BY DEF Init, LeftInv
  <2>5. CountInv
    <3> DEFINE none == [k \in 0..hops |-> 0]
    <3>1. none \in [0..hops -> Nat] /\ \A k \in 0..hops : none[k] = 0
      OBVIOUS
    <3>2. \A k \in Hop : k \in 0..hops /\ k - 1 \in 0..hops
      BY <2>0 DEF Hop
    <3>3. hops \in 0..hops /\ 0 \in 0..hops
      BY <2>0
    <3>4. got = 0 /\ InHand = total /\ total \in Nat
      BY StreamAssumption DEF Init, InHand
    <3> HIDE DEF none
    <3>5. Passed(none)
      BY <2>1, <3>1, <3>2, <3>3, <3>4 DEF Passed
    <3> QED BY <3>1, <3>5 DEF CountInv
  <2> QED BY <2>2, <2>3, <2>4, <2>5 DEF PathInv
<1>2. TypeOK /\ CleanInv /\ PathInv /\ CountInv /\ [Next]_vars => (PathInv /\ CountInv)'
  BY ConsumerStep, ReceiverStep, LastStep, ClosedStep, TokenStep, LeftStep, CountStep DEF PathInv
<1> QED BY <1>1, <1>2, StreamCorrect, PTL DEF Spec

\* A stream that nobody cut and that ends without an error has delivered every batch
\* of the result, whatever broke on the way (arrow.rs and ops.rs, the relays).
THEOREM UncutIsWholeHolds == Spec => []UncutIsWhole
<1>1. TypeOK /\ PathInv /\ CountInv => UncutIsWhole
  <2> SUFFICES ASSUME TypeOK, PathInv, CountInv, outcome = "end", cause = "none", pc # "panicked"
               PROVE  got = total
    BY DEF UncutIsWhole
  <2>0. hops \in Nat \ {0} /\ hops \in Hop /\ Hop = 1..hops
    BY StreamAssumption DEF TypeOK, Hop
  <2>1. hops \notin tx /\ chan[hops] = << >> /\ schema = "ok" /\ ~Cut
    BY DEF PathInv, ConsumerInv, Cut
  <2>2. ~DoomedFrom(hops)
    <3>1. \A j \in hops..hops : j = hops
      BY <2>0
    <3> QED BY <2>1, <3>1 DEF DoomedFrom, Broken
  <2>3. pc = "done" /\ \A j \in 1..hops - 1 : chan[j] = << >>
    BY <2>0, <2>1, <2>2 DEF PathInv, ClosedInv
  <2>4. \A j \in 1..hops : chan[j] = << >>
    BY <2>0, <2>1, <2>3
  <2>5. ~DoomedFrom(1)
    BY <2>1, <2>4 DEF DoomedFrom, Broken
  <2>6. left = 0
    BY <2>1, <2>3, <2>5 DEF PathInv, LeftInv
  <2>7. PICK passed \in [0..hops -> Nat] : Passed(passed)
    BY <2>5 DEF CountInv
  <2>8. passed[hops] = got /\ passed[hops] = passed[0] /\ passed[0] + InHand = total
    BY <2>0, <2>4, <2>7 DEF Passed
  <2>9. InHand = 0 /\ got \in Nat
    BY <2>3, <2>6 DEF InHand, TypeOK
  <2> QED BY <2>8, <2>9
<1> QED BY <1>1, StreamCorrect, PathCorrect, PTL

-----------------------------------------------------------------------------
(***************************************************************************)
(* The read pool.                                                          *)
(***************************************************************************)
PoolInv == PoolTypeOK /\ PlacesAccounted /\ OnlyFailedClonesLoseWakeups

Holding == At({"cloning", "using"})
OnTheWay == At({"returned", "woken", "failed"})
Sleeping == At({"waiting"})

-----------------------------------------------------------------------------
\* The readers at a set of labels are finitely many.
LEMMA AtFinite ==
  ASSUME NEW L
  PROVE  IsFiniteSet(At(L)) /\ Cardinality(At(L)) \in Nat
<1>1. At(L) \subseteq Readers
  BY DEF At
<1> QED
  BY <1>1, PoolAssumption, FS_Subset, FS_CardinalityType

\* A reader that enters a set of labels adds one to it.
LEMMA AtEnter ==
  ASSUME NEW L, NEW r \in Readers, NEW label,
         reader \in [Readers -> Labels], reader[r] \notin L, label \in L, Goto(r, label)
  PROVE  Cardinality(At(L)') = Cardinality(At(L)) + 1
<1>1. At(L)' = At(L) \cup {r}
  BY DEF At, Goto
<1>2. r \notin At(L)
  BY DEF At
<1> QED
  BY <1>1, <1>2, AtFinite, FS_AddElement

\* A reader that leaves a set of labels takes one from it.
LEMMA AtLeave ==
  ASSUME NEW L, NEW r \in Readers, NEW label,
         reader \in [Readers -> Labels], reader[r] \in L, label \notin L, Goto(r, label)
  PROVE  Cardinality(At(L)') = Cardinality(At(L)) - 1
<1>1. At(L)' = At(L) \ {r}
  BY DEF At, Goto
<1>2. r \in At(L)
  BY DEF At
<1> QED
  BY <1>1, <1>2, AtFinite, FS_RemoveElement

\* A reader that moves inside a set of labels, or outside it, leaves it as it is.
LEMMA AtStay ==
  ASSUME NEW L, NEW r \in Readers, NEW label,
         reader \in [Readers -> Labels], (reader[r] \in L) <=> (label \in L), Goto(r, label)
  PROVE  At(L)' = At(L)
  BY DEF At, Goto

-----------------------------------------------------------------------------
\* Initially every reader is new and the pool is empty.
LEMMA PoolInvInit == PoolInit => PoolInv
<1> SUFFICES ASSUME PoolInit PROVE PoolInv
  OBVIOUS
<1>1. PoolTypeOK
  BY PoolAssumption DEF PoolInit, PoolTypeOK, Labels
<1>2. Holding = {} /\ Sleeping = {}
  BY DEF PoolInit, Holding, Sleeping, At
<1>3. PlacesAccounted
  BY <1>2, FS_EmptySet DEF PoolInit, PlacesAccounted, Holding
<1> QED
  BY <1>1, <1>2, <1>3 DEF PoolInv, OnlyFailedClonesLoseWakeups, Sleeping

\* What every step of the pool preserves.
LEMMA PoolInvStep == PoolInv /\ [PoolNext]_poolVars => PoolInv'
<1> SUFFICES ASSUME PoolInv, [PoolNext]_poolVars PROVE PoolInv'
  OBVIOUS
<1> USE PoolAssumption
<1>t. /\ created \in 0..Max /\ idle \in 0..Max /\ Max \in Nat
      /\ reader \in [Readers -> Labels]
  BY DEF PoolInv, PoolTypeOK
<1>h. /\ Cardinality(Holding) \in Nat
      /\ Cardinality(OnTheWay) \in Nat
      /\ created = idle + Cardinality(Holding)
      /\ Sleeping # {} => Max - created + idle <= Cardinality(OnTheWay)
  BY AtFinite DEF PoolInv, PlacesAccounted, OnlyFailedClonesLoseWakeups, Room,
                  Holding, OnTheWay, Sleeping
<1>f. /\ Cardinality(Holding') \in Nat
      /\ Cardinality(OnTheWay') \in Nat
  <2>1. IsFiniteSet(Holding') /\ IsFiniteSet(OnTheWay')
    <3>1. Holding' \subseteq Readers /\ OnTheWay' \subseteq Readers
      BY DEF Holding, OnTheWay, At
    <3> QED
      BY <3>1, FS_Subset
  <2> QED
    BY <2>1, FS_CardinalityType
\* It is enough that a step keeps the labels and the two relations.
<1>s. ASSUME reader' \in [Readers -> Labels],
             created' \in Int, idle' \in Nat, created' <= Max,
             created' = idle' + Cardinality(Holding'),
             Sleeping' # {} => Max - created' + idle' <= Cardinality(OnTheWay')
      PROVE  PoolInv'
  BY <1>s, <1>t, <1>f DEF PoolInv, PoolTypeOK, PlacesAccounted, OnlyFailedClonesLoseWakeups,
                    Room, Holding, OnTheWay, Sleeping
<1>l. ASSUME NEW r \in Readers, NEW label \in {"waiting", "woken", "cloning", "using",
                                               "returned", "failed", "done"},
             Goto(r, label)
      PROVE  reader' \in [Readers -> Labels]
  BY <1>l, <1>t DEF Goto, Labels
<1>1. ASSUME NEW r \in Readers, CheckoutRead(r) PROVE PoolInv'
  <2>1. CASE idle > 0 /\ idle' = idle - 1 /\ Goto(r, "using") /\ UNCHANGED created
    <3>1. Cardinality(Holding') = Cardinality(Holding) + 1
      BY <1>1, <2>1, <1>t, AtEnter DEF CheckoutRead, Holding
    <3>2. Sleeping' = Sleeping
      BY <1>1, <2>1, <1>t, AtStay DEF CheckoutRead, Sleeping
    <3>3. Cardinality(OnTheWay') >= Cardinality(OnTheWay) - 1
      <4>1. CASE reader[r] = "new"
        <5>1. OnTheWay' = OnTheWay
          BY <4>1, <2>1, <1>t, AtStay DEF OnTheWay
        <5> QED
          BY <5>1, <1>h
      <4>2. CASE reader[r] = "woken"
        <5>1. Cardinality(OnTheWay') = Cardinality(OnTheWay) - 1
          BY <4>2, <2>1, <1>t, AtLeave DEF OnTheWay
        <5> QED
          BY <5>1, <1>h
      <4> QED
        BY <1>1, <4>1, <4>2 DEF CheckoutRead
    <3>4. idle' \in Nat /\ created' = created
      BY <1>t, <2>1
    <3>5. reader' \in [Readers -> Labels]
      BY <1>l, <2>1
    <3> QED
      BY <1>s, <1>t, <1>h, <1>f, <2>1, <3>1, <3>2, <3>3, <3>4, <3>5
  <2>2. CASE idle = 0 /\ created < Max /\ created' = created + 1 /\ Goto(r, "cloning") /\ UNCHANGED idle
    <3>1. Cardinality(Holding') = Cardinality(Holding) + 1
      BY <1>1, <2>2, <1>t, AtEnter DEF CheckoutRead, Holding
    <3>2. Sleeping' = Sleeping
      BY <1>1, <2>2, <1>t, AtStay DEF CheckoutRead, Sleeping
    <3>3. Cardinality(OnTheWay') >= Cardinality(OnTheWay) - 1
      <4>1. CASE reader[r] = "new"
        <5>1. OnTheWay' = OnTheWay
          BY <4>1, <2>2, <1>t, AtStay DEF OnTheWay
        <5> QED
          BY <5>1, <1>h
      <4>2. CASE reader[r] = "woken"
        <5>1. Cardinality(OnTheWay') = Cardinality(OnTheWay) - 1
          BY <4>2, <2>2, <1>t, AtLeave DEF OnTheWay
        <5> QED
          BY <5>1, <1>h
      <4> QED
        BY <1>1, <4>1, <4>2 DEF CheckoutRead
    <3> QED
      BY <1>s, <1>l, <1>t, <1>h, <1>f, <2>2, <3>1, <3>2, <3>3
  <2>3. CASE idle = 0 /\ created >= Max /\ Goto(r, "waiting") /\ UNCHANGED <<created, idle>>
    <3>1. Holding' = Holding
      BY <1>1, <2>3, <1>t, AtStay DEF CheckoutRead, Holding
    <3> QED
      BY <1>s, <1>l, <1>t, <1>h, <1>f, <2>3, <3>1
  <2> QED
    BY <1>1, <2>1, <2>2, <2>3 DEF CheckoutRead
<1>2. ASSUME NEW r \in Readers, CloneForRead(r) PROVE PoolInv'
  <2>1. Holding' = Holding /\ Sleeping' = Sleeping /\ OnTheWay' = OnTheWay
    BY <1>2, <1>t, AtStay DEF CloneForRead, Holding, Sleeping, OnTheWay
  <2> QED
    BY <1>2, <1>s, <1>l, <1>t, <1>h, <1>f, <2>1 DEF CloneForRead
<1>3. ASSUME NEW r \in Readers, CloneFails(r) PROVE PoolInv'
  <2>1. /\ Cardinality(Holding') = Cardinality(Holding) - 1
        /\ Cardinality(OnTheWay') = Cardinality(OnTheWay) + 1
        /\ Sleeping' = Sleeping
    BY <1>3, <1>t, AtEnter, AtLeave, AtStay DEF CloneFails, Holding, Sleeping, OnTheWay
  <2> QED
    BY <1>3, <1>s, <1>l, <1>t, <1>h, <1>f, <2>1 DEF CloneFails
<1>4. ASSUME NEW r \in Readers, Return(r) PROVE PoolInv'
  <2>1. /\ Cardinality(Holding') = Cardinality(Holding) - 1
        /\ Cardinality(OnTheWay') = Cardinality(OnTheWay) + 1
        /\ Sleeping' = Sleeping
    BY <1>4, <1>t, AtEnter, AtLeave, AtStay DEF Return, Holding, Sleeping, OnTheWay
  <2> QED
    BY <1>4, <1>s, <1>l, <1>t, <1>h, <1>f, <2>1 DEF Return
<1>5. ASSUME NEW r \in Readers, Discard(r) PROVE PoolInv'
  <2>1. /\ Cardinality(Holding') = Cardinality(Holding) - 1
        /\ Cardinality(OnTheWay') = Cardinality(OnTheWay) + 1
        /\ Sleeping' = Sleeping
    BY <1>5, <1>t, AtEnter, AtLeave, AtStay DEF Discard, Holding, Sleeping, OnTheWay
  <2> QED
    BY <1>5, <1>s, <1>l, <1>t, <1>h, <1>f, <2>1 DEF Discard
<1>6. ASSUME NEW r \in Readers, NotifyOne(r) PROVE PoolInv'
  <2>1. CASE Sleeping = {} /\ Goto(r, "done")
    <3>1. Holding' = Holding /\ Sleeping' = Sleeping
      BY <1>6, <2>1, <1>t, AtStay DEF NotifyOne, Holding, Sleeping
    <3> QED
      BY <1>6, <1>s, <1>l, <1>t, <1>h, <1>f, <2>1, <3>1 DEF NotifyOne
  <2>2. ASSUME NEW w \in Sleeping, reader' = [reader EXCEPT ![r] = "done", ![w] = "woken"]
        PROVE  PoolInv'
    <3>1. w \in Readers /\ reader[w] = "waiting" /\ reader[r] = "returned" /\ w # r
      BY <1>6, <2>2 DEF NotifyOne, Sleeping, At
    <3>2. Holding' = Holding
      BY <1>t, <2>2, <3>1 DEF Holding, At
    <3>3. OnTheWay' = (OnTheWay \ {r}) \cup {w}
      BY <1>t, <2>2, <3>1 DEF OnTheWay, At
    <3>4. r \in OnTheWay /\ w \notin OnTheWay /\ IsFiniteSet(OnTheWay)
      BY <3>1, AtFinite DEF OnTheWay, At
    <3>5. Cardinality(OnTheWay') = Cardinality(OnTheWay)
      <4>1. /\ IsFiniteSet(OnTheWay \ {r})
            /\ Cardinality(OnTheWay \ {r}) = Cardinality(OnTheWay) - 1
        BY <3>4, FS_RemoveElement
      <4>2. Cardinality((OnTheWay \ {r}) \cup {w}) = Cardinality(OnTheWay \ {r}) + 1
        BY <4>1, <3>4, FS_AddElement
      <4> QED
        BY <4>1, <4>2, <3>3, <1>h
    <3>6. Sleeping # {}
      BY <2>2
    <3>7. reader' \in [Readers -> Labels]
      BY <1>t, <2>2, <3>1 DEF Labels
    <3> QED
      BY <1>6, <1>s, <1>t, <1>h, <1>f, <3>2, <3>5, <3>6, <3>7 DEF NotifyOne
  <2> QED
    BY <1>6, <2>1, <2>2 DEF NotifyOne, Sleeping
<1>7. ASSUME NEW r \in Readers, SpuriousWakeup(r) PROVE PoolInv'
  <2>1. Holding' = Holding
    BY <1>7, <1>t, AtStay DEF SpuriousWakeup, Holding
  <2>2. Cardinality(OnTheWay') = Cardinality(OnTheWay) + 1
    BY <1>7, <1>t, AtEnter DEF SpuriousWakeup, OnTheWay
  <2>3. Sleeping # {}
    BY <1>7 DEF SpuriousWakeup, Sleeping, At
  <2> QED
    BY <1>7, <1>s, <1>l, <1>t, <1>h, <1>f, <2>1, <2>2, <2>3 DEF SpuriousWakeup
<1>8. CASE UNCHANGED poolVars
  BY <1>8 DEF poolVars, PoolInv, PoolTypeOK, PlacesAccounted, OnlyFailedClonesLoseWakeups, Room, At
<1> QED
  BY <1>1, <1>2, <1>3, <1>4, <1>5, <1>6, <1>7, <1>8 DEF PoolNext, Step

-----------------------------------------------------------------------------
\* The pool's invariants hold in every behaviour, for every Max and every finite
\* set of readers.
LEMMA PoolCorrect == PoolSpec => []PoolInv
  BY PoolInvInit, PoolInvStep, PTL DEF PoolSpec

\* checkout_read and ReadGuard::drop keep the pool within its bound.
THEOREM PoolTypeCorrect == PoolSpec => []PoolTypeOK
<1>1. PoolInv => PoolTypeOK
  BY DEF PoolInv
<1> QED
  BY <1>1, PoolCorrect, PTL

\* PoolState::created is exact whatever the reads, the clones and the panics do.
THEOREM PlacesAccountedHolds == PoolSpec => []PlacesAccounted
<1>1. PoolInv => PlacesAccounted
  BY DEF PoolInv
<1> QED
  BY <1>1, PoolCorrect, PTL

\* ReadGuard::drop's notify_one after the unlock loses no wakeup: only the failing
\* branch of checkout_read does.
THEOREM NoWakeupLost == PoolSpec => []OnlyFailedClonesLoseWakeups
<1>1. PoolInv => OnlyFailedClonesLoseWakeups
  BY DEF PoolInv
<1> QED
  BY <1>1, PoolCorrect, PTL
=============================================================================
