------------------------- MODULE PondWriterProofs --------------------------
(***************************************************************************)
(* Proofs about PondWriter for every set of writes, pulls and tiers.       *)
(*                                                                         *)
(* WriterInv ties an open transaction to its owner's position: the owner   *)
(* holds the writer of the same instance and is between its BEGIN and its  *)
(* last ROLLBACK, or it panicked.  That its holder is past "begin" is what *)
(* makes WriterClean inductive.  PublishedInv places a request relative to *)
(* its COMMIT, AttachedInv gives an attached catalog to the pull that holds*)
(* the instance, and SnapshotInv says what a reading of the snapshot id    *)
(* means: a request's own snapshots follow its first reading, and nobody   *)
(* else's do as long as all requests share one writer.                     *)
(***************************************************************************)
EXTENDS PondWriter, TLAPS

\* Where a request holds the writer mutex, and where its transaction may be open.
Holding == Statements \cup {"attach", "recover", "leave", "teardown"}
Bracketed == {"body", "message", "commit", "rollback", "recover"}

WriterInv ==
  /\ \A w \in Requests : pc[w] = "lock" => inst[w] \in Requests
  /\ \A w \in Requests : pc[w] \in Holding => inst[w] \in Requests /\ lock[inst[w]] = w
  /\ \A w \in Requests : pc[w] = "recover" => w \in Writes
  /\ \A w \in Requests : pc[w] = "attach" => w \in Pulls
  /\ \A w \in Requests : reply[w].kind = "panicked" => pc[w] = "done"
  /\ \A i \in Requests : txn[i] # Free =>
       \/ reply[txn[i]].kind = "panicked"
       \/ lock[i] = txn[i] /\ inst[txn[i]] = i /\ pc[txn[i]] \in Bracketed

-----------------------------------------------------------------------------
\* What a request is answered with has a kind.
LEMMA AnswerFacts ==
  /\ \A k \in {"none", "rows"} \cup Refusals : Answer(k) \in Replies /\ Answer(k).kind = k
  /\ "error" \in Refusals /\ "cancelled" \in Refusals /\ "panicked" \in Refusals
  BY DEF Answer, Replies, Refusals

\* in_write_txn answers with rows or with a snapshot.
LEMMA OutcomeFacts ==
  ASSUME NEW w \in Requests, NEW after \in Int
  PROVE  Outcome(w, after) \in Replies /\ Outcome(w, after).kind # "panicked"
  BY DEF Outcome, Answer, Replies, Refusals

\* A request whose transaction is open is between its BEGIN and its last ROLLBACK.
LEMMA OwnTransaction ==
  ASSUME TypeOK, WriterInv, NEW w \in Requests, pc[w] \in Holding
  PROVE  /\ inst[w] \in Requests /\ lock[inst[w]] = w
         /\ reply[w].kind # "panicked"
         /\ txn[inst[w]] = w => pc[w] \in Bracketed
<1>1. pc[w] # "done"
  BY DEF Holding, Statements
<1> QED
  BY <1>1, WriterAssumption DEF WriterInv

\* The holder of the writer moves on with the writer held, and the transaction of
\* its connection stays, ends or becomes its own.
LEMMA HolderMoves ==
  ASSUME TypeOK, WriterInv, NEW w \in Requests, NEW l \in Holding \ {"attach"}, NEW a \in Replies,
         pc[w] \in Holding, Goto(w, l), l = "recover" => w \in Writes,
         reply' = reply \/ (reply' = [reply EXCEPT ![w] = a] /\ a.kind # "panicked"),
         UNCHANGED <<lock, inst>>,
         \/ txn' = txn
         \/ txn' = [txn EXCEPT ![inst[w]] = Free]
         \/ txn' = [txn EXCEPT ![inst[w]] = w],
         txn'[inst[w]] = w => l \in Bracketed
  PROVE  WriterInv'
<1>1. inst[w] \in Requests /\ lock[inst[w]] = w /\ reply[w].kind # "panicked"
  BY OwnTransaction
<1>2. l \notin {"lock", "done", "attach"}
  BY DEF Holding, Statements
<1>3. pc'[w] = l /\ \A v \in Requests \ {w} : pc'[v] = pc[v]
  BY DEF Goto, TypeOK
<1>4. reply'[w].kind # "panicked" /\ \A v \in Requests \ {w} : reply'[v] = reply[v]
  BY <1>1 DEF TypeOK
<1>5. /\ \A v \in Requests : pc'[v] = "lock" => inst'[v] \in Requests
      /\ \A v \in Requests : pc'[v] = "recover" => v \in Writes
      /\ \A v \in Requests : pc'[v] = "attach" => v \in Pulls
      /\ \A v \in Requests : reply'[v].kind = "panicked" => pc'[v] = "done"
  BY <1>2, <1>3, <1>4 DEF WriterInv
<1>6. \A v \in Requests : pc'[v] \in Holding => inst'[v] \in Requests /\ lock'[inst'[v]] = v
  BY <1>1, <1>3 DEF WriterInv
<1>7. ASSUME NEW i \in Requests, txn'[i] # Free
      PROVE  \/ reply'[txn'[i]].kind = "panicked"
             \/ lock'[i] = txn'[i] /\ inst'[txn'[i]] = i /\ pc'[txn'[i]] \in Bracketed
  <2>1. CASE txn'[i] = w
    <3>1. CASE i = inst[w]
      BY <1>1, <1>3, <2>1, <3>1
    <3>2. CASE i # inst[w]
      <4>1. txn[i] = w
        BY <1>7, <2>1, <3>2, <1>1 DEF TypeOK
      <4> QED
        BY <4>1, <3>2, <1>1, WriterAssumption DEF WriterInv
    <3> QED
      BY <3>1, <3>2
  <2>2. CASE txn'[i] # w
    <3>1. txn'[i] = txn[i] /\ txn[i] \in Requests \ {w}
      BY <1>7, <2>2, <1>1 DEF TypeOK
    <3> QED
      BY <1>7, <3>1, <1>3, <1>4 DEF WriterInv
  <2> QED
    BY <2>1, <2>2
<1> QED
  BY <1>5, <1>6, <1>7 DEF WriterInv

\* A statement that fails keeps the types and the invariant; only a write's ROLLBACK
\* can fail, and a recovery follows it.
LEMMA StatementFailsStep ==
  ASSUME TypeOK, WriterInv, NEW w \in Requests, NEW answer \in {"error", "cancelled"},
         pc[w] \in Statements, StatementFails(w, answer), pc[w] = "rollback" => w \in Writes
  PROVE  TypeOK' /\ WriterInv'
<1>1. /\ running' = running \ {w}
      /\ blind' = blind \/ blind' = blind \cup {w}
      /\ UNCHANGED <<tier, cache, lock, txn, attached, stuck, snaps, limits, inst, token, spent>>
  BY DEF StatementFails, engineVars, abortVars
<1>2. pc[w] \in Holding
  BY DEF Holding
<1>3. txn[inst[w]] = w => pc[w] \in Bracketed
  BY <1>2, OwnTransaction
<1> DEFINE Moves(l, a) ==
      /\ Goto(w, l)
      /\ l = "recover" => w \in Writes
      /\ reply' = reply \/ (reply' = [reply EXCEPT ![w] = a] /\ a.kind # "panicked")
      /\ before' = before \/ before' = [before EXCEPT ![w] = None]
      /\ txn[inst[w]] = w => l \in Bracketed
<1>4. \E l \in Holding \ {"attach"}, a \in Replies : Moves(l, a)
  <2>1. Answer(answer) \in Replies /\ Answer(answer).kind # "panicked"
    BY AnswerFacts
  <2>2. CASE pc[w] = "before"
    <3>1. Moves("begin", Answer(answer))
      BY <2>2, <1>3 DEF StatementFails, Bracketed
    <3> QED
      BY <3>1, <2>1 DEF Holding, Statements
  <2>3. CASE pc[w] \in {"body", "message", "commit"}
    <3>1. Moves("rollback", Answer(answer))
      BY <2>1, <2>3 DEF StatementFails, Bracketed
    <3> QED
      BY <3>1, <2>1 DEF Holding, Statements
  <2>4. CASE pc[w] = "begin"
    <3>1. Moves(AfterBracket(w, FALSE), Answer(answer))
      BY <2>1, <2>4, <1>3 DEF StatementFails, Bracketed, AfterBracket, Requests
    <3> QED
      BY <3>1, <2>1 DEF Holding, AfterBracket
  <2>5. CASE pc[w] = "after"
    <3>1. Outcome(w, None) \in Replies /\ Outcome(w, None).kind # "panicked"
      BY OutcomeFacts DEF None
    <3>2. Moves(AfterBracket(w, TRUE), Outcome(w, None))
      BY <2>5, <3>1, <1>3 DEF StatementFails, Bracketed, AfterBracket
    <3> QED
      BY <3>1, <3>2 DEF Holding, AfterBracket
  <2>6. CASE pc[w] = "rollback"
    <3>1. Moves(AfterBracket(w, FALSE), Answer(answer))
      BY <2>6, WriterAssumption DEF StatementFails, Bracketed, AfterBracket
    <3> QED
      BY <3>1, <2>1 DEF Holding, AfterBracket
  <2> QED
    BY <2>2, <2>3, <2>4, <2>5, <2>6 DEF Statements
<1>5. PICK l \in Holding \ {"attach"}, a \in Replies : Moves(l, a)
  BY <1>4
<1>6. /\ pc' \in [Requests -> PcStates]
      /\ reply' \in [Requests -> Replies]
      /\ before' \in [Requests -> Int]
  <2>1. l \in PcStates /\ pc' = [pc EXCEPT ![w] = l] /\ pc \in [Requests -> PcStates]
    BY <1>5 DEF TypeOK, Goto, Holding, Statements, PcStates
  <2>2. (reply' = reply \/ reply' = [reply EXCEPT ![w] = a]) /\ reply \in [Requests -> Replies]
    BY <1>5 DEF TypeOK
  <2>3. (before' = before \/ before' = [before EXCEPT ![w] = None]) /\ before \in [Requests -> Int]
    BY <1>5 DEF TypeOK
  <2>4. pc' \in [Requests -> PcStates]
    BY <2>1
  <2>5. reply' \in [Requests -> Replies]
    BY <2>2
  <2>6. before' \in [Requests -> Int]
    BY <2>3 DEF None
  <2> QED
    BY <2>4, <2>5, <2>6
<1>7. TypeOK'
  BY <1>1, <1>6 DEF TypeOK
<1>8. WriterInv'
  BY <1>1, <1>2, <1>5, HolderMoves
<1> QED
  BY <1>7, <1>8

\* A statement that ends normally keeps the types and the invariant: BEGIN makes the
\* transaction the request's own, COMMIT and ROLLBACK end it.
LEMMA StatementEndsStep ==
  ASSUME TypeOK, WriterInv, NEW w \in Requests, StatementEnds(w)
  PROVE  TypeOK' /\ WriterInv'
<1>1. /\ running' = running \ {w}
      /\ UNCHANGED <<tier, cache, lock, attached, stuck, limits, inst, blind, token, spent>>
  BY DEF StatementEnds, abortVars
<1>2. pc[w] \in {"before", "begin", "message", "commit", "after", "rollback"}
  BY DEF StatementEnds
<1>3. pc[w] \in Holding
  BY <1>2 DEF Holding, Statements
<1>4. inst[w] \in Requests /\ (txn[inst[w]] = w => pc[w] \in Bracketed)
  BY <1>3, OwnTransaction
<1>5. MaxSnapshot \in Int
  BY DEF TypeOK, MaxSnapshot
<1> DEFINE Moves(l, a) ==
      /\ Goto(w, l)
      /\ l = "recover" => w \in Writes
      /\ reply' = reply \/ (reply' = [reply EXCEPT ![w] = a] /\ a.kind # "panicked")
      /\ before' = before \/ before' = [before EXCEPT ![w] = MaxSnapshot]
      /\ \/ snaps' = snaps
         \/ w \in Mutating /\ snaps' = Append(snaps, [by |-> w, attributed |-> TRUE])
      /\ \/ txn' = txn
         \/ txn' = [txn EXCEPT ![inst[w]] = Free]
         \/ txn' = [txn EXCEPT ![inst[w]] = w]
      /\ txn'[inst[w]] = w => l \in Bracketed
<1>6. \E l \in Holding \ {"attach"}, a \in Replies : Moves(l, a)
  <2>1. Answer("rows") \in Replies
    BY AnswerFacts
  <2>2. CASE pc[w] = "before"
    <3>1. Moves("begin", Answer("rows"))
      BY <2>2, <1>4 DEF StatementEnds, Bracketed
    <3> QED
      BY <3>1, <2>1 DEF Holding, Statements
  <2>3. CASE pc[w] = "begin"
    <3>1. Moves("body", Answer("rows"))
      BY <2>3 DEF StatementEnds, Bracketed
    <3> QED
      BY <3>1, <2>1 DEF Holding, Statements
  <2>4. CASE pc[w] = "message"
    <3>1. Moves("commit", Answer("rows"))
      BY <2>4 DEF StatementEnds, Bracketed
    <3> QED
      BY <3>1, <2>1 DEF Holding, Statements
  <2>5. CASE pc[w] = "commit"
    <3>1. txn' = [txn EXCEPT ![inst[w]] = Free] /\ txn'[inst[w]] # w
      BY <2>5, <1>4, WriterAssumption DEF StatementEnds, TypeOK
    <3>2. Moves("after", Answer("rows"))
      BY <2>5, <3>1 DEF StatementEnds
    <3> QED
      BY <3>2, <2>1 DEF Holding, Statements
  <2>6. CASE pc[w] = "after"
    <3>1. Outcome(w, MaxSnapshot) \in Replies /\ Outcome(w, MaxSnapshot).kind # "panicked"
      BY <1>5, OutcomeFacts
    <3>2. Moves(AfterBracket(w, TRUE), Outcome(w, MaxSnapshot))
      BY <2>6, <3>1, <1>4 DEF StatementEnds, Bracketed, AfterBracket
    <3> QED
      BY <3>1, <3>2 DEF Holding, AfterBracket
  <2>7. CASE pc[w] = "rollback"
    <3>1. txn' = [txn EXCEPT ![inst[w]] = Free] /\ txn'[inst[w]] # w
      BY <2>7, <1>4, WriterAssumption DEF StatementEnds, TypeOK
    <3>2. AfterBracket(w, FALSE) = "recover" => w \in Writes
      BY DEF AfterBracket, Requests
    <3>3. Moves(AfterBracket(w, FALSE), Answer("rows"))
      BY <2>7, <3>1, <3>2 DEF StatementEnds
    <3> QED
      BY <3>3, <2>1 DEF Holding, AfterBracket
  <2> QED
    BY <1>2, <2>2, <2>3, <2>4, <2>5, <2>6, <2>7
<1>7. PICK l \in Holding \ {"attach"}, a \in Replies : Moves(l, a)
  BY <1>6
<1>8. pc' \in [Requests -> PcStates]
  <2>1. l \in PcStates /\ pc' = [pc EXCEPT ![w] = l] /\ pc \in [Requests -> PcStates]
    BY <1>7 DEF TypeOK, Goto, Holding, Statements, PcStates
  <2> QED
    BY <2>1
<1>9. reply' \in [Requests -> Replies]
  <2>1. (reply' = reply \/ reply' = [reply EXCEPT ![w] = a]) /\ reply \in [Requests -> Replies]
    BY <1>7 DEF TypeOK
  <2> QED
    BY <2>1
<1>10. before' \in [Requests -> Int]
  <2>1. (before' = before \/ before' = [before EXCEPT ![w] = MaxSnapshot])
        /\ before \in [Requests -> Int]
    BY <1>7 DEF TypeOK
  <2> QED
    BY <2>1, <1>5
<1>11. txn' \in [Requests -> Requests \cup {Free}]
  <2>1. /\ \/ txn' = txn
           \/ txn' = [txn EXCEPT ![inst[w]] = Free]
           \/ txn' = [txn EXCEPT ![inst[w]] = w]
        /\ txn \in [Requests -> Requests \cup {Free}]
    BY <1>7 DEF TypeOK
  <2> QED
    BY <2>1, <1>4
<1>12. snaps' \in Seq(Snapshots)
  <2>1. /\ \/ snaps' = snaps
           \/ w \in Mutating /\ snaps' = Append(snaps, [by |-> w, attributed |-> TRUE])
        /\ snaps \in Seq(Snapshots)
    BY <1>7 DEF TypeOK
  <2>2. w \in Mutating => [by |-> w, attributed |-> TRUE] \in Snapshots
    BY DEF Snapshots
  <2> QED
    BY <2>1, <2>2
<1>13. TypeOK'
  BY <1>1, <1>8, <1>9, <1>10, <1>11, <1>12 DEF TypeOK
<1>14. WriterInv'
  BY <1>1, <1>3, <1>7, HolderMoves
<1> QED
  BY <1>13, <1>14

\* A pull that attaches its catalog, or fails to, goes on holding the writer.
LEMMA AttachStep ==
  ASSUME TypeOK, WriterInv, NEW w \in Requests, Attach(w)
  PROVE  TypeOK' /\ WriterInv'
<1>1. /\ attached' = attached \cup {inst[w]}
      /\ UNCHANGED <<tier, cache, lock, txn, stuck, snaps, running, limits, inst, before, blind,
                     token, spent>>
  BY DEF Attach, abortVars
<1>2. pc[w] = "attach" /\ pc[w] \in Holding
  BY DEF Attach, Holding
<1>3. inst[w] \in Requests /\ txn[inst[w]] # w
  BY <1>2, OwnTransaction DEF Bracketed
<1>4. Answer("error") \in Replies /\ Answer("error").kind # "panicked"
  BY AnswerFacts
<1>5. PICK l \in {"before", "teardown"} :
        /\ Goto(w, l)
        /\ reply' = reply \/ reply' = [reply EXCEPT ![w] = Answer("error")]
  BY DEF Attach
<1>6. l \in Holding \ {"attach"} /\ l # "recover"
  BY DEF Holding, Statements
<1>7. /\ pc' \in [Requests -> PcStates]
      /\ reply' \in [Requests -> Replies]
  BY <1>5, <1>4 DEF TypeOK, Goto, Statements, PcStates
<1>8. TypeOK'
  BY <1>1, <1>3, <1>7 DEF TypeOK
<1>9. WriterInv'
  BY <1>1, <1>2, <1>3, <1>4, <1>5, <1>6, HolderMoves
<1> QED
  BY <1>8, <1>9

\* SQL that drives the transaction itself leaves its own one open, or none.
LEMMA DriveStep ==
  ASSUME TypeOK, WriterInv, NEW w \in Requests, DriveTransaction(w)
  PROVE  TypeOK' /\ WriterInv'
<1>1. /\ pc[w] = "body" /\ pc[w] \in Holding
      /\ UNCHANGED <<tier, cache, lock, attached, stuck, pc, running, limits, inst, before, reply,
                     blind, token, spent>>
  BY DEF DriveTransaction, Holding, Statements, requestVars, abortVars
<1>2. inst[w] \in Requests
  BY <1>1, OwnTransaction
<1>3. txn' = [txn EXCEPT ![inst[w]] = Free] \/ txn' = [txn EXCEPT ![inst[w]] = w]
  BY DEF DriveTransaction
<1>4. \/ snaps' = snaps
      \/ w \in Mutating /\ snaps' = Append(snaps, [by |-> w, attributed |-> FALSE])
  BY DEF DriveTransaction
<1>5. w \in Mutating => [by |-> w, attributed |-> FALSE] \in Snapshots
  BY DEF Snapshots
<1>6. snaps \in Seq(Snapshots) /\ txn \in [Requests -> Requests \cup {Free}]
  BY DEF TypeOK
<1>7. snaps' \in Seq(Snapshots) /\ txn' \in [Requests -> Requests \cup {Free}]
  BY <1>2, <1>3, <1>4, <1>5, <1>6
<1>8. TypeOK'
  BY <1>1, <1>7 DEF TypeOK
<1>9. Goto(w, "body")
  BY <1>1 DEF Goto, TypeOK
<1>10. "body" \in Holding \ {"attach"} /\ "body" \in Bracketed /\ Answer("rows") \in Replies
  BY AnswerFacts DEF Holding, Statements, Bracketed
<1>11. WriterInv'
  BY <1>1, <1>3, <1>9, <1>10, HolderMoves
<1> QED
  BY <1>8, <1>11

\* Every step of PondWriter keeps the types of its variables.
LEMMA WriterTypeStep == TypeOK /\ WriterInv /\ [Next]_vars => TypeOK'
<1> SUFFICES ASSUME TypeOK, WriterInv, [Next]_vars PROVE TypeOK'
  OBVIOUS
<1> USE WriterAssumption, AnswerFacts
    DEF TypeOK, PcStates, Statements, None, Goto, Requests,
        engineVars, requestVars, abortVars
<1>1. ASSUME SetPondTier PROVE TypeOK'
  BY <1>1 DEF SetPondTier
<1>2. ASSUME ForgetPond PROVE TypeOK'
  BY <1>2 DEF ForgetPond
<1>3. ASSUME NEW w \in Requests, Resolve(w) PROVE TypeOK'
  BY <1>3 DEF Resolve
<1>4. ASSUME NEW w \in Requests, Pond(w) PROVE TypeOK'
  <2>1. CASE CacheServes(w) /\ inst' = [inst EXCEPT ![w] = cache] /\ Goto(w, "lock")
             /\ UNCHANGED <<cache, reply>>
    BY <1>4, <2>1 DEF Pond, CacheServes
  <2>2. CASE cache' = w /\ inst' = [inst EXCEPT ![w] = w] /\ Goto(w, "lock") /\ UNCHANGED reply
    BY <1>4, <2>2 DEF Pond
  <2>3. CASE cache' = Free /\ reply' = [reply EXCEPT ![w] = Answer("error")]
             /\ Goto(w, "done") /\ UNCHANGED inst
    BY <1>4, <2>3 DEF Pond
  <2> QED
    BY <1>4, <2>1, <2>2, <2>3 DEF Pond
<1>5. ASSUME NEW w \in Requests, LockWriter(w) PROVE TypeOK'
  BY <1>5 DEF LockWriter
<1>6. ASSUME NEW w \in Requests, GiveUp(w) PROVE TypeOK'
  BY <1>6 DEF GiveUp
<1>7. ASSUME NEW w \in Requests, Attach(w) PROVE TypeOK'
  BY <1>7, AttachStep
<1>8. ASSUME NEW w \in Requests, Start(w) PROVE TypeOK'
  BY <1>8 DEF Start
<1>9. ASSUME NEW w \in Requests, BodyEnds(w) PROVE TypeOK'
  BY <1>9 DEF BodyEnds
<1>10. ASSUME NEW w \in Requests, StatementEnds(w) PROVE TypeOK'
  BY <1>10, StatementEndsStep
<1>11. ASSUME NEW w \in Requests, Panic(w) PROVE TypeOK'
  BY <1>11 DEF Panic
<1>12. ASSUME NEW w \in Requests, Recover(w) PROVE TypeOK'
  BY <1>12 DEF Recover
<1>13. ASSUME NEW w \in Requests, Leave(w) PROVE TypeOK'
  BY <1>13 DEF Leave
<1>14. ASSUME NEW w \in Requests, Teardown(w) PROVE TypeOK'
  BY <1>14 DEF Teardown, WriterInv, Holding
<1>15. ASSUME NEW w \in Requests, Cancel(w) PROVE TypeOK'
  BY <1>15 DEF Cancel
<1>16. ASSUME NEW w \in Requests, InterruptLost(w) PROVE TypeOK'
  BY <1>16 DEF InterruptLost, Watching
<1>17. ASSUME NEW w \in Requests, OwnError(w) PROVE TypeOK'
  <2>1. pc[w] \in Statements /\ pc[w] # "rollback" /\ StatementFails(w, "error")
    BY <1>17 DEF OwnError
  <2> QED
    BY <2>1, StatementFailsStep
<1>18. ASSUME NEW w \in Requests, Interrupt(w) PROVE TypeOK'
  <2>1. pc[w] \in Statements /\ w \in Writes /\ StatementFails(w, "cancelled")
    BY <1>18 DEF Interrupt, Watching
  <2> QED
    BY <2>1, StatementFailsStep
<1>19. CASE UNCHANGED vars
  BY <1>19 DEF vars
<1>20. ASSUME NEW w \in Requests, DriveTransaction(w) PROVE TypeOK'
  BY <1>20, DriveStep
<1> QED
  BY <1>1, <1>2, <1>3, <1>4, <1>5, <1>6, <1>7, <1>8, <1>9, <1>10,
     <1>11, <1>12, <1>13, <1>14, <1>15, <1>16, <1>17, <1>18, <1>19, <1>20
     DEF Next, Step, Proceed

\* Every step of PondWriter keeps WriterInv.
LEMMA WriterInvStep == TypeOK /\ WriterInv /\ [Next]_vars => WriterInv'
<1> SUFFICES ASSUME TypeOK, WriterInv, [Next]_vars PROVE WriterInv'
  OBVIOUS
<1> USE WriterAssumption, AnswerFacts
    DEF TypeOK, WriterInv, Holding, Bracketed, Statements, Goto, Requests,
        engineVars, requestVars, abortVars
<1>1. ASSUME SetPondTier PROVE WriterInv'
  BY <1>1 DEF SetPondTier
<1>2. ASSUME ForgetPond PROVE WriterInv'
  BY <1>2 DEF ForgetPond
<1>3. ASSUME NEW w \in Requests, Resolve(w) PROVE WriterInv'
  BY <1>3 DEF Resolve
<1>4. ASSUME NEW w \in Requests, Pond(w) PROVE WriterInv'
  <2>1. CASE CacheServes(w) /\ inst' = [inst EXCEPT ![w] = cache] /\ Goto(w, "lock")
             /\ UNCHANGED <<cache, reply>>
    BY <1>4, <2>1 DEF Pond, CacheServes
  <2>2. CASE cache' = w /\ inst' = [inst EXCEPT ![w] = w] /\ Goto(w, "lock") /\ UNCHANGED reply
    BY <1>4, <2>2 DEF Pond
  <2>3. CASE cache' = Free /\ reply' = [reply EXCEPT ![w] = Answer("error")]
             /\ Goto(w, "done") /\ UNCHANGED inst
    BY <1>4, <2>3 DEF Pond
  <2> QED
    BY <1>4, <2>1, <2>2, <2>3 DEF Pond
<1>5. ASSUME NEW w \in Requests, LockWriter(w) PROVE WriterInv'
  BY <1>5 DEF LockWriter
<1>6. ASSUME NEW w \in Requests, GiveUp(w) PROVE WriterInv'
  BY <1>6 DEF GiveUp
<1>7. ASSUME NEW w \in Requests, Attach(w) PROVE WriterInv'
  BY <1>7, AttachStep
<1>8. ASSUME NEW w \in Requests, Start(w) PROVE WriterInv'
  BY <1>8 DEF Start
<1>9. ASSUME NEW w \in Requests, BodyEnds(w) PROVE WriterInv'
  BY <1>9 DEF BodyEnds
<1>10. ASSUME NEW w \in Requests, StatementEnds(w) PROVE WriterInv'
  BY <1>10, StatementEndsStep
<1>11. ASSUME NEW w \in Requests, Panic(w) PROVE WriterInv'
  BY <1>11 DEF Panic
<1>12. ASSUME NEW w \in Requests, Recover(w) PROVE WriterInv'
  BY <1>12 DEF Recover
<1>13. ASSUME NEW w \in Requests, Leave(w) PROVE WriterInv'
  BY <1>13 DEF Leave
<1>14. ASSUME NEW w \in Requests, Teardown(w) PROVE WriterInv'
  BY <1>14 DEF Teardown
<1>15. ASSUME NEW w \in Requests, Cancel(w) PROVE WriterInv'
  BY <1>15 DEF Cancel
<1>16. ASSUME NEW w \in Requests, InterruptLost(w) PROVE WriterInv'
  BY <1>16 DEF InterruptLost, Watching
<1>17. ASSUME NEW w \in Requests, OwnError(w) PROVE WriterInv'
  <2>1. pc[w] \in Statements /\ pc[w] # "rollback" /\ StatementFails(w, "error")
    BY <1>17 DEF OwnError
  <2> QED
    BY <2>1, StatementFailsStep
<1>18. ASSUME NEW w \in Requests, Interrupt(w) PROVE WriterInv'
  <2>1. pc[w] \in Statements /\ w \in Writes /\ StatementFails(w, "cancelled")
    BY <1>18 DEF Interrupt, Watching
  <2> QED
    BY <2>1, StatementFailsStep
<1>19. CASE UNCHANGED vars
  BY <1>19 DEF vars
<1>20. ASSUME NEW w \in Requests, DriveTransaction(w) PROVE WriterInv'
  BY <1>20, DriveStep
<1> QED
  BY <1>1, <1>2, <1>3, <1>4, <1>5, <1>6, <1>7, <1>8, <1>9, <1>10,
     <1>11, <1>12, <1>13, <1>14, <1>15, <1>16, <1>17, <1>18, <1>19, <1>20
     DEF Next, Step, Proceed

\* The request of a snapshot the bracket committed is past its COMMIT and has not been
\* refused, any other snapshot is of SQL that drives the transaction itself; and a
\* request that has yet to commit has no answer.
Settled == {"after", "leave", "teardown", "done"}
Undecided == {"idle", "open", "lock", "attach", "before", "begin", "body", "message", "commit"}
Accounted(s) ==
  \/ s.attributed /\ pc[s.by] \in Settled /\ reply[s.by].kind \notin Refusals
  \/ ~s.attributed /\ s.by \in Driving
PublishedInv ==
  /\ \A n \in 1..Len(snaps) : Accounted(snaps[n])
  /\ \A w \in Requests : pc[w] \in Undecided => reply[w].kind \notin Refusals

\* The snapshots are of requests.
LEMMA SnapshotsAre ==
  ASSUME TypeOK
  PROVE  /\ snaps \in Seq(Snapshots) /\ Len(snaps) \in Nat
         /\ \A n \in 1..Len(snaps) : snaps[n] \in Snapshots /\ snaps[n].by \in Requests
<1>1. snaps \in Seq(Snapshots) /\ Len(snaps) \in Nat
  BY DEF TypeOK
<1>2. \A n \in 1..Len(snaps) : snaps[n] \in Snapshots
  BY <1>1
<1>3. \A s \in Snapshots : s.by \in Requests
  BY WriterAssumption DEF Snapshots
<1> QED
  BY <1>1, <1>2, <1>3

\* A step of one request that publishes nothing keeps PublishedInv if a settled
\* request stays settled and is not refused by it.
LEMMA OneMoves ==
  ASSUME TypeOK, PublishedInv, NEW w \in Requests, snaps' = snaps,
         \A v \in Requests \ {w} : pc'[v] = pc[v] /\ reply'[v] = reply[v],
         pc[w] \in Settled => /\ pc'[w] \in Settled
                              /\ reply'[w] = reply[w] \/ reply'[w].kind \notin Refusals,
         pc'[w] \in Undecided => pc[w] \in Undecided /\ reply'[w] = reply[w]
  PROVE  PublishedInv'
<1>0. \A v \in Requests : pc'[v] \in Undecided => reply'[v].kind \notin Refusals
  BY DEF PublishedInv
<1> SUFFICES ASSUME NEW n \in 1..Len(snaps)
             PROVE  Accounted(snaps[n])'
  BY <1>0 DEF PublishedInv
<1>1. snaps[n].by \in Requests
  BY SnapshotsAre
<1>2. Accounted(snaps[n])
  BY DEF PublishedInv
<1> QED
  BY <1>1, <1>2 DEF Accounted

\* Every step keeps PublishedInv: only a COMMIT publishes, and after the bracket's no
\* step refuses the request.
LEMMA PublishedStep == TypeOK /\ PublishedInv /\ [Next]_vars => PublishedInv'
<1> SUFFICES ASSUME TypeOK, PublishedInv, [Next]_vars PROVE PublishedInv'
  OBVIOUS
<1>0. \A w \in Requests : \A a : Outcome(w, a).kind \notin Refusals
  BY DEF Outcome, Answer, Refusals
<1>1. ASSUME UNCHANGED <<snaps, pc, reply>> PROVE PublishedInv'
  BY <1>1 DEF PublishedInv, Accounted
<1>2. ASSUME NEW w \in Requests, StatementEnds(w) PROVE PublishedInv'
  <2>1. CASE pc[w] = "commit"
    <3>1. pc' = [pc EXCEPT ![w] = "after"] /\ reply' = reply
      BY <1>2, <2>1 DEF StatementEnds, Goto
    <3>2. snaps' = snaps \/ (w \in Mutating /\ snaps' = Append(snaps, [by |-> w, attributed |-> TRUE]))
      BY <1>2, <2>1 DEF StatementEnds
    <3>3. pc'[w] \in Settled /\ pc'[w] \notin Undecided /\ reply[w].kind \notin Refusals
      BY <3>1, <2>1 DEF TypeOK, Settled, Undecided, PublishedInv
    <3>4. CASE snaps' = snaps
      BY <3>1, <3>3, <3>4, OneMoves DEF TypeOK
    <3>5. CASE w \in Mutating /\ snaps' = Append(snaps, [by |-> w, attributed |-> TRUE])
      <4>1. \A v \in Requests : pc'[v] \in Undecided => reply'[v].kind \notin Refusals
        BY <3>1, <3>3 DEF PublishedInv, TypeOK
      <4>2. ASSUME NEW n \in 1..Len(snaps') PROVE Accounted(snaps[n])'
        <5>1. \/ snaps'[n] = [by |-> w, attributed |-> TRUE]
              \/ n \in 1..Len(snaps) /\ snaps'[n] = snaps[n] /\ snaps[n].by \in Requests
          BY <3>5, <4>2, SnapshotsAre
        <5>2. CASE snaps'[n] = [by |-> w, attributed |-> TRUE]
          BY <5>2, <3>1, <3>3 DEF Accounted
        <5>3. CASE n \in 1..Len(snaps) /\ snaps'[n] = snaps[n] /\ snaps[n].by \in Requests
          BY <5>3, <3>1, <3>3 DEF PublishedInv, Accounted, TypeOK
        <5> QED
          BY <5>1, <5>2, <5>3
      <4> QED
        BY <4>1, <4>2 DEF PublishedInv
    <3> QED
      BY <3>2, <3>4, <3>5
  <2>2. CASE pc[w] = "after"
    <3>1. /\ snaps' = snaps
          /\ pc' = [pc EXCEPT ![w] = AfterBracket(w, TRUE)]
          /\ reply' = [reply EXCEPT ![w] = Outcome(w, MaxSnapshot)]
      BY <1>2, <2>2 DEF StatementEnds, Goto
    <3>2. AfterBracket(w, TRUE) \in Settled \ Undecided
      BY DEF AfterBracket, Settled, Undecided
    <3> QED
      BY <3>1, <3>2, <1>0, OneMoves DEF TypeOK
  <2>3. CASE pc[w] \in {"before", "begin", "message", "rollback"}
    <3>1. /\ snaps' = snaps /\ reply' = reply
          /\ \A v \in Requests \ {w} : pc'[v] = pc[v]
      BY <1>2, <2>3 DEF StatementEnds, Goto, TypeOK
    <3>2. pc'[w] \in Undecided => pc[w] \in Undecided
      BY <1>2, <2>3 DEF StatementEnds, Goto, TypeOK, AfterBracket, Undecided
    <3> QED
      BY <3>1, <3>2, <2>3, OneMoves DEF Settled
  <2> QED
    BY <1>2, <2>1, <2>2, <2>3 DEF StatementEnds
<1>3. ASSUME NEW w \in Requests, NEW answer, StatementFails(w, answer) PROVE PublishedInv'
  <2>1. snaps' = snaps
    BY <1>3 DEF StatementFails, engineVars
  <2>2. CASE pc[w] = "after"
    <3>1. /\ pc' = [pc EXCEPT ![w] = AfterBracket(w, TRUE)]
          /\ reply' = [reply EXCEPT ![w] = Outcome(w, None)]
      BY <1>3, <2>2 DEF StatementFails, Goto
    <3>2. AfterBracket(w, TRUE) \in Settled \ Undecided
      BY DEF AfterBracket, Settled, Undecided
    <3> QED
      BY <3>1, <3>2, <2>1, <1>0, OneMoves DEF TypeOK
  <2>3. CASE pc[w] \in {"before", "begin", "body", "message", "commit", "rollback"}
    <3>1. \A v \in Requests \ {w} : pc'[v] = pc[v] /\ reply'[v] = reply[v]
      BY <1>3, <2>3 DEF StatementFails, Goto, TypeOK
    <3>2. pc'[w] \in Undecided => pc[w] \in Undecided /\ reply'[w] = reply[w]
      BY <1>3, <2>3 DEF StatementFails, Goto, TypeOK, AfterBracket, Undecided
    <3> QED
      BY <3>1, <3>2, <2>1, <2>3, OneMoves DEF Settled
  <2> QED
    BY <1>3, <2>2, <2>3 DEF StatementFails
<1>4. ASSUME NEW w \in Requests, Resolve(w) \/ Pond(w) \/ LockWriter(w) \/ GiveUp(w) \/ Attach(w)
      PROVE  PublishedInv'
  <2>1. snaps' = snaps /\ pc[w] \notin Settled
    BY <1>4 DEF Resolve, Pond, LockWriter, GiveUp, Attach, engineVars, Settled
  <2>2. \A v \in Requests \ {w} : pc'[v] = pc[v] /\ reply'[v] = reply[v]
    BY <1>4 DEF Resolve, Pond, LockWriter, GiveUp, Attach, Goto, TypeOK
  <2>3. pc'[w] \in Undecided => pc[w] \in Undecided /\ reply'[w] = reply[w]
    BY <1>4 DEF Resolve, Pond, LockWriter, GiveUp, Attach, Goto, TypeOK, Undecided
  <2> QED
    BY <2>1, <2>2, <2>3, OneMoves
<1>5. ASSUME NEW w \in Requests, BodyEnds(w) \/ Panic(w) \/ Recover(w)
      PROVE  PublishedInv'
  <2>1. snaps' = snaps /\ pc[w] \notin Settled
    BY <1>5 DEF BodyEnds, Panic, Recover, engineVars, Settled
  <2>2. \A v \in Requests \ {w} : pc'[v] = pc[v] /\ reply'[v] = reply[v]
    BY <1>5 DEF BodyEnds, Panic, Recover, Goto, TypeOK
  <2>3. pc'[w] \in Undecided => pc[w] \in Undecided /\ reply'[w] = reply[w]
    BY <1>5 DEF BodyEnds, Panic, Recover, Goto, TypeOK, Undecided
  <2> QED
    BY <2>1, <2>2, <2>3, OneMoves
<1>6. ASSUME NEW w \in Requests, Leave(w) \/ Teardown(w) PROVE PublishedInv'
  <2>1. snaps' = snaps /\ pc' = [pc EXCEPT ![w] = "done"] /\ reply' = reply
    BY <1>6 DEF Leave, Teardown, Goto
  <2>2. pc'[w] \in Settled /\ pc'[w] \notin Undecided
    BY <2>1 DEF TypeOK, Settled, Undecided
  <2> QED
    BY <2>1, <2>2, OneMoves DEF TypeOK
<1>7. ASSUME NEW w \in Requests, Start(w) \/ Cancel(w) \/ InterruptLost(w) PROVE PublishedInv'
  BY <1>7, <1>1 DEF Start, Cancel, InterruptLost, engineVars, requestVars
<1>8. ASSUME SetPondTier \/ ForgetPond \/ UNCHANGED vars PROVE PublishedInv'
  BY <1>8, <1>1 DEF SetPondTier, ForgetPond, vars, engineVars, requestVars
<1>9. ASSUME NEW w \in Requests, DriveTransaction(w) PROVE PublishedInv'
  <2>1. w \in Driving /\ pc' = pc /\ reply' = reply
    BY <1>9 DEF DriveTransaction, requestVars
  <2>2. snaps' = snaps \/ snaps' = Append(snaps, [by |-> w, attributed |-> FALSE])
    BY <1>9 DEF DriveTransaction
  <2>3. CASE snaps' = snaps
    BY <2>1, <2>3, <1>1
  <2>4. CASE snaps' = Append(snaps, [by |-> w, attributed |-> FALSE])
    <3>1. ASSUME NEW n \in 1..Len(snaps') PROVE Accounted(snaps[n])'
      <4>1. \/ snaps'[n] = [by |-> w, attributed |-> FALSE]
            \/ n \in 1..Len(snaps) /\ snaps'[n] = snaps[n]
        BY <2>4, <3>1, SnapshotsAre
      <4> QED
        BY <4>1, <2>1 DEF PublishedInv, Accounted
    <3> QED
      BY <3>1, <2>1 DEF PublishedInv
  <2> QED
    BY <2>2, <2>3, <2>4
<1> QED
  BY <1>2, <1>3, <1>4, <1>5, <1>6, <1>7, <1>8, <1>9 DEF Next, Step, Proceed, OwnError, Interrupt

\* The types and WriterInv are inductive together.
LEMMA WriterCorrect == Spec => [](TypeOK /\ WriterInv)
<1>1. Init => TypeOK /\ WriterInv
  BY WriterAssumption, AnswerFacts DEF Init, TypeOK, WriterInv, PcStates, Statements, Holding, None,
                          Requests
<1> QED
  BY <1>1, WriterTypeStep, WriterInvStep, PTL DEF Spec

\* The write path's positions, replies and snapshots keep their types.
THEOREM WriterTypeCorrect == Spec => []TypeOK
  BY WriterCorrect, PTL

\* write_query and pull_catalog give the writer back outside any transaction,
\* whatever was interrupted or refused; only a panic leaves one open.
THEOREM WriterCleanHolds == Spec => []WriterClean
<1>1. TypeOK /\ WriterInv => WriterClean
  BY WriterAssumption DEF TypeOK, WriterInv, WriterClean
<1> QED
  BY <1>1, WriterCorrect, PTL

\* A request answered with an error, a cancellation or a panic published nothing but
\* what its own SQL committed: in_write_txn never reports a failure once its COMMIT
\* took effect.
THEOREM ErrorMeansUnpublishedHolds == Spec => []ErrorMeansUnpublished
<1>1. Init => PublishedInv
  BY DEF Init, PublishedInv, Answer, Refusals
<1>2. PublishedInv => ErrorMeansUnpublished
  BY DEF PublishedInv, Accounted, ErrorMeansUnpublished
<1> QED
  BY <1>1, <1>2, PublishedStep, WriterTypeCorrect, PTL DEF Spec

-----------------------------------------------------------------------------
(* What pull_catalog attaches. *)

\* An instance with a catalog attached is held by a pull, or its last teardown failed,
\* and only a write leaves run_with_abort without a teardown.
AttachedInv ==
  /\ \A i \in attached : lock[i] \in Pulls \/ i \in stuck
  /\ \A w \in Requests : pc[w] = "leave" => w \in Writes

\* Every step keeps AttachedInv: the writer of an instance is given back by its own
\* holder, and a pull gives it back in its teardown alone.
LEMMA AttachedStep == TypeOK /\ WriterInv /\ AttachedInv /\ [Next]_vars => AttachedInv'
<1> SUFFICES ASSUME TypeOK, WriterInv, AttachedInv, [Next]_vars PROVE AttachedInv'
  OBVIOUS
<1> USE WriterAssumption DEF TypeOK, AttachedInv
<1>1. ASSUME UNCHANGED <<attached, stuck, lock, pc>> PROVE AttachedInv'
  BY <1>1
<1>2. ASSUME NEW w \in Requests, UNCHANGED <<attached, stuck, lock>>,
             NEW l, l = "leave" => w \in Writes, Goto(w, l)
      PROVE  AttachedInv'
  BY <1>2 DEF Goto
<1>3. ASSUME NEW w \in Requests, StatementEnds(w) PROVE AttachedInv'
  <2>1. \E l : (l = "leave" => w \in Writes) /\ Goto(w, l)
    BY <1>3 DEF StatementEnds, AfterBracket, Requests
  <2> QED
    BY <1>2, <1>3, <2>1 DEF StatementEnds
<1>4. ASSUME NEW w \in Requests, NEW a, StatementFails(w, a) PROVE AttachedInv'
  <2>1. \E l : (l = "leave" => w \in Writes) /\ Goto(w, l)
    BY <1>4 DEF StatementFails, AfterBracket, Requests
  <2> QED
    BY <1>2, <1>4, <2>1 DEF StatementFails, engineVars
<1>5. ASSUME NEW w \in Requests, Resolve(w) \/ Pond(w) \/ GiveUp(w) \/ BodyEnds(w)
      PROVE  AttachedInv'
  <2>1. \E l : l # "leave" /\ Goto(w, l)
    BY <1>5 DEF Resolve, Pond, GiveUp, BodyEnds
  <2> QED
    BY <1>2, <1>5, <2>1 DEF Resolve, Pond, GiveUp, BodyEnds, engineVars
<1>6. ASSUME NEW w \in Requests, LockWriter(w) PROVE AttachedInv'
  <2>1. /\ lock[inst[w]] = Free /\ lock' = [lock EXCEPT ![inst[w]] = w]
        /\ UNCHANGED <<attached, stuck>>
    BY <1>6 DEF LockWriter
  <2>2. inst[w] \in Requests /\ (inst[w] \in attached => inst[w] \in stuck)
    BY <1>6, <2>1 DEF LockWriter, WriterInv, Requests
  <2>3. \A i \in attached' : lock'[i] \in Pulls \/ i \in stuck'
    BY <2>1, <2>2
  <2>4. pc' = [pc EXCEPT ![w] = IF w \in Pulls THEN "attach" ELSE "before"]
    BY <1>6 DEF LockWriter, Goto
  <2> QED
    BY <2>3, <2>4
<1>7. ASSUME NEW w \in Requests, Attach(w) PROVE AttachedInv'
  <2>1. pc[w] = "attach" /\ attached' = attached \cup {inst[w]} /\ UNCHANGED <<lock, stuck>>
    BY <1>7 DEF Attach
  <2>2. w \in Pulls /\ lock[inst[w]] = w
    BY <2>1 DEF WriterInv, Holding
  <2>3. \A v \in Requests : pc'[v] = "leave" => pc[v] = "leave"
    BY <1>7 DEF Attach, Goto
  <2> QED
    BY <2>1, <2>2, <2>3
<1>8. ASSUME NEW w \in Writes, lock[inst[w]] = w, inst[w] \in Requests,
             UNCHANGED <<attached, stuck>>, lock' = [lock EXCEPT ![inst[w]] = Free], Goto(w, "done")
      PROVE  AttachedInv'
  BY <1>8 DEF Goto, Requests
<1>9. ASSUME NEW w \in Requests, Panic(w) \/ Recover(w) \/ Leave(w) PROVE AttachedInv'
  <2>1. pc[w] \in Holding /\ w \in Writes
    BY <1>9 DEF Panic, Recover, Leave, WriterInv, Holding, Statements
  <2>2. lock[inst[w]] = w /\ inst[w] \in Requests
    BY <2>1 DEF WriterInv
  <2> QED
    BY <1>8, <1>9, <2>1, <2>2 DEF Panic, Recover, Leave
<1>10. ASSUME NEW w \in Requests, Teardown(w) PROVE AttachedInv'
  <2>1. inst[w] \in Requests
    BY <1>10 DEF Teardown, WriterInv, Holding
  <2> QED
    BY <1>10, <2>1 DEF Teardown, Goto
<1>11. ASSUME NEW w \in Requests, Start(w) \/ Cancel(w) \/ InterruptLost(w) PROVE AttachedInv'
  BY <1>11, <1>1 DEF Start, Cancel, InterruptLost, engineVars, requestVars
<1>12. ASSUME SetPondTier \/ ForgetPond \/ UNCHANGED vars PROVE AttachedInv'
  BY <1>12, <1>1 DEF SetPondTier, ForgetPond, vars, engineVars, requestVars
<1>13. ASSUME NEW w \in Requests, DriveTransaction(w) PROVE AttachedInv'
  BY <1>13, <1>1 DEF DriveTransaction, requestVars
<1> QED
  BY <1>3, <1>4, <1>5, <1>6, <1>7, <1>9, <1>10, <1>11, <1>12, <1>13
     DEF Next, Step, Proceed, OwnError, Interrupt

\* pull_catalog detaches its catalog and drops its secret before it gives the
\* writer back, whichever of its steps failed, unless the teardown itself did.
THEOREM NothingAttachedHolds == Spec => []NothingAttached
<1>1. Init => AttachedInv
  BY DEF Init, AttachedInv
<1>2. AttachedInv => NothingAttached
  BY WriterAssumption DEF AttachedInv, NothingAttached, Requests
<1> QED
  BY <1>1, <1>2, AttachedStep, WriterCorrect, PTL DEF Spec

-----------------------------------------------------------------------------
(* The snapshot a request is answered with. *)

\* Where a request is ahead of its bracket's BEGIN, and where between its two
\* max_snapshot reads.
Early == {"idle", "open", "lock", "attach", "before"}
Within == {"begin", "body", "message", "commit", "after"}
Told == {"snapshot", "rows"}

\* Where a request is: one that has not asked for its instance has none, an answer of the
\* bracket means that the bracket is over, and none has published before the bracket.
PlaceFacts(w) ==
  /\ pc[w] \in {"idle", "open"} => inst[w] = Free
  /\ reply[w].kind \in Told => pc[w] \in {"leave", "teardown", "done"}
  /\ pc[w] \in Early => ~Published(w)

\* Between the reads, what a request has published is newer than its first reading, and
\* with one writer for all so is nothing else.
ReadingFacts(w) ==
  pc[w] \in Within =>
    /\ before[w] \in None..Len(snaps)
    /\ \A n \in 1..Len(snaps) : snaps[n].by = w => n > before[w]
    /\ Alone(w) => /\ Published(w) => snaps[Len(snaps)].by = w
                   /\ before[w] # None => \A n \in (before[w] + 1)..Len(snaps) : snaps[n].by = w

\* What a request was answered.
AnswerFactsOf(w) ==
  /\ reply[w].kind = "rows" => ~Published(w) \/ w \in blind
  /\ reply[w].kind = "snapshot" =>
       /\ reply[w].id \in 0..Len(snaps)
       /\ Published(w) => \E n \in 1..reply[w].id : snaps[n].by = w
       /\ Alone(w) /\ (Published(w) \/ before[w] # None) =>
            reply[w].id # 0 /\ snaps[reply[w].id].by = w

SnapshotFacts(w) == PlaceFacts(w) /\ ReadingFacts(w) /\ AnswerFactsOf(w)

SnapshotInv == \A w \in Requests : SnapshotFacts(w)

\* A step that leaves a request and the snapshots alone keeps its facts: a request
\* that is alone afterwards was so before.
LEMMA FactsKept ==
  ASSUME NEW u \in Requests, SnapshotFacts(u), snaps' = snaps,
         pc'[u] = pc[u], reply'[u] = reply[u], before'[u] = before[u], inst'[u] = inst[u],
         blind \subseteq blind', Alone(u)' => Alone(u)
  PROVE  SnapshotFacts(u)'
<1>1. Published(u)' = Published(u)
  BY DEF Published
<1>2. PlaceFacts(u)'
  BY <1>1 DEF SnapshotFacts, PlaceFacts
<1>3. ReadingFacts(u)'
  BY <1>1 DEF SnapshotFacts, ReadingFacts
<1>4. AnswerFactsOf(u)'
  BY <1>1 DEF SnapshotFacts, AnswerFactsOf
<1> QED
  BY <1>2, <1>3, <1>4 DEF SnapshotFacts

\* A request ahead of the bracket, or refused, has its facts for nothing.
LEMMA FactsOutside ==
  ASSUME NEW w \in Requests, PlaceFacts(w)', pc'[w] \notin Within, reply'[w].kind \notin Told
  PROVE  SnapshotFacts(w)'
  BY DEF SnapshotFacts, ReadingFacts, AnswerFactsOf, Told

\* A step of one request that publishes nothing keeps everybody's facts if it keeps
\* its own.
LEMMA OneSteps ==
  ASSUME TypeOK, SnapshotInv, NEW w \in Requests, snaps' = snaps, inst' = inst,
         blind \subseteq blind',
         \A v \in Requests \ {w} : pc'[v] = pc[v] /\ reply'[v] = reply[v] /\ before'[v] = before[v],
         SnapshotFacts(w)'
  PROVE  SnapshotInv'
<1> SUFFICES ASSUME NEW u \in Requests \ {w} PROVE SnapshotFacts(u)'
  BY DEF SnapshotInv
<1>1. Alone(u)' => Alone(u)
  BY DEF Alone
<1> QED
  BY <1>1, FactsKept DEF SnapshotInv

\* Two requests of one instance are not both in the bracket: the writer mutex.
LEMMA OneHolder ==
  ASSUME TypeOK, WriterInv, NEW w \in Requests, NEW u \in Requests \ {w},
         pc[w] \in Holding, Alone(u)
  PROVE  pc[u] \notin Holding
<1>1. inst[w] \in Requests /\ lock[inst[w]] = w
  BY DEF WriterInv
<1>2. inst[w] = inst[u]
  BY <1>1, WriterAssumption DEF Alone
<1> QED
  BY <1>1, <1>2 DEF WriterInv

\* Getting hold of the instance disturbs no facts: its request has none yet.
LEMMA PondFacts ==
  ASSUME TypeOK, SnapshotInv, NEW w \in Requests, Pond(w)
  PROVE  SnapshotInv'
<1>1. /\ pc[w] = "open" /\ snaps' = snaps /\ before' = before /\ blind' = blind
      /\ inst[w] = Free /\ reply[w].kind \notin Told /\ ~Published(w)
  BY DEF Pond, SnapshotInv, SnapshotFacts, PlaceFacts, Early
<1>2. pc' = [pc EXCEPT ![w] = "lock"] \/ pc' = [pc EXCEPT ![w] = "done"]
  BY DEF Pond, Goto
<1>3. reply' = reply \/ reply' = [reply EXCEPT ![w] = Answer("error")]
  BY DEF Pond
<1>4. \A v \in Requests \ {w} : inst'[v] = inst[v]
  BY DEF Pond, TypeOK
<1>5. SnapshotFacts(w)'
  <2>1. pc'[w] \in {"lock", "done"} /\ reply'[w].kind \notin Told
    BY <1>1, <1>2, <1>3 DEF TypeOK, Answer, Told
  <2>2. ~Published(w)'
    BY <1>1 DEF Published
  <2>3. PlaceFacts(w)'
    BY <2>1, <2>2 DEF PlaceFacts
  <2> QED
    BY <2>1, <2>3, FactsOutside DEF Within
<1>6. ASSUME NEW u \in Requests \ {w} PROVE SnapshotFacts(u)'
  <2>1. Alone(u)' => Alone(u)
    BY <1>1, <1>4 DEF Alone
  <2>2. pc'[u] = pc[u] /\ reply'[u] = reply[u]
    BY <1>2, <1>3 DEF TypeOK
  <2> QED
    BY <1>1, <1>4, <2>1, <2>2, FactsKept DEF SnapshotInv
<1> QED
  BY <1>5, <1>6 DEF SnapshotInv

\* A COMMIT, the bracket's or the caller's own: what it publishes is its request's, and
\* nobody else who shares the writer is in the bracket.
LEMMA CommitFacts ==
  ASSUME TypeOK, WriterInv, SnapshotInv, NEW w \in Requests,
         pc[w] \in {"body", "commit"}, pc'[w] \in Within,
         \A v \in Requests \ {w} : pc'[v] = pc[v],
         UNCHANGED <<reply, before, inst, blind>>,
         NEW s \in Snapshots, s.by = w, snaps' = Append(snaps, s)
  PROVE  SnapshotInv'
<1>1. snaps \in Seq(Snapshots) /\ Len(snaps) \in Nat
  BY SnapshotsAre
<1>2. /\ Len(snaps') = Len(snaps) + 1 /\ snaps'[Len(snaps')].by = w
      /\ \A n \in 1..Len(snaps) : snaps'[n] = snaps[n]
  BY <1>1
<1>3. \A n \in 1..Len(snaps') : n \in 1..Len(snaps) \/ n = Len(snaps')
  BY <1>1, <1>2
<1>4. pc[w] \in Within /\ pc[w] \in Holding /\ pc'[w] \notin Early /\ pc[w] \notin {"idle", "open"}
  BY DEF Within, Holding, Statements, Early
<1>5. reply[w].kind \notin Told
  BY <1>4 DEF SnapshotInv, SnapshotFacts, PlaceFacts
<1>6. Alone(w)' = Alone(w)
  BY DEF Alone
<1>7. SnapshotFacts(w)'
  <2>1. PlaceFacts(w)'
    BY <1>4, <1>5 DEF PlaceFacts, Early
  <2>2. /\ before[w] \in None..Len(snaps)
        /\ \A n \in 1..Len(snaps) : snaps[n].by = w => n > before[w]
        /\ Alone(w) /\ before[w] # None =>
             \A n \in (before[w] + 1)..Len(snaps) : snaps[n].by = w
    BY <1>4 DEF SnapshotInv, SnapshotFacts, ReadingFacts
  <2>3. before[w] \in None..Len(snaps') /\ Len(snaps') > before[w]
    BY <2>2, <1>1, <1>2 DEF None
  <2>4. \A n \in 1..Len(snaps') : snaps'[n].by = w => n > before[w]
    BY <2>2, <2>3, <1>2, <1>3
  <2>5. ASSUME Alone(w), before[w] # None, NEW n \in (before[w] + 1)..Len(snaps')
        PROVE  snaps'[n].by = w
    <3>1. n = Len(snaps') \/ n \in (before[w] + 1)..Len(snaps)
      BY <2>5, <2>2, <1>1, <1>2 DEF None
    <3>2. n \in (before[w] + 1)..Len(snaps) => n \in 1..Len(snaps)
      BY <2>5, <2>2, <1>1 DEF None
    <3> QED
      BY <3>1, <3>2, <2>2, <2>5, <1>2
  <2>6. ReadingFacts(w)'
    BY <2>3, <2>4, <2>5, <1>2, <1>6 DEF ReadingFacts
  <2> QED
    BY <2>1, <2>6, <1>5 DEF SnapshotFacts, AnswerFactsOf, Told
<1>8. ASSUME NEW u \in Requests \ {w} PROVE SnapshotFacts(u)'
  <2>1. pc'[u] = pc[u] /\ SnapshotFacts(u) /\ Alone(u)' = Alone(u)
    BY DEF SnapshotInv, Alone
  <2>2. Published(u)' = Published(u)
    BY <1>1, <1>2, <1>3 DEF Published
  <2>3. PlaceFacts(u)'
    BY <2>1, <2>2 DEF SnapshotFacts, PlaceFacts
  <2>4. ReadingFacts(u)'
    <3>1. SUFFICES ASSUME pc[u] \in Within PROVE ReadingFacts(u)'
      BY <2>1 DEF ReadingFacts
    <3>2. ~Alone(u)
      BY <3>1, <1>4, OneHolder DEF Within, Holding, Statements
    <3>3. before[u] \in None..Len(snaps) /\ \A n \in 1..Len(snaps) : snaps[n].by = u => n > before[u]
      BY <2>1, <3>1 DEF SnapshotFacts, ReadingFacts
    <3>4. before[u] \in None..Len(snaps')
      BY <3>3, <1>1, <1>2 DEF None
    <3>5. \A n \in 1..Len(snaps') : snaps'[n].by = u => n > before[u]
      BY <3>3, <1>2, <1>3
    <3> QED
      BY <2>1, <3>2, <3>4, <3>5 DEF ReadingFacts
  <2>5. AnswerFactsOf(u)'
    <3>1. ASSUME reply[u].kind = "snapshot"
          PROVE  /\ reply[u].id \in 0..Len(snaps')
                 /\ Published(u) => \E n \in 1..reply[u].id : snaps'[n].by = u
                 /\ Alone(u) /\ (Published(u) \/ before[u] # None) =>
                      reply[u].id # 0 /\ snaps'[reply[u].id].by = u
      <4>1. /\ reply[u].id \in 0..Len(snaps)
            /\ Published(u) => \E n \in 1..reply[u].id : snaps[n].by = u
            /\ Alone(u) /\ (Published(u) \/ before[u] # None) =>
                 reply[u].id # 0 /\ snaps[reply[u].id].by = u
        BY <2>1, <3>1 DEF SnapshotFacts, AnswerFactsOf
      <4>2. \A n \in 1..reply[u].id : n \in 1..Len(snaps)
        BY <4>1, <1>1
      <4>3. reply[u].id # 0 => reply[u].id \in 1..Len(snaps)
        BY <4>1, <1>1
      <4> QED
        BY <4>1, <4>2, <4>3, <1>1, <1>2
    <3> QED
      BY <2>1, <2>2, <3>1 DEF SnapshotFacts, AnswerFactsOf
  <2> QED
    BY <2>3, <2>4, <2>5 DEF SnapshotFacts
<1> QED
  BY <1>7, <1>8 DEF SnapshotInv

\* The second reading compares: without an advance nothing was published, and with one
\* and a single writer it is the request's own.
LEMMA OutcomeIsTrue ==
  ASSUME TypeOK, SnapshotInv, NEW w \in Requests, pc[w] = "after",
         NEW a, a = Outcome(w, MaxSnapshot)
  PROVE  /\ a.kind = "rows" => ~Published(w)
         /\ a.kind = "snapshot" =>
              /\ a.id \in 0..Len(snaps)
              /\ Published(w) => \E n \in 1..a.id : snaps[n].by = w
              /\ Alone(w) /\ (Published(w) \/ before[w] # None) =>
                   a.id # 0 /\ snaps[a.id].by = w
<1>1. ReadingFacts(w) /\ pc[w] \in Within
  BY DEF SnapshotInv, SnapshotFacts, Within
<1>2. before[w] \in Int /\ Len(snaps) \in Nat
  BY SnapshotsAre DEF TypeOK
<1>3. CASE Len(snaps) > before[w]
  <2>1. a = [kind |-> "snapshot", id |-> Len(snaps)]
    BY <1>3 DEF Outcome, MaxSnapshot
  <2>2. a.id = Len(snaps) /\ a.kind = "snapshot"
    BY <2>1
  <2>3. Published(w) => \E n \in 1..Len(snaps) : snaps[n].by = w
    BY DEF Published
  <2>4. Published(w) => Len(snaps) # 0
    BY <1>2 DEF Published
  <2>5. before[w] # None => Len(snaps) # 0 /\ Len(snaps) \in (before[w] + 1)..Len(snaps)
    BY <1>1, <1>2, <1>3 DEF ReadingFacts, None
  <2> QED
    BY <2>2, <2>3, <2>4, <2>5, <1>1, <1>2 DEF ReadingFacts
<1>4. CASE ~(Len(snaps) > before[w])
  <2>1. a = Answer("rows")
    BY <1>4 DEF Outcome, MaxSnapshot
  <2>2. a.kind = "rows"
    BY <2>1, AnswerFacts
  <2>3. \A n \in 1..Len(snaps) : snaps[n].by # w
    BY <1>1, <1>2, <1>4 DEF ReadingFacts
  <2> QED
    BY <2>2, <2>3 DEF Published
<1> QED
  BY <1>3, <1>4

\* Every step keeps SnapshotInv.
LEMMA SnapshotStep ==
  TypeOK /\ WriterInv /\ SnapshotInv /\ [Next]_vars => SnapshotInv'
<1> SUFFICES ASSUME TypeOK, WriterInv, SnapshotInv, [Next]_vars
             PROVE  SnapshotInv'
  OBVIOUS
<1>0. \A w \in Requests : PlaceFacts(w) /\ ReadingFacts(w) /\ AnswerFactsOf(w)
  BY DEF SnapshotInv, SnapshotFacts
<1>1. ASSUME NEW w \in Requests, StatementEnds(w) PROVE SnapshotInv'
  <2>1. inst' = inst /\ blind' = blind
    BY <1>1 DEF StatementEnds
  <2>2. CASE pc[w] = "commit"
    <3>1. pc' = [pc EXCEPT ![w] = "after"] /\ reply' = reply /\ before' = before
      BY <1>1, <2>2 DEF StatementEnds, Goto
    <3>2. \/ snaps' = snaps
          \/ w \in Mutating /\ snaps' = Append(snaps, [by |-> w, attributed |-> TRUE])
      BY <1>1, <2>2 DEF StatementEnds
    <3>3. pc'[w] = "after" /\ \A v \in Requests \ {w} : pc'[v] = pc[v]
      BY <3>1 DEF TypeOK
    <3>4. CASE snaps' = snaps
      <4>1. reply[w].kind \notin Told
        BY <1>0, <2>2 DEF PlaceFacts
      <4>2. PlaceFacts(w)'
        BY <3>1, <3>3, <4>1 DEF PlaceFacts, Early
      <4>3. Alone(w)' = Alone(w) /\ Published(w)' = Published(w)
        BY <2>1, <3>4 DEF Alone, Published
      <4>4. ReadingFacts(w)'
        BY <1>0, <2>2, <3>1, <3>3, <3>4, <4>3 DEF ReadingFacts, Within
      <4>5. SnapshotFacts(w)'
        BY <3>1, <4>1, <4>2, <4>4 DEF SnapshotFacts, AnswerFactsOf, Told
      <4> QED
        BY <3>1, <3>3, <3>4, <4>5, <2>1, OneSteps
    <3>5. CASE w \in Mutating /\ snaps' = Append(snaps, [by |-> w, attributed |-> TRUE])
      <4>1. [by |-> w, attributed |-> TRUE] \in Snapshots /\ [by |-> w, attributed |-> TRUE].by = w
        BY <3>5 DEF Snapshots
      <4>2. pc'[w] \in Within
        BY <3>3 DEF Within
      <4> QED
        BY <2>1, <2>2, <3>1, <3>3, <3>5, <4>1, <4>2, CommitFacts
    <3> QED
      BY <3>2, <3>4, <3>5
  <2>3. CASE pc[w] = "before"
    <3>1. /\ snaps' = snaps /\ reply' = reply
          /\ pc' = [pc EXCEPT ![w] = "begin"] /\ before' = [before EXCEPT ![w] = MaxSnapshot]
      BY <1>1, <2>3 DEF StatementEnds, Goto
    <3>2. pc'[w] = "begin" /\ before'[w] = Len(snaps') /\ reply'[w].kind \notin Told
      BY <1>0, <3>1, <2>3 DEF TypeOK, MaxSnapshot, PlaceFacts
    <3>3. ~Published(w)' /\ Len(snaps') \in Nat
      BY <1>0, <2>3, <3>1, SnapshotsAre DEF PlaceFacts, Early, Published
    <3>4. PlaceFacts(w)'
      BY <3>2 DEF PlaceFacts, Early
    <3>5. ReadingFacts(w)'
      BY <3>2, <3>3 DEF ReadingFacts, None, Published
    <3>6. SnapshotFacts(w)'
      BY <3>2, <3>4, <3>5 DEF SnapshotFacts, AnswerFactsOf, Told
    <3> QED
      BY <3>1, <3>6, <2>1, OneSteps DEF TypeOK
  <2>4. CASE pc[w] \in {"begin", "message"}
    <3>1. /\ snaps' = snaps /\ reply' = reply /\ before' = before
          /\ pc' = [pc EXCEPT ![w] = "body"] \/ pc' = [pc EXCEPT ![w] = "commit"]
      BY <1>1, <2>4 DEF StatementEnds, Goto
    <3>2. pc'[w] \in {"body", "commit"} /\ reply'[w].kind \notin Told
      BY <1>0, <3>1, <2>4 DEF TypeOK, PlaceFacts
    <3>3. Alone(w)' = Alone(w) /\ Published(w)' = Published(w)
      BY <2>1, <3>1 DEF Alone, Published
    <3>4. PlaceFacts(w)'
      BY <3>2 DEF PlaceFacts, Early
    <3>5. ReadingFacts(w)'
      BY <1>0, <2>4, <3>1, <3>3 DEF ReadingFacts, Within
    <3>6. SnapshotFacts(w)'
      BY <3>2, <3>4, <3>5 DEF SnapshotFacts, AnswerFactsOf, Told
    <3> QED
      BY <3>1, <3>6, <2>1, OneSteps DEF TypeOK
  <2>5. CASE pc[w] = "after"
    <3>1. /\ snaps' = snaps /\ before' = before
          /\ pc' = [pc EXCEPT ![w] = AfterBracket(w, TRUE)]
          /\ reply' = [reply EXCEPT ![w] = Outcome(w, MaxSnapshot)]
      BY <1>1, <2>5 DEF StatementEnds, Goto
    <3>2. pc'[w] \in {"leave", "teardown"} /\ reply'[w] = Outcome(w, MaxSnapshot)
      BY <3>1 DEF TypeOK, AfterBracket
    <3>3. Alone(w)' = Alone(w) /\ Published(w)' = Published(w)
      BY <2>1, <3>1 DEF Alone, Published
    <3>4. AnswerFactsOf(w)'
      BY <2>5, <3>1, <3>2, <3>3, OutcomeIsTrue DEF AnswerFactsOf
    <3>5. PlaceFacts(w)' /\ ReadingFacts(w)'
      BY <3>2 DEF PlaceFacts, ReadingFacts, Early, Within
    <3>6. SnapshotFacts(w)'
      BY <3>4, <3>5 DEF SnapshotFacts
    <3> QED
      BY <3>1, <3>6, <2>1, OneSteps DEF TypeOK
  <2>6. CASE pc[w] = "rollback"
    <3>1. /\ snaps' = snaps /\ before' = before /\ reply' = reply
          /\ pc' = [pc EXCEPT ![w] = AfterBracket(w, FALSE)]
      BY <1>1, <2>6 DEF StatementEnds, Goto
    <3>2. pc'[w] \in {"recover", "teardown"} /\ reply'[w].kind \notin Told
      BY <1>0, <3>1, <2>6 DEF TypeOK, AfterBracket, PlaceFacts
    <3>3. SnapshotFacts(w)'
      BY <3>2, FactsOutside DEF PlaceFacts, Early, Within
    <3> QED
      BY <3>1, <3>3, <2>1, OneSteps DEF TypeOK
  <2> QED
    BY <1>1, <2>2, <2>3, <2>4, <2>5, <2>6 DEF StatementEnds
<1>2. ASSUME NEW w \in Requests, NEW answer \in Refusals, StatementFails(w, answer)
      PROVE  SnapshotInv'
  <2>1. inst' = inst /\ snaps' = snaps /\ blind \subseteq blind'
    BY <1>2 DEF StatementFails, engineVars
  <2>2. \A v \in Requests \ {w} : pc'[v] = pc[v] /\ reply'[v] = reply[v] /\ before'[v] = before[v]
    BY <1>2 DEF StatementFails, Goto, TypeOK
  <2>3. Alone(w)' = Alone(w) /\ Published(w)' = Published(w)
    BY <2>1 DEF Alone, Published
  <2>4. CASE pc[w] \in {"body", "commit", "begin", "message"}
    <3>1. pc'[w] \in {"rollback", "recover", "teardown"} /\ reply'[w] = Answer(answer)
      BY <1>2, <2>4 DEF StatementFails, Goto, TypeOK, AfterBracket
    <3>2. reply'[w].kind \notin Told
      BY <3>1 DEF Answer, Refusals, Told
    <3>3. SnapshotFacts(w)'
      BY <3>1, <3>2, FactsOutside DEF PlaceFacts, Early, Within
    <3> QED
      BY <2>1, <2>2, <3>3, OneSteps
  <2>5. CASE pc[w] = "rollback"
    <3>1. pc'[w] \in {"recover", "teardown"} /\ reply'[w] = reply[w]
      BY <1>2, <2>5 DEF StatementFails, Goto, TypeOK, AfterBracket
    <3>2. reply'[w].kind \notin Told
      BY <1>0, <2>5, <3>1 DEF PlaceFacts
    <3>3. SnapshotFacts(w)'
      BY <3>1, <3>2, FactsOutside DEF PlaceFacts, Early, Within
    <3> QED
      BY <2>1, <2>2, <3>3, OneSteps
  <2>6. CASE pc[w] = "before"
    <3>1. pc'[w] = "begin" /\ reply'[w] = reply[w] /\ before'[w] = None
      BY <1>2, <2>6 DEF StatementFails, Goto, TypeOK
    <3>2. reply'[w].kind \notin Told /\ ~Published(w)' /\ Len(snaps') \in Nat
      BY <1>0, <2>1, <2>3, <2>6, <3>1, SnapshotsAre DEF PlaceFacts, Early
    <3>3. PlaceFacts(w)'
      BY <3>1, <3>2 DEF PlaceFacts, Early
    <3>4. ReadingFacts(w)'
      BY <3>1, <3>2 DEF ReadingFacts, None
    <3>5. SnapshotFacts(w)'
      BY <3>2, <3>3, <3>4 DEF SnapshotFacts, AnswerFactsOf, Told
    <3> QED
      BY <2>1, <2>2, <3>5, OneSteps
  <2>7. CASE pc[w] = "after"
    <3>1. /\ pc'[w] \in {"leave", "teardown"} /\ reply'[w] = Outcome(w, None)
          /\ w \in blind'
      BY <1>2, <2>7 DEF StatementFails, Goto, TypeOK, AfterBracket
    <3>2. before[w] \in None..Len(snaps) /\ Len(snaps) \in Nat
      BY <1>0, <2>7, SnapshotsAre DEF ReadingFacts, Within
    <3>3. ~(None > before[w])
      BY <3>2 DEF None
    <3>4. reply'[w].kind = "rows"
      BY <3>1, <3>3 DEF Outcome, Answer
    <3>5. SnapshotFacts(w)'
      BY <3>1, <3>4 DEF SnapshotFacts, PlaceFacts, ReadingFacts, AnswerFactsOf, Early, Within
    <3> QED
      BY <2>1, <2>2, <3>5, OneSteps
  <2> QED
    BY <1>2, <2>4, <2>5, <2>6, <2>7 DEF StatementFails
<1>3. ASSUME NEW w \in Requests,
             LockWriter(w) \/ Recover(w) \/ Leave(w) \/ Teardown(w)
      PROVE  SnapshotInv'
  <2>1. /\ inst' = inst /\ snaps' = snaps /\ reply' = reply /\ before' = before /\ blind' = blind
        /\ pc[w] \in {"lock", "recover", "leave", "teardown"}
    BY <1>3 DEF LockWriter, Recover, Leave, Teardown
  <2>2. PICK l \in {"attach", "before", "done"} :
          pc' = [pc EXCEPT ![w] = l] /\ (pc[w] = "lock" \/ l = "done")
    BY <1>3 DEF LockWriter, Recover, Leave, Teardown, Goto
  <2>3. pc'[w] = l
    BY <2>2 DEF TypeOK
  <2>4. Alone(w)' = Alone(w) /\ Published(w)' = Published(w)
    BY <2>1 DEF Alone, Published
  <2>5. PlaceFacts(w)'
    BY <1>0, <2>1, <2>2, <2>3, <2>4 DEF PlaceFacts, Early, Told
  <2>6. ReadingFacts(w)' /\ AnswerFactsOf(w)'
    BY <1>0, <2>1, <2>3, <2>4 DEF ReadingFacts, AnswerFactsOf, Within
  <2>7. SnapshotFacts(w)'
    BY <2>5, <2>6 DEF SnapshotFacts
  <2> QED
    BY <2>1, <2>2, <2>7, OneSteps DEF TypeOK
<1>4. ASSUME NEW w \in Requests, GiveUp(w) \/ Panic(w) PROVE SnapshotInv'
  <2>1. /\ inst' = inst /\ snaps' = snaps /\ before' = before /\ blind' = blind
        /\ pc' = [pc EXCEPT ![w] = "done"]
        /\ reply' = [reply EXCEPT ![w] = Answer("cancelled")]
           \/ reply' = [reply EXCEPT ![w] = Answer("panicked")]
    BY <1>4 DEF GiveUp, Panic, engineVars, Goto
  <2>2. pc'[w] = "done" /\ reply'[w].kind \notin Told
    BY <2>1, AnswerFacts DEF TypeOK, Told
  <2>3. SnapshotFacts(w)'
    BY <2>2, FactsOutside DEF PlaceFacts, Early, Within
  <2> QED
    BY <2>1, <2>3, OneSteps DEF TypeOK
<1>5. ASSUME NEW w \in Requests, Attach(w) PROVE SnapshotInv'
  <2>1. inst' = inst /\ snaps' = snaps /\ before' = before /\ blind' = blind /\ pc[w] = "attach"
    BY <1>5 DEF Attach
  <2>2. /\ pc' = [pc EXCEPT ![w] = "before"] \/ pc' = [pc EXCEPT ![w] = "teardown"]
        /\ reply' = reply \/ reply' = [reply EXCEPT ![w] = Answer("error")]
    BY <1>5 DEF Attach, Goto
  <2>3. reply[w].kind \notin Told /\ Answer("error").kind \notin Told /\ ~Published(w)'
    BY <1>0, <2>1, AnswerFacts DEF PlaceFacts, Early, Told, Published
  <2>4. pc'[w] \in {"before", "teardown"} /\ reply'[w].kind \notin Told
    BY <2>2, <2>3 DEF TypeOK
  <2>5. SnapshotFacts(w)'
    BY <2>3, <2>4, FactsOutside DEF PlaceFacts, Within
  <2> QED
    BY <2>1, <2>2, <2>5, OneSteps DEF TypeOK
<1>6. ASSUME NEW w \in Requests, BodyEnds(w) PROVE SnapshotInv'
  <2>1. /\ inst' = inst /\ snaps' = snaps /\ before' = before /\ reply' = reply /\ blind' = blind
        /\ pc[w] = "body" /\ pc' = [pc EXCEPT ![w] = "message"]
    BY <1>6 DEF BodyEnds, engineVars, Goto
  <2>2. pc'[w] = "message" /\ reply'[w].kind \notin Told
    BY <1>0, <2>1 DEF TypeOK, PlaceFacts
  <2>3. Alone(w)' = Alone(w) /\ Published(w)' = Published(w)
    BY <2>1 DEF Alone, Published
  <2>4. PlaceFacts(w)' /\ AnswerFactsOf(w)'
    BY <2>2 DEF PlaceFacts, AnswerFactsOf, Early, Told
  <2>5. ReadingFacts(w)'
    BY <1>0, <2>1, <2>3 DEF ReadingFacts, Within
  <2>6. SnapshotFacts(w)'
    BY <2>4, <2>5 DEF SnapshotFacts
  <2> QED
    BY <2>1, <2>6, OneSteps DEF TypeOK
<1>7. ASSUME NEW w \in Requests, Resolve(w) PROVE SnapshotInv'
  <2>1. /\ inst' = inst /\ snaps' = snaps /\ before' = before /\ reply' = reply /\ blind' = blind
        /\ pc[w] = "idle" /\ pc' = [pc EXCEPT ![w] = "open"]
    BY <1>7 DEF Resolve, engineVars, Goto
  <2>2. /\ pc'[w] = "open" /\ reply'[w].kind \notin Told /\ inst'[w] = Free /\ ~Published(w)'
    BY <1>0, <2>1 DEF TypeOK, PlaceFacts, Early, Published
  <2>3. SnapshotFacts(w)'
    BY <2>2, FactsOutside DEF PlaceFacts, Within
  <2> QED
    BY <2>1, <2>3, OneSteps DEF TypeOK
<1>8. ASSUME UNCHANGED <<snaps, pc, reply, before, inst, blind>>
      PROVE  SnapshotInv'
  <2>1. \A u \in Requests : Alone(u)' => Alone(u)
    BY <1>8 DEF Alone
  <2> QED
    BY <1>8, <2>1, FactsKept DEF SnapshotInv
<1>9. ASSUME NEW w \in Requests, Start(w) \/ Cancel(w) \/ InterruptLost(w) PROVE SnapshotInv'
  BY <1>9, <1>8 DEF Start, Cancel, InterruptLost, engineVars, requestVars
<1>10. ASSUME SetPondTier \/ ForgetPond \/ UNCHANGED vars PROVE SnapshotInv'
  BY <1>10, <1>8 DEF SetPondTier, ForgetPond, vars, engineVars, requestVars
<1>11. ASSUME NEW w \in Requests, OwnError(w) \/ Interrupt(w) PROVE SnapshotInv'
  BY <1>2, <1>11, AnswerFacts DEF OwnError, Interrupt
<1>12. ASSUME NEW w \in Requests, DriveTransaction(w) PROVE SnapshotInv'
  <2>1. pc[w] = "body" /\ UNCHANGED <<pc, reply, before, inst, blind>>
    BY <1>12 DEF DriveTransaction, requestVars
  <2>2. \/ snaps' = snaps
        \/ w \in Mutating /\ snaps' = Append(snaps, [by |-> w, attributed |-> FALSE])
    BY <1>12 DEF DriveTransaction
  <2>3. CASE snaps' = snaps
    BY <2>1, <2>3, <1>8
  <2>4. CASE w \in Mutating /\ snaps' = Append(snaps, [by |-> w, attributed |-> FALSE])
    <3>1. [by |-> w, attributed |-> FALSE] \in Snapshots /\ [by |-> w, attributed |-> FALSE].by = w
      BY <2>4 DEF Snapshots
    <3>2. pc'[w] \in Within
      BY <2>1 DEF Within
    <3> QED
      BY <2>1, <2>4, <3>1, <3>2, CommitFacts
  <2> QED
    BY <2>2, <2>3, <2>4
<1> QED
  BY <1>1, <1>3, <1>4, <1>5, <1>6, <1>7, <1>9, <1>10, <1>11, <1>12, PondFacts
     DEF Next, Step, Proceed

\* in_write_txn tells a request the truth about its snapshot: without one it published
\* nothing, unless the second read failed, and with one it is no older than its own,
\* and its own where one writer serves all.
THEOREM ReportsItsSnapshotHolds == Spec => []ReportsItsSnapshot
<1>1. Init => SnapshotInv
  BY DEF Init, SnapshotInv, SnapshotFacts, PlaceFacts, ReadingFacts, AnswerFactsOf, Early, Within,
         Told, Answer, Published
<1>2. SnapshotInv => ReportsItsSnapshot
  BY DEF SnapshotInv, SnapshotFacts, AnswerFactsOf, ReportsItsSnapshot
<1> QED
  BY <1>1, <1>2, SnapshotStep, WriterCorrect, PTL DEF Spec

=============================================================================
