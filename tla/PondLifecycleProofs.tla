------------------------ MODULE PondLifecycleProofs ------------------------
(***************************************************************************)
(* Proofs about PondLifecycle for every set of ponds, nodes, queries and   *)
(* drops, every set of clients that may hang up and every crash bound.     *)
(*                                                                         *)
(* PlacementInv says what a handler's position implies about the registry, *)
(* and StorageInv builds the storage properties on it; WindowInv is the    *)
(* strengthening behind OnlyRegisterWindowEscapes.  The last part shows,   *)
(* action by action, that the module implements PondPromise.               *)
(***************************************************************************)
EXTENDS PondLifecycle, TLAPS

\* A create that has not run has no row, no owner and no materialise call, and
\* any other create has placed its pond; a handler past its routing is on the
\* pond's owner; and a drop past its registry call has removed the row for good.
PlacementInv ==
  /\ \A p \in Ponds : cpc[p] = "new" => p \notin rows /\ owner[p] = NoNode /\ mpc[p] = "idle"
  /\ \A p \in Ponds : cpc[p] # "new" => owner[p] \in Nodes
  /\ \A q \in Queries : qpc[q] # "idle" => cpc[qpond[q]] # "new"
  /\ \A q \in Queries : qpc[q] \in QueryBusy \ {"resolve"} => owner[qpond[q]] = qat[q]
  /\ \A d \in Drops : dpc[d] # "idle" => cpc[dpond[d]] # "new"
  /\ \A d \in Drops : dpc[d] \in DropBusy \ {"resolve"} => owner[dpond[d]] = dat[d]
  /\ \A d \in Drops : dpc[d] \in {"forget", "delete", "end"} => dpond[d] \notin rows

\* A materialise call past ensure_pond has its directory for as long as the row
\* is there, and a create answers "ok" only after its call is done.
StorageInv ==
  /\ NoStrayPond
  /\ \A p \in Ponds : mpc[p] \in {"init", "done"} /\ p \in rows => p \in disk[owner[p]]
  /\ \A p \in Ponds : cpc[p] = "ok" => mpc[p] = "done"

\* The sole drop of a pond keeps its tombstone; a query between register's locks
\* during it was either caught there by begin_drop or carries a cancelled token;
\* and what is on the engine is registered, or detached and cancelled.
WindowInv ==
  /\ \A q \in Queries : qpc[q] \in {"engine", "exec"} => q \in inflight
  /\ \A q \in Queries : qpc[q] \in {"queued", "detached"} => q \in token
  /\ \A d \in Drops : dpc[d] \in Tombstoned \cup {"cancel"} /\ SoleDrop(d)
                      => dpond[d] \in dropping[dat[d]]
  /\ \A d \in Drops, q \in Queries :
       /\ dpc[d] \in Tombstoned \cup {"cancel"}
       /\ SoleDrop(d)
       /\ SameTarget(q, d)
       /\ qpc[q] = "insert"
       => q \in token \/ q \in raced
  /\ OnlyRegisterWindowEscapes

-----------------------------------------------------------------------------
(* Type correctness. *)

\* Every step of PondLifecycle keeps the types of its variables.
LEMMA TypeStep == TypeOK /\ [Next]_vars => TypeOK'
<1> SUFFICES ASSUME TypeOK, [Next]_vars PROVE TypeOK'
  OBVIOUS
<1> USE LifecycleAssumption
    DEF TypeOK, NodeStates, CreateStates, MaterializeStates, QueryStates,
        QueryBusy, DropStates, DropBusy, registryVars, nodeVars, createVars, localVars,
        queryVars, dropVars
<1>1. ASSUME NEW n \in Nodes, RegisterNode(n) PROVE TypeOK'
  BY <1>1 DEF RegisterNode
<1>2. ASSUME NEW n \in Nodes, Heartbeat(n) PROVE TypeOK'
  BY <1>2 DEF Heartbeat
<1>3. ASSUME NEW n \in Nodes, HeartbeatLapses(n) PROVE TypeOK'
  BY <1>3 DEF HeartbeatLapses
<1>4. ASSUME NEW n \in Nodes, Crash(n) PROVE TypeOK'
  BY <1>4 DEF Crash
<1>5. ASSUME ReapStaleNodes PROVE TypeOK'
  BY <1>5 DEF ReapStaleNodes
<1>6. ASSUME NEW p \in Ponds, CreatePond(p) PROVE TypeOK'
  BY <1>6 DEF CreatePond
<1>7. ASSUME NEW p \in Ponds, CallMaterialize(p) PROVE TypeOK'
  BY <1>7 DEF CallMaterialize
<1>8. ASSUME NEW p \in Ponds, MaterializeAnswered(p) PROVE TypeOK'
  BY <1>8 DEF MaterializeAnswered
<1>9. ASSUME NEW p \in Ponds, MaterializeTimesOut(p) PROVE TypeOK'
  BY <1>9 DEF MaterializeTimesOut
<1>10. ASSUME NEW p \in Ponds, Compensate(p) PROVE TypeOK'
  BY <1>10 DEF Compensate
<1>11. ASSUME NEW p \in Ponds, CreateHangup(p) PROVE TypeOK'
  BY <1>11 DEF CreateHangup
<1>12. ASSUME NEW p \in Ponds, MaterializeResolve(p) PROVE TypeOK'
  BY <1>12 DEF MaterializeResolve
<1>13. ASSUME NEW p \in Ponds, MaterializeEnsure(p) PROVE TypeOK'
  BY <1>13 DEF MaterializeEnsure
<1>14. ASSUME NEW p \in Ponds, MaterializeInit(p) PROVE TypeOK'
  BY <1>14 DEF MaterializeInit, EngineCanServe
<1>15. ASSUME NEW p \in Ponds, ForgetPond(p) PROVE TypeOK'
  BY <1>15 DEF ForgetPond
<1>16. ASSUME NEW q \in Queries, QueryArrives(q) PROVE TypeOK'
  BY <1>16 DEF QueryArrives
<1>17. ASSUME NEW q \in Queries, QueryRoute(q) PROVE TypeOK'
  BY <1>17 DEF QueryRoute, IsLocal
<1>18. ASSUME NEW q \in Queries, QueryEnsure(q) PROVE TypeOK'
  BY <1>18 DEF QueryEnsure
<1>19. ASSUME NEW q \in Queries, RegisterCheck(q) PROVE TypeOK'
  BY <1>19 DEF RegisterCheck
<1>20. ASSUME NEW q \in Queries, RegisterInsert(q) PROVE TypeOK'
  BY <1>20 DEF RegisterInsert
<1>21. ASSUME NEW q \in Queries, QueryOpen(q) PROVE TypeOK'
  <2>1. open' \in [Nodes -> SUBSET Ponds]
    BY <1>21 DEF QueryOpen
  <2>2. qpc' \in [Queries -> QueryStates] /\ inflight' \subseteq Queries
    BY <1>21 DEF QueryOpen
  <2> QED
    BY <1>21, <2>1, <2>2 DEF QueryOpen
<1>22. ASSUME NEW q \in Queries, Abort(q) PROVE TypeOK'
  BY <1>22 DEF Abort
<1>23. ASSUME NEW q \in Queries, QueryComplete(q) PROVE TypeOK'
  BY <1>23 DEF QueryComplete
<1>24. ASSUME NEW q \in Queries, QueryHangup(q) PROVE TypeOK'
  BY <1>24 DEF QueryHangup
<1>25. ASSUME NEW q \in Queries, DetachedOpen(q) PROVE TypeOK'
  BY <1>25 DEF DetachedOpen, EngineCanServe
<1>26. ASSUME NEW q \in Queries, DetachedEnds(q) PROVE TypeOK'
  BY <1>26 DEF DetachedEnds
<1>27. ASSUME NEW d \in Drops, DropArrives(d) PROVE TypeOK'
  BY <1>27 DEF DropArrives
<1>28. ASSUME NEW d \in Drops, DropRoute(d) PROVE TypeOK'
  <2>1. dpc' \in [Drops -> DropStates] /\ dat' \in [Drops -> Nodes]
    BY <1>28 DEF DropRoute, IsLocal
  <2> QED
    BY <1>28, <2>1 DEF DropRoute
<1>29. ASSUME NEW d \in Drops, BeginDropMark(d) PROVE TypeOK'
  BY <1>29 DEF BeginDropMark, SameTarget
<1>30. ASSUME NEW d \in Drops, BeginDropCancel(d) PROVE TypeOK'
  BY <1>30 DEF BeginDropCancel, SameTarget
<1>31. ASSUME NEW d \in Drops, DropRegistry(d) PROVE TypeOK'
  BY <1>31 DEF DropRegistry
<1>32. ASSUME NEW d \in Drops, DropAbort(d) PROVE TypeOK'
  BY <1>32 DEF DropAbort
<1>33. ASSUME NEW d \in Drops, DropForget(d) PROVE TypeOK'
  BY <1>33 DEF DropForget
<1>34. ASSUME NEW d \in Drops, DropDelete(d) PROVE TypeOK'
  BY <1>34 DEF DropDelete
<1>35. ASSUME NEW d \in Drops, EndDrop(d) PROVE TypeOK'
  BY <1>35 DEF EndDrop
<1>36. ASSUME NEW d \in Drops, DropHangup(d) PROVE TypeOK'
  BY <1>36 DEF DropHangup
<1>37. CASE UNCHANGED vars
  BY <1>37 DEF vars
<1> QED
  BY <1>1, <1>2, <1>3, <1>4, <1>5, <1>6, <1>7, <1>8, <1>9, <1>10, <1>11,
     <1>12, <1>13, <1>14, <1>15, <1>16, <1>17, <1>18, <1>19, <1>20, <1>21,
     <1>22, <1>23, <1>24, <1>25, <1>26, <1>27, <1>28, <1>29, <1>30, <1>31,
     <1>32, <1>33, <1>34, <1>35, <1>36, <1>37 DEF Next, NodeStep, CreateStep,
     MaterializeStep, QueryStep, QueryServe, DropStep, DropServe

\* The variables of PondLifecycle keep their types in every behaviour of the
\* create, query, drop, forget and node actions.
THEOREM TypeCorrect == Spec => []TypeOK
<1>1. Init => TypeOK
  BY LifecycleAssumption DEF Init, TypeOK, NodeStates, CreateStates, MaterializeStates,
     QueryStates, DropStates
<1> QED
  BY <1>1, TypeStep, PTL DEF Spec

-----------------------------------------------------------------------------
(* Storage. *)

\* Handlers keep to the pond's owner, and a removed row never comes back.
LEMMA PlacementStep == TypeOK /\ PlacementInv /\ [Next]_vars => PlacementInv'
<1> SUFFICES ASSUME TypeOK, PlacementInv, [Next]_vars PROVE PlacementInv'
  OBVIOUS
<1> USE LifecycleAssumption
    DEF TypeOK, PlacementInv, CreateStates, MaterializeStates, QueryStates, QueryBusy,
        DropStates, DropBusy, registryVars, nodeVars, createVars, localVars,
        queryVars, dropVars
<1>1. ASSUME NEW n \in Nodes, RegisterNode(n) PROVE PlacementInv'
  BY <1>1 DEF RegisterNode
<1>2. ASSUME NEW n \in Nodes, Heartbeat(n) PROVE PlacementInv'
  BY <1>2 DEF Heartbeat
<1>3. ASSUME NEW n \in Nodes, HeartbeatLapses(n) PROVE PlacementInv'
  BY <1>3 DEF HeartbeatLapses
<1>4. ASSUME NEW n \in Nodes, Crash(n) PROVE PlacementInv'
  BY <1>4 DEF Crash
<1>5. ASSUME ReapStaleNodes PROVE PlacementInv'
  BY <1>5 DEF ReapStaleNodes
<1>6. ASSUME NEW p \in Ponds, CreatePond(p) PROVE PlacementInv'
  BY <1>6 DEF CreatePond
<1>7. ASSUME NEW p \in Ponds, CallMaterialize(p) PROVE PlacementInv'
  BY <1>7 DEF CallMaterialize
<1>8. ASSUME NEW p \in Ponds, MaterializeAnswered(p) PROVE PlacementInv'
  BY <1>8 DEF MaterializeAnswered
<1>9. ASSUME NEW p \in Ponds, MaterializeTimesOut(p) PROVE PlacementInv'
  BY <1>9 DEF MaterializeTimesOut
<1>10. ASSUME NEW p \in Ponds, Compensate(p) PROVE PlacementInv'
  BY <1>10 DEF Compensate
<1>11. ASSUME NEW p \in Ponds, CreateHangup(p) PROVE PlacementInv'
  BY <1>11 DEF CreateHangup
<1>12. ASSUME NEW p \in Ponds, MaterializeResolve(p) PROVE PlacementInv'
  BY <1>12 DEF MaterializeResolve
<1>13. ASSUME NEW p \in Ponds, MaterializeEnsure(p) PROVE PlacementInv'
  BY <1>13 DEF MaterializeEnsure
<1>14. ASSUME NEW p \in Ponds, MaterializeInit(p) PROVE PlacementInv'
  BY <1>14 DEF MaterializeInit, EngineCanServe
<1>15. ASSUME NEW p \in Ponds, ForgetPond(p) PROVE PlacementInv'
  BY <1>15 DEF ForgetPond
<1>16. ASSUME NEW q \in Queries, QueryArrives(q) PROVE PlacementInv'
  BY <1>16 DEF QueryArrives
<1>17. ASSUME NEW q \in Queries, QueryRoute(q) PROVE PlacementInv'
  BY <1>17 DEF QueryRoute, IsLocal
<1>18. ASSUME NEW q \in Queries, QueryEnsure(q) PROVE PlacementInv'
  BY <1>18 DEF QueryEnsure
<1>19. ASSUME NEW q \in Queries, RegisterCheck(q) PROVE PlacementInv'
  BY <1>19 DEF RegisterCheck
<1>20. ASSUME NEW q \in Queries, RegisterInsert(q) PROVE PlacementInv'
  BY <1>20 DEF RegisterInsert
<1>21. ASSUME NEW q \in Queries, QueryOpen(q) PROVE PlacementInv'
  BY <1>21 DEF QueryOpen, EngineCanServe
<1>22. ASSUME NEW q \in Queries, Abort(q) PROVE PlacementInv'
  BY <1>22 DEF Abort
<1>23. ASSUME NEW q \in Queries, QueryComplete(q) PROVE PlacementInv'
  BY <1>23 DEF QueryComplete
<1>24. ASSUME NEW q \in Queries, QueryHangup(q) PROVE PlacementInv'
  BY <1>24 DEF QueryHangup
<1>25. ASSUME NEW q \in Queries, DetachedOpen(q) PROVE PlacementInv'
  BY <1>25 DEF DetachedOpen, EngineCanServe
<1>26. ASSUME NEW q \in Queries, DetachedEnds(q) PROVE PlacementInv'
  BY <1>26 DEF DetachedEnds
<1>27. ASSUME NEW d \in Drops, DropArrives(d) PROVE PlacementInv'
  BY <1>27 DEF DropArrives
<1>28. ASSUME NEW d \in Drops, DropRoute(d) PROVE PlacementInv'
  BY <1>28 DEF DropRoute, IsLocal
<1>29. ASSUME NEW d \in Drops, BeginDropMark(d) PROVE PlacementInv'
  BY <1>29 DEF BeginDropMark, SameTarget
<1>30. ASSUME NEW d \in Drops, BeginDropCancel(d) PROVE PlacementInv'
  BY <1>30 DEF BeginDropCancel, SameTarget
<1>31. ASSUME NEW d \in Drops, DropRegistry(d) PROVE PlacementInv'
  BY <1>31 DEF DropRegistry
<1>32. ASSUME NEW d \in Drops, DropAbort(d) PROVE PlacementInv'
  BY <1>32 DEF DropAbort
<1>33. ASSUME NEW d \in Drops, DropForget(d) PROVE PlacementInv'
  BY <1>33 DEF DropForget
<1>34. ASSUME NEW d \in Drops, DropDelete(d) PROVE PlacementInv'
  BY <1>34 DEF DropDelete
<1>35. ASSUME NEW d \in Drops, EndDrop(d) PROVE PlacementInv'
  BY <1>35 DEF EndDrop
<1>36. ASSUME NEW d \in Drops, DropHangup(d) PROVE PlacementInv'
  BY <1>36 DEF DropHangup
<1>37. CASE UNCHANGED vars
  BY <1>37 DEF vars
<1> QED
  BY <1>1, <1>2, <1>3, <1>4, <1>5, <1>6, <1>7, <1>8, <1>9, <1>10, <1>11,
     <1>12, <1>13, <1>14, <1>15, <1>16, <1>17, <1>18, <1>19, <1>20, <1>21,
     <1>22, <1>23, <1>24, <1>25, <1>26, <1>27, <1>28, <1>29, <1>30, <1>31,
     <1>32, <1>33, <1>34, <1>35, <1>36, <1>37 DEF Next, NodeStep, CreateStep,
     MaterializeStep, QueryStep, QueryServe, DropStep, DropServe

\* ensure_pond on a pond's owner keeps every directory and strays nowhere.
LEMMA EnsureGrows ==
  ASSUME TypeOK, NoStrayPond, UNCHANGED <<owner, open>>,
         NEW p \in Ponds, NEW n \in Nodes, owner[p] = n,
         disk' = [disk EXCEPT ![n] = @ \cup {p}]
  PROVE  /\ NoStrayPond'
         /\ \A m \in Nodes : disk[m] \subseteq disk'[m]
         /\ p \in disk'[n]
<1>1. \A m \in Nodes : disk'[m] = IF m = n THEN disk[m] \cup {p} ELSE disk[m]
  BY DEF TypeOK
<1> QED
  BY <1>1 DEF NoStrayPond

\* storage.drop_pond takes away no directory but the dropped pond's.
LEMMA DeleteShrinks ==
  ASSUME TypeOK, NoStrayPond, UNCHANGED <<owner, open>>,
         NEW p \in Ponds, NEW n \in Nodes,
         disk' \in {disk, [disk EXCEPT ![n] = @ \ {p}]}
  PROVE  /\ NoStrayPond'
         /\ \A m \in Nodes : \A r \in Ponds \ {p} : r \in disk[m] => r \in disk'[m]
<1>1. \A m \in Nodes : disk'[m] \in {disk[m], disk[m] \ {p}}
  BY DEF TypeOK
<1> QED
  BY <1>1 DEF NoStrayPond

\* A directory is made only on the pond's owner, and removed only without a row.
LEMMA StorageStep == TypeOK /\ PlacementInv /\ StorageInv /\ [Next]_vars => StorageInv'
<1> SUFFICES ASSUME TypeOK, PlacementInv, StorageInv, [Next]_vars PROVE StorageInv'
  OBVIOUS
<1> USE LifecycleAssumption
    DEF TypeOK, PlacementInv, StorageInv, NoStrayPond, CreateStates, MaterializeStates,
        QueryStates, QueryBusy, DropStates, DropBusy, registryVars, nodeVars,
        createVars, localVars, queryVars, dropVars
<1>1. ASSUME NEW n \in Nodes, RegisterNode(n) PROVE StorageInv'
  BY <1>1 DEF RegisterNode
<1>2. ASSUME NEW n \in Nodes, Heartbeat(n) PROVE StorageInv'
  BY <1>2 DEF Heartbeat
<1>3. ASSUME NEW n \in Nodes, HeartbeatLapses(n) PROVE StorageInv'
  BY <1>3 DEF HeartbeatLapses
<1>4. ASSUME NEW n \in Nodes, Crash(n) PROVE StorageInv'
  BY <1>4 DEF Crash
<1>5. ASSUME ReapStaleNodes PROVE StorageInv'
  BY <1>5 DEF ReapStaleNodes
<1>6. ASSUME NEW p \in Ponds, CreatePond(p) PROVE StorageInv'
  BY <1>6 DEF CreatePond
<1>7. ASSUME NEW p \in Ponds, CallMaterialize(p) PROVE StorageInv'
  BY <1>7 DEF CallMaterialize
<1>8. ASSUME NEW p \in Ponds, MaterializeAnswered(p) PROVE StorageInv'
  BY <1>8 DEF MaterializeAnswered
<1>9. ASSUME NEW p \in Ponds, MaterializeTimesOut(p) PROVE StorageInv'
  BY <1>9 DEF MaterializeTimesOut
<1>10. ASSUME NEW p \in Ponds, Compensate(p) PROVE StorageInv'
  BY <1>10 DEF Compensate
<1>11. ASSUME NEW p \in Ponds, CreateHangup(p) PROVE StorageInv'
  BY <1>11 DEF CreateHangup
<1>12. ASSUME NEW p \in Ponds, MaterializeResolve(p) PROVE StorageInv'
  BY <1>12 DEF MaterializeResolve
<1>13. ASSUME NEW p \in Ponds, MaterializeEnsure(p) PROVE StorageInv'
  <2>1. owner[p] \in Nodes
    BY <1>13 DEF MaterializeEnsure
  <2>2. CASE mpc'[p] = "error"
    BY <1>13, <2>2 DEF MaterializeEnsure
  <2>3. CASE disk' = [disk EXCEPT ![owner[p]] = @ \cup {p}]
    <3>1. /\ NoStrayPond'
          /\ \A m \in Nodes : disk[m] \subseteq disk'[m]
          /\ p \in disk'[owner[p]]
      BY <1>13, <2>1, <2>3, EnsureGrows DEF MaterializeEnsure
    <3> HIDE DEF NoStrayPond
    <3> QED
      BY <1>13, <2>1, <3>1 DEF MaterializeEnsure
  <2> QED
    BY <1>13, <2>2, <2>3 DEF MaterializeEnsure
<1>14. ASSUME NEW p \in Ponds, MaterializeInit(p) PROVE StorageInv'
  BY <1>14 DEF MaterializeInit, EngineCanServe
<1>15. ASSUME NEW p \in Ponds, ForgetPond(p) PROVE StorageInv'
  BY <1>15 DEF ForgetPond
<1>16. ASSUME NEW q \in Queries, QueryArrives(q) PROVE StorageInv'
  BY <1>16 DEF QueryArrives
<1>17. ASSUME NEW q \in Queries, QueryRoute(q) PROVE StorageInv'
  BY <1>17 DEF QueryRoute, IsLocal
<1>18. ASSUME NEW q \in Queries, QueryEnsure(q) PROVE StorageInv'
  <2>1. owner[qpond[q]] = qat[q]
    BY <1>18 DEF QueryEnsure
  <2>2. CASE disk' = disk
    BY <1>18, <2>2 DEF QueryEnsure
  <2>3. CASE disk' = [disk EXCEPT ![qat[q]] = @ \cup {qpond[q]}]
    <3>1. /\ NoStrayPond'
          /\ \A m \in Nodes : disk[m] \subseteq disk'[m]
      BY <1>18, <2>1, <2>3, EnsureGrows DEF QueryEnsure
    <3>2. UNCHANGED <<rows, owner, cpc, mpc>>
      BY <1>18 DEF QueryEnsure
    <3> HIDE DEF NoStrayPond
    <3> QED
      BY <3>1, <3>2
  <2> QED
    BY <1>18, <2>2, <2>3 DEF QueryEnsure
<1>19. ASSUME NEW q \in Queries, RegisterCheck(q) PROVE StorageInv'
  BY <1>19 DEF RegisterCheck
<1>20. ASSUME NEW q \in Queries, RegisterInsert(q) PROVE StorageInv'
  BY <1>20 DEF RegisterInsert
<1>21. ASSUME NEW q \in Queries, QueryOpen(q) PROVE StorageInv'
  BY <1>21 DEF QueryOpen, EngineCanServe
<1>22. ASSUME NEW q \in Queries, Abort(q) PROVE StorageInv'
  BY <1>22 DEF Abort
<1>23. ASSUME NEW q \in Queries, QueryComplete(q) PROVE StorageInv'
  BY <1>23 DEF QueryComplete
<1>24. ASSUME NEW q \in Queries, QueryHangup(q) PROVE StorageInv'
  BY <1>24 DEF QueryHangup
<1>25. ASSUME NEW q \in Queries, DetachedOpen(q) PROVE StorageInv'
  BY <1>25 DEF DetachedOpen, EngineCanServe
<1>26. ASSUME NEW q \in Queries, DetachedEnds(q) PROVE StorageInv'
  BY <1>26 DEF DetachedEnds
<1>27. ASSUME NEW d \in Drops, DropArrives(d) PROVE StorageInv'
  BY <1>27 DEF DropArrives
<1>28. ASSUME NEW d \in Drops, DropRoute(d) PROVE StorageInv'
  BY <1>28 DEF DropRoute, IsLocal
<1>29. ASSUME NEW d \in Drops, BeginDropMark(d) PROVE StorageInv'
  BY <1>29 DEF BeginDropMark, SameTarget
<1>30. ASSUME NEW d \in Drops, BeginDropCancel(d) PROVE StorageInv'
  BY <1>30 DEF BeginDropCancel, SameTarget
<1>31. ASSUME NEW d \in Drops, DropRegistry(d) PROVE StorageInv'
  BY <1>31 DEF DropRegistry
<1>32. ASSUME NEW d \in Drops, DropAbort(d) PROVE StorageInv'
  BY <1>32 DEF DropAbort
<1>33. ASSUME NEW d \in Drops, DropForget(d) PROVE StorageInv'
  BY <1>33 DEF DropForget
<1>34. ASSUME NEW d \in Drops, DropDelete(d) PROVE StorageInv'
  <2>1. dpond[d] \notin rows
    BY <1>34 DEF DropDelete
  <2>2. /\ NoStrayPond'
        /\ \A m \in Nodes : \A r \in Ponds \ {dpond[d]} : r \in disk[m] => r \in disk'[m]
    BY <1>34, DeleteShrinks DEF DropDelete
  <2>3. UNCHANGED <<rows, owner, cpc, mpc>>
    BY <1>34 DEF DropDelete
  <2> HIDE DEF NoStrayPond
  <2> QED
    BY <2>1, <2>2, <2>3
<1>35. ASSUME NEW d \in Drops, EndDrop(d) PROVE StorageInv'
  BY <1>35 DEF EndDrop
<1>36. ASSUME NEW d \in Drops, DropHangup(d) PROVE StorageInv'
  BY <1>36 DEF DropHangup
<1>37. CASE UNCHANGED vars
  BY <1>37 DEF vars
<1> QED
  BY <1>1, <1>2, <1>3, <1>4, <1>5, <1>6, <1>7, <1>8, <1>9, <1>10, <1>11,
     <1>12, <1>13, <1>14, <1>15, <1>16, <1>17, <1>18, <1>19, <1>20, <1>21,
     <1>22, <1>23, <1>24, <1>25, <1>26, <1>27, <1>28, <1>29, <1>30, <1>31,
     <1>32, <1>33, <1>34, <1>35, <1>36, <1>37 DEF Next, NodeStep, CreateStep,
     MaterializeStep, QueryStep, QueryServe, DropStep, DropServe

\* The create, ensure and delete steps keep both storage invariants.
LEMMA StorageInvariant == Spec => [](TypeOK /\ PlacementInv /\ StorageInv)
<1>1. Init => PlacementInv /\ StorageInv
  BY LifecycleAssumption DEF Init, PlacementInv, StorageInv, NoStrayPond, QueryBusy, DropBusy
<1> QED
  BY <1>1, TypeCorrect, PlacementStep, StorageStep, PTL DEF Spec

\* A pond whose create was answered with success and that is still registered
\* has its storage on its owner (create_pond_assignment, materialize_pond).
THEOREM EagerAllocationHolds == Spec => []EagerAllocation
<1>1. TypeOK /\ PlacementInv /\ StorageInv => EagerAllocation
  BY DEF StorageInv, EagerAllocation
<1> QED
  BY <1>1, StorageInvariant, PTL

\* Only the node a pond was placed on ever has its directory or an instance of
\* it (placement and route).
THEOREM NoStrayPondHolds == Spec => []NoStrayPond
<1>1. TypeOK /\ PlacementInv /\ StorageInv => NoStrayPond
  BY DEF StorageInv
<1> QED
  BY <1>1, StorageInvariant, PTL

\* The one step that takes a directory away is a drop's, after its row is gone.
DeletesUnregistered ==
  \A p \in Ponds, n \in Nodes : p \in disk[n] /\ p \notin disk'[n] => p \notin rows

\* Every step is so: a create's compensation and a crash leave directories alone.
LEMMA DeleteStep == TypeOK /\ PlacementInv /\ [Next]_vars => DeletesUnregistered
<1> SUFFICES ASSUME TypeOK, PlacementInv, [Next]_vars PROVE DeletesUnregistered
  OBVIOUS
<1> USE DEF DeletesUnregistered, localVars
<1>1. ASSUME NEW n \in Nodes, RegisterNode(n) PROVE DeletesUnregistered
  BY <1>1 DEF RegisterNode
<1>2. ASSUME NEW n \in Nodes, Heartbeat(n) PROVE DeletesUnregistered
  BY <1>2 DEF Heartbeat
<1>3. ASSUME NEW n \in Nodes, HeartbeatLapses(n) PROVE DeletesUnregistered
  BY <1>3 DEF HeartbeatLapses
<1>4. ASSUME NEW n \in Nodes, Crash(n) PROVE DeletesUnregistered
  BY <1>4 DEF Crash
<1>5. ASSUME ReapStaleNodes PROVE DeletesUnregistered
  BY <1>5 DEF ReapStaleNodes
<1>6. ASSUME NEW p \in Ponds, CreatePond(p) PROVE DeletesUnregistered
  BY <1>6 DEF CreatePond
<1>7. ASSUME NEW p \in Ponds, CallMaterialize(p) PROVE DeletesUnregistered
  BY <1>7 DEF CallMaterialize
<1>8. ASSUME NEW p \in Ponds, MaterializeAnswered(p) PROVE DeletesUnregistered
  BY <1>8 DEF MaterializeAnswered
<1>9. ASSUME NEW p \in Ponds, MaterializeTimesOut(p) PROVE DeletesUnregistered
  BY <1>9 DEF MaterializeTimesOut
<1>10. ASSUME NEW p \in Ponds, Compensate(p) PROVE DeletesUnregistered
  BY <1>10 DEF Compensate
<1>11. ASSUME NEW p \in Ponds, CreateHangup(p) PROVE DeletesUnregistered
  BY <1>11 DEF CreateHangup
<1>12. ASSUME NEW p \in Ponds, MaterializeResolve(p) PROVE DeletesUnregistered
  BY <1>12 DEF MaterializeResolve
<1>13. ASSUME NEW p \in Ponds, MaterializeEnsure(p) PROVE DeletesUnregistered
  <2>1. \A n \in Nodes : disk[n] \subseteq disk'[n]
    BY <1>13 DEF MaterializeEnsure, TypeOK
  <2> QED
    BY <2>1
<1>14. ASSUME NEW p \in Ponds, MaterializeInit(p) PROVE DeletesUnregistered
  BY <1>14 DEF MaterializeInit, EngineCanServe
<1>15. ASSUME NEW p \in Ponds, ForgetPond(p) PROVE DeletesUnregistered
  BY <1>15 DEF ForgetPond
<1>16. ASSUME NEW q \in Queries, QueryArrives(q) PROVE DeletesUnregistered
  BY <1>16 DEF QueryArrives
<1>17. ASSUME NEW q \in Queries, QueryRoute(q) PROVE DeletesUnregistered
  BY <1>17 DEF QueryRoute, IsLocal
<1>18. ASSUME NEW q \in Queries, QueryEnsure(q) PROVE DeletesUnregistered
  <2>1. \A n \in Nodes : disk[n] \subseteq disk'[n]
    BY <1>18 DEF QueryEnsure, TypeOK
  <2> QED
    BY <2>1
<1>19. ASSUME NEW q \in Queries, RegisterCheck(q) PROVE DeletesUnregistered
  BY <1>19 DEF RegisterCheck
<1>20. ASSUME NEW q \in Queries, RegisterInsert(q) PROVE DeletesUnregistered
  BY <1>20 DEF RegisterInsert
<1>21. ASSUME NEW q \in Queries, QueryOpen(q) PROVE DeletesUnregistered
  BY <1>21 DEF QueryOpen, EngineCanServe
<1>22. ASSUME NEW q \in Queries, Abort(q) PROVE DeletesUnregistered
  BY <1>22 DEF Abort
<1>23. ASSUME NEW q \in Queries, QueryComplete(q) PROVE DeletesUnregistered
  BY <1>23 DEF QueryComplete
<1>24. ASSUME NEW q \in Queries, QueryHangup(q) PROVE DeletesUnregistered
  BY <1>24 DEF QueryHangup
<1>25. ASSUME NEW q \in Queries, DetachedOpen(q) PROVE DeletesUnregistered
  BY <1>25 DEF DetachedOpen, EngineCanServe
<1>26. ASSUME NEW q \in Queries, DetachedEnds(q) PROVE DeletesUnregistered
  BY <1>26 DEF DetachedEnds
<1>27. ASSUME NEW d \in Drops, DropArrives(d) PROVE DeletesUnregistered
  BY <1>27 DEF DropArrives
<1>28. ASSUME NEW d \in Drops, DropRoute(d) PROVE DeletesUnregistered
  BY <1>28 DEF DropRoute, IsLocal
<1>29. ASSUME NEW d \in Drops, BeginDropMark(d) PROVE DeletesUnregistered
  BY <1>29 DEF BeginDropMark, SameTarget
<1>30. ASSUME NEW d \in Drops, BeginDropCancel(d) PROVE DeletesUnregistered
  BY <1>30 DEF BeginDropCancel, SameTarget
<1>31. ASSUME NEW d \in Drops, DropRegistry(d) PROVE DeletesUnregistered
  BY <1>31 DEF DropRegistry
<1>32. ASSUME NEW d \in Drops, DropAbort(d) PROVE DeletesUnregistered
  BY <1>32 DEF DropAbort
<1>33. ASSUME NEW d \in Drops, DropForget(d) PROVE DeletesUnregistered
  BY <1>33 DEF DropForget
<1>34. ASSUME NEW d \in Drops, DropDelete(d) PROVE DeletesUnregistered
  <2>1. dpond[d] \notin rows
    BY <1>34 DEF DropDelete, PlacementInv
  <2>2. \A n \in Nodes : disk'[n] \in {disk[n], disk[n] \ {dpond[d]}}
    BY <1>34 DEF DropDelete, TypeOK
  <2> QED
    BY <2>1, <2>2
<1>35. ASSUME NEW d \in Drops, EndDrop(d) PROVE DeletesUnregistered
  BY <1>35 DEF EndDrop
<1>36. ASSUME NEW d \in Drops, DropHangup(d) PROVE DeletesUnregistered
  BY <1>36 DEF DropHangup
<1>37. CASE UNCHANGED vars
  BY <1>37 DEF vars
<1> QED
  BY <1>1, <1>2, <1>3, <1>4, <1>5, <1>6, <1>7, <1>8, <1>9, <1>10, <1>11,
     <1>12, <1>13, <1>14, <1>15, <1>16, <1>17, <1>18, <1>19, <1>20, <1>21,
     <1>22, <1>23, <1>24, <1>25, <1>26, <1>27, <1>28, <1>29, <1>30, <1>31,
     <1>32, <1>33, <1>34, <1>35, <1>36, <1>37 DEF Next, NodeStep, CreateStep,
     MaterializeStep, QueryStep, QueryServe, DropStep, DropServe

\* No behaviour deletes the files of a registered pond (drop_pond's order:
\* registry row first, then the files).
THEOREM DeletesOnlyUnregisteredHolds == Spec => DeletesOnlyUnregistered
<1>1. TypeOK /\ PlacementInv /\ StorageInv /\ [Next]_vars => [DeletesUnregistered]_vars
  BY DeleteStep
<1>2. DeletesOnlyUnregistered <=> [][DeletesUnregistered]_vars
  BY DEF DeletesOnlyUnregistered, DeletesUnregistered
<1> QED
  BY <1>1, <1>2, StorageInvariant, PTL DEF Spec

-----------------------------------------------------------------------------
(* Drop against query. *)

\* The states of a drop that has not reached begin_drop.
Early == {"idle", "resolve", "refused", "mark"}

\* A drop never returns to the states before begin_drop and never changes its
\* pond, so a drop that is the sole one of its pond was so before.
LEMMA SoleDropBefore ==
  TypeOK /\ [Next]_vars => \A d \in Drops : SoleDrop(d)' => SoleDrop(d)
<1> DEFINE Onward == /\ dpond' = dpond
                    /\ \A e \in Drops : dpc'[e] \in Early => dpc[e] \in Early
<1> SUFFICES ASSUME TypeOK, [Next]_vars PROVE Onward
  BY DEF SoleDrop, Early
<1> USE DEF Early, dropVars
<1>1. ASSUME NEW n \in Nodes, RegisterNode(n) PROVE Onward
  BY <1>1 DEF RegisterNode
<1>2. ASSUME NEW n \in Nodes, Heartbeat(n) PROVE Onward
  BY <1>2 DEF Heartbeat
<1>3. ASSUME NEW n \in Nodes, HeartbeatLapses(n) PROVE Onward
  BY <1>3 DEF HeartbeatLapses
<1>4. ASSUME NEW n \in Nodes, Crash(n) PROVE Onward
  BY <1>4 DEF Crash, TypeOK, DropBusy
<1>5. ASSUME ReapStaleNodes PROVE Onward
  BY <1>5 DEF ReapStaleNodes
<1>6. ASSUME NEW p \in Ponds, CreatePond(p) PROVE Onward
  BY <1>6 DEF CreatePond
<1>7. ASSUME NEW p \in Ponds, CallMaterialize(p) PROVE Onward
  BY <1>7 DEF CallMaterialize
<1>8. ASSUME NEW p \in Ponds, MaterializeAnswered(p) PROVE Onward
  BY <1>8 DEF MaterializeAnswered
<1>9. ASSUME NEW p \in Ponds, MaterializeTimesOut(p) PROVE Onward
  BY <1>9 DEF MaterializeTimesOut
<1>10. ASSUME NEW p \in Ponds, Compensate(p) PROVE Onward
  BY <1>10 DEF Compensate
<1>11. ASSUME NEW p \in Ponds, CreateHangup(p) PROVE Onward
  BY <1>11 DEF CreateHangup
<1>12. ASSUME NEW p \in Ponds, MaterializeResolve(p) PROVE Onward
  BY <1>12 DEF MaterializeResolve
<1>13. ASSUME NEW p \in Ponds, MaterializeEnsure(p) PROVE Onward
  BY <1>13 DEF MaterializeEnsure
<1>14. ASSUME NEW p \in Ponds, MaterializeInit(p) PROVE Onward
  BY <1>14 DEF MaterializeInit, EngineCanServe
<1>15. ASSUME NEW p \in Ponds, ForgetPond(p) PROVE Onward
  BY <1>15 DEF ForgetPond
<1>16. ASSUME NEW q \in Queries, QueryArrives(q) PROVE Onward
  BY <1>16 DEF QueryArrives
<1>17. ASSUME NEW q \in Queries, QueryRoute(q) PROVE Onward
  BY <1>17 DEF QueryRoute, IsLocal
<1>18. ASSUME NEW q \in Queries, QueryEnsure(q) PROVE Onward
  BY <1>18 DEF QueryEnsure
<1>19. ASSUME NEW q \in Queries, RegisterCheck(q) PROVE Onward
  BY <1>19 DEF RegisterCheck
<1>20. ASSUME NEW q \in Queries, RegisterInsert(q) PROVE Onward
  BY <1>20 DEF RegisterInsert
<1>21. ASSUME NEW q \in Queries, QueryOpen(q) PROVE Onward
  BY <1>21 DEF QueryOpen, EngineCanServe
<1>22. ASSUME NEW q \in Queries, Abort(q) PROVE Onward
  BY <1>22 DEF Abort
<1>23. ASSUME NEW q \in Queries, QueryComplete(q) PROVE Onward
  BY <1>23 DEF QueryComplete
<1>24. ASSUME NEW q \in Queries, QueryHangup(q) PROVE Onward
  BY <1>24 DEF QueryHangup
<1>25. ASSUME NEW q \in Queries, DetachedOpen(q) PROVE Onward
  BY <1>25 DEF DetachedOpen, EngineCanServe
<1>26. ASSUME NEW q \in Queries, DetachedEnds(q) PROVE Onward
  BY <1>26 DEF DetachedEnds
<1>27. ASSUME NEW d \in Drops, DropArrives(d) PROVE Onward
  BY <1>27 DEF DropArrives, TypeOK
<1>28. ASSUME NEW d \in Drops, DropRoute(d) PROVE Onward
  BY <1>28 DEF DropRoute, TypeOK, IsLocal
<1>29. ASSUME NEW d \in Drops, BeginDropMark(d) PROVE Onward
  BY <1>29 DEF BeginDropMark, TypeOK
<1>30. ASSUME NEW d \in Drops, BeginDropCancel(d) PROVE Onward
  BY <1>30 DEF BeginDropCancel, TypeOK
<1>31. ASSUME NEW d \in Drops, DropRegistry(d) PROVE Onward
  BY <1>31 DEF DropRegistry, TypeOK
<1>32. ASSUME NEW d \in Drops, DropAbort(d) PROVE Onward
  BY <1>32 DEF DropAbort, TypeOK
<1>33. ASSUME NEW d \in Drops, DropForget(d) PROVE Onward
  BY <1>33 DEF DropForget, TypeOK
<1>34. ASSUME NEW d \in Drops, DropDelete(d) PROVE Onward
  BY <1>34 DEF DropDelete, TypeOK
<1>35. ASSUME NEW d \in Drops, EndDrop(d) PROVE Onward
  BY <1>35 DEF EndDrop, TypeOK
<1>36. ASSUME NEW d \in Drops, DropHangup(d) PROVE Onward
  BY <1>36 DEF DropHangup, TypeOK
<1>37. CASE UNCHANGED vars
  BY <1>37 DEF vars
<1> QED
  BY <1>1, <1>2, <1>3, <1>4, <1>5, <1>6, <1>7, <1>8, <1>9, <1>10, <1>11,
     <1>12, <1>13, <1>14, <1>15, <1>16, <1>17, <1>18, <1>19, <1>20, <1>21,
     <1>22, <1>23, <1>24, <1>25, <1>26, <1>27, <1>28, <1>29, <1>30, <1>31,
     <1>32, <1>33, <1>34, <1>35, <1>36, <1>37 DEF Next, NodeStep, CreateStep,
     MaterializeStep, QueryStep, QueryServe, DropStep, DropServe

\* Registration, tombstone and cancellation keep WindowInv.
LEMMA WindowStep == TypeOK /\ WindowInv /\ [Next]_vars => WindowInv'
<1> SUFFICES ASSUME TypeOK, WindowInv, [Next]_vars PROVE WindowInv'
  OBVIOUS
<1>0. \A d \in Drops : SoleDrop(d)' => SoleDrop(d)
  BY SoleDropBefore
<1> USE <1>0 DEF TypeOK, WindowInv, OnlyRegisterWindowEscapes, SameTarget, Tombstoned,
        OnEngine, QueryBusy, DropBusy, localVars, queryVars, dropVars
<1>1. ASSUME NEW n \in Nodes, RegisterNode(n) PROVE WindowInv'
  BY <1>1 DEF RegisterNode
<1>2. ASSUME NEW n \in Nodes, Heartbeat(n) PROVE WindowInv'
  BY <1>2 DEF Heartbeat
<1>3. ASSUME NEW n \in Nodes, HeartbeatLapses(n) PROVE WindowInv'
  BY <1>3 DEF HeartbeatLapses
<1>4. ASSUME NEW n \in Nodes, Crash(n) PROVE WindowInv'
  BY <1>4 DEF Crash
<1>5. ASSUME ReapStaleNodes PROVE WindowInv'
  BY <1>5 DEF ReapStaleNodes
<1>6. ASSUME NEW p \in Ponds, CreatePond(p) PROVE WindowInv'
  BY <1>6 DEF CreatePond
<1>7. ASSUME NEW p \in Ponds, CallMaterialize(p) PROVE WindowInv'
  BY <1>7 DEF CallMaterialize
<1>8. ASSUME NEW p \in Ponds, MaterializeAnswered(p) PROVE WindowInv'
  BY <1>8 DEF MaterializeAnswered
<1>9. ASSUME NEW p \in Ponds, MaterializeTimesOut(p) PROVE WindowInv'
  BY <1>9 DEF MaterializeTimesOut
<1>10. ASSUME NEW p \in Ponds, Compensate(p) PROVE WindowInv'
  BY <1>10 DEF Compensate
<1>11. ASSUME NEW p \in Ponds, CreateHangup(p) PROVE WindowInv'
  BY <1>11 DEF CreateHangup
<1>12. ASSUME NEW p \in Ponds, MaterializeResolve(p) PROVE WindowInv'
  BY <1>12 DEF MaterializeResolve
<1>13. ASSUME NEW p \in Ponds, MaterializeEnsure(p) PROVE WindowInv'
  BY <1>13 DEF MaterializeEnsure
<1>14. ASSUME NEW p \in Ponds, MaterializeInit(p) PROVE WindowInv'
  BY <1>14 DEF MaterializeInit, EngineCanServe
<1>15. ASSUME NEW p \in Ponds, ForgetPond(p) PROVE WindowInv'
  BY <1>15 DEF ForgetPond
<1>16. ASSUME NEW q \in Queries, QueryArrives(q) PROVE WindowInv'
  BY <1>16 DEF QueryArrives
<1>17. ASSUME NEW q \in Queries, QueryRoute(q) PROVE WindowInv'
  BY <1>17 DEF QueryRoute, IsLocal
<1>18. ASSUME NEW q \in Queries, QueryEnsure(q) PROVE WindowInv'
  BY <1>18 DEF QueryEnsure
<1>19. ASSUME NEW q \in Queries, RegisterCheck(q) PROVE WindowInv'
  BY <1>19 DEF RegisterCheck
<1>20. ASSUME NEW q \in Queries, RegisterInsert(q) PROVE WindowInv'
  BY <1>20 DEF RegisterInsert
<1>21. ASSUME NEW q \in Queries, QueryOpen(q) PROVE WindowInv'
  BY <1>21 DEF QueryOpen, EngineCanServe
<1>22. ASSUME NEW q \in Queries, Abort(q) PROVE WindowInv'
  BY <1>22 DEF Abort
<1>23. ASSUME NEW q \in Queries, QueryComplete(q) PROVE WindowInv'
  BY <1>23 DEF QueryComplete
<1>24. ASSUME NEW q \in Queries, QueryHangup(q) PROVE WindowInv'
  BY <1>24 DEF QueryHangup
<1>25. ASSUME NEW q \in Queries, DetachedOpen(q) PROVE WindowInv'
  BY <1>25 DEF DetachedOpen, EngineCanServe
<1>26. ASSUME NEW q \in Queries, DetachedEnds(q) PROVE WindowInv'
  BY <1>26 DEF DetachedEnds
<1>27. ASSUME NEW d \in Drops, DropArrives(d) PROVE WindowInv'
  BY <1>27 DEF DropArrives
<1>28. ASSUME NEW d \in Drops, DropRoute(d) PROVE WindowInv'
  BY <1>28 DEF DropRoute, IsLocal
<1>29. ASSUME NEW d \in Drops, BeginDropMark(d) PROVE WindowInv'
  BY <1>29 DEF BeginDropMark, SameTarget
<1>30. ASSUME NEW d \in Drops, BeginDropCancel(d) PROVE WindowInv'
  BY <1>30 DEF BeginDropCancel, SameTarget
<1>31. ASSUME NEW d \in Drops, DropRegistry(d) PROVE WindowInv'
  BY <1>31 DEF DropRegistry
<1>32. ASSUME NEW d \in Drops, DropAbort(d) PROVE WindowInv'
  <2>1. \A e \in Drops : SoleDrop(e) /\ dpond[e] = dpond[d] => e = d
    BY <1>32 DEF DropAbort, SoleDrop
  <2>2. \A e \in Drops : dpc'[e] \in Tombstoned \cup {"cancel"} => e # d /\ dpc'[e] = dpc[e]
    BY <1>32 DEF DropAbort
  <2>3. \A n \in Nodes : dropping[n] \ {dpond[d]} \subseteq dropping'[n]
    BY <1>32 DEF DropAbort
  <2> QED
    BY <1>32, <2>1, <2>2, <2>3 DEF DropAbort
<1>33. ASSUME NEW d \in Drops, DropForget(d) PROVE WindowInv'
  BY <1>33 DEF DropForget
<1>34. ASSUME NEW d \in Drops, DropDelete(d) PROVE WindowInv'
  BY <1>34 DEF DropDelete
<1>35. ASSUME NEW d \in Drops, EndDrop(d) PROVE WindowInv'
  <2>1. \A e \in Drops : SoleDrop(e) /\ dpond[e] = dpond[d] => e = d
    BY <1>35 DEF EndDrop, SoleDrop
  <2>2. \A e \in Drops : dpc'[e] \in Tombstoned \cup {"cancel"} => e # d /\ dpc'[e] = dpc[e]
    BY <1>35 DEF EndDrop
  <2>3. \A n \in Nodes : dropping[n] \ {dpond[d]} \subseteq dropping'[n]
    BY <1>35 DEF EndDrop
  <2> QED
    BY <1>35, <2>1, <2>2, <2>3 DEF EndDrop
<1>36. ASSUME NEW d \in Drops, DropHangup(d) PROVE WindowInv'
  BY <1>36 DEF DropHangup
<1>37. CASE UNCHANGED vars
  BY <1>37 DEF vars
<1> QED
  BY <1>1, <1>2, <1>3, <1>4, <1>5, <1>6, <1>7, <1>8, <1>9, <1>10, <1>11,
     <1>12, <1>13, <1>14, <1>15, <1>16, <1>17, <1>18, <1>19, <1>20, <1>21,
     <1>22, <1>23, <1>24, <1>25, <1>26, <1>27, <1>28, <1>29, <1>30, <1>31,
     <1>32, <1>33, <1>34, <1>35, <1>36, <1>37 DEF Next, NodeStep, CreateStep,
     MaterializeStep, QueryStep, QueryServe, DropStep, DropServe

\* While the only drop of a pond runs, a statement on that pond's engine is
\* cancelled or was between register's two locks at begin_drop: the second lock
\* of InFlightRegistry::register is the one way to escape the tombstone.
THEOREM OnlyRegisterWindowEscapesHolds == Spec => []OnlyRegisterWindowEscapes
<1>1. Init => WindowInv
  BY DEF Init, WindowInv, OnlyRegisterWindowEscapes, Tombstoned, OnEngine
<1>2. WindowInv => OnlyRegisterWindowEscapes
  BY DEF WindowInv
<1> QED
  BY <1>1, <1>2, TypeCorrect, WindowStep, PTL DEF Spec

-----------------------------------------------------------------------------
(* The control plane's promise. *)

\* A step that changes neither what there is of pond p nor what its creator knows.
PondKept(p) == PondState(p)' = PondState(p) /\ Told(p)' = Told(p)

\* What a step may do to one pond, as PondPromise's actions say it.
PondMoves(p) ==
  \/ PondKept(p)
  \/ PondState(p) = "absent" /\ PondState(p)' = "placed" /\ Told(p)' = Told(p)
  \/ PondState(p) = "placed" /\ PondState(p)' = "ready" /\ Told(p)' = Told(p)
  \/ PondState(p) \in {"placed", "ready"} /\ PondState(p)' = "removed" /\ Told(p)' = Told(p)
  \/ /\ Told(p) = "nothing" /\ Told(p)' = "created"
     /\ PondState(p) \in {"ready", "removed"} /\ PondState(p)' = PondState(p)
  \/ /\ Told(p) = "nothing" /\ Told(p)' = "failed"
     /\ PondState(p) \in {"placed", "ready"} /\ PondState(p)' = "removed"
  \/ /\ Told(p) = "nothing" /\ Told(p)' = "orphaned"
     /\ PondState(p) # "absent" /\ PondState(p)' = PondState(p)

\* A step that moves one pond as PondPromise allows, and keeps the others, is a
\* step of PondPromise.
LEMMA OnePondMoves ==
  ASSUME NEW p \in Ponds, PondMoves(p), \A r \in Ponds \ {p} : PondKept(r)
  PROVE  [Promise!Next]_(Promise!pvars)
<1> DEFINE s == [r \in Ponds |-> PondState(r)]
           t == [r \in Ponds |-> Told(r)]
<1>1. s' = [s EXCEPT ![p] = PondState(p)'] /\ t' = [t EXCEPT ![p] = Told(p)']
  BY DEF PondKept
<1>2. PondState(p)' = PondState(p) => s' = s
  BY DEF PondKept
<1>3. Told(p)' = Told(p) => t' = t
  BY DEF PondKept
<1>4. s[p] = PondState(p) /\ t[p] = Told(p)
  OBVIOUS
<1> HIDE DEF s, t
<1>5. CASE PondKept(p)
  BY <1>2, <1>3, <1>5 DEF PondKept, Promise!pvars, s, t
<1>6. CASE PondState(p) = "absent" /\ PondState(p)' = "placed" /\ Told(p)' = Told(p)
  <2>1. s[p] = "absent" /\ s' = [s EXCEPT ![p] = "placed"] /\ t' = t
    BY <1>1, <1>3, <1>4, <1>6
  <2> QED
    BY <2>1 DEF Promise!Next, Promise!Place, s, t
<1>7. CASE PondState(p) = "placed" /\ PondState(p)' = "ready" /\ Told(p)' = Told(p)
  <2>1. s[p] = "placed" /\ s' = [s EXCEPT ![p] = "ready"] /\ t' = t
    BY <1>1, <1>3, <1>4, <1>7
  <2> QED
    BY <2>1 DEF Promise!Next, Promise!Provision, s, t
<1>8. CASE /\ PondState(p) \in {"placed", "ready"} /\ PondState(p)' = "removed"
           /\ Told(p)' = Told(p)
  <2>1. s[p] \in {"placed", "ready"} /\ s' = [s EXCEPT ![p] = "removed"] /\ t' = t
    BY <1>1, <1>3, <1>4, <1>8
  <2> QED
    BY <2>1 DEF Promise!Next, Promise!Remove, s, t
<1>9. CASE /\ Told(p) = "nothing" /\ Told(p)' = "created"
           /\ PondState(p) \in {"ready", "removed"} /\ PondState(p)' = PondState(p)
  <2>1. /\ t[p] = "nothing" /\ s[p] \in {"ready", "removed"}
        /\ t' = [t EXCEPT ![p] = "created"] /\ s' = s
    BY <1>1, <1>2, <1>4, <1>9
  <2> QED
    BY <2>1 DEF Promise!Next, Promise!AnswerCreated, s, t
<1>10. CASE /\ Told(p) = "nothing" /\ Told(p)' = "failed"
            /\ PondState(p) \in {"placed", "ready"} /\ PondState(p)' = "removed"
  <2>1. /\ t[p] = "nothing" /\ s[p] \in {"placed", "ready"}
        /\ t' = [t EXCEPT ![p] = "failed"] /\ s' = [s EXCEPT ![p] = "removed"]
    BY <1>1, <1>4, <1>10
  <2> QED
    BY <2>1 DEF Promise!Next, Promise!Withdraw, s, t
<1>11. CASE /\ Told(p) = "nothing" /\ Told(p)' = "orphaned"
            /\ PondState(p) # "absent" /\ PondState(p)' = PondState(p)
  <2>1. /\ t[p] = "nothing" /\ s[p] # "absent"
        /\ t' = [t EXCEPT ![p] = "orphaned"] /\ s' = s
    BY <1>1, <1>2, <1>4, <1>11
  <2> QED
    BY <2>1 DEF Promise!Next, Promise!AnswerOrphaned, s, t
<1> QED
  BY <1>5, <1>6, <1>7, <1>8, <1>9, <1>10, <1>11 DEF PondMoves

\* A step that keeps the ponds' rows, owners and directories, and tells no creator
\* anything, stutters in PondPromise.
LEMMA QuietStep ==
  ASSUME UNCHANGED <<rows, owner, disk>>,
         \A p \in Ponds : /\ cpc'[p] = "new" <=> cpc[p] = "new"
                          /\ \A a \in {"ok", "failed", "orphan"} : cpc'[p] = a <=> cpc[p] = a
  PROVE  [Promise!Next]_(Promise!pvars)
<1>1. \A p \in Ponds : PondState(p)' = PondState(p)
  BY DEF PondState
<1>2. \A p \in Ponds : Told(p)' = Told(p)
  BY DEF Told
<1> QED
  BY <1>1, <1>2 DEF Promise!pvars

\* A step that only takes rows away, each with its own pond's removal, is a removal.
LEMMA RemoveStep ==
  ASSUME TypeOK, PlacementInv, UNCHANGED <<owner, disk, cpc>>,
         NEW p \in Ponds, rows' \in {rows, rows \ {p}}
  PROVE  [Promise!Next]_(Promise!pvars)
<1>1. \A r \in Ponds \ {p} : PondKept(r)
  BY DEF PondKept, PondState, Told
<1>2. Told(p)' = Told(p)
  BY DEF Told
<1>3. CASE p \in rows /\ p \notin rows'
  <2>1. cpc[p] # "new"
    BY <1>3 DEF PlacementInv
  <2>2. PondState(p) \in {"placed", "ready"} /\ PondState(p)' = "removed"
    BY <1>3, <2>1 DEF PondState
  <2> QED
    BY <1>1, <1>2, <2>2, OnePondMoves DEF PondMoves
<1>4. CASE ~(p \in rows /\ p \notin rows')
  <2>1. rows' = rows
    BY <1>4
  <2> QED
    BY <2>1, QuietStep
<1> QED
  BY <1>3, <1>4

\* ensure_pond on a pond's owner provisions it, unless it is there or removed.
LEMMA EnsureStep ==
  ASSUME TypeOK, PlacementInv, UNCHANGED <<rows, owner, cpc>>,
         NEW p \in Ponds, owner[p] \in Nodes, cpc[p] # "new",
         disk' = [disk EXCEPT ![owner[p]] = @ \cup {p}]
  PROVE  [Promise!Next]_(Promise!pvars)
<1>1. \A n \in Nodes : disk'[n] = IF n = owner[p] THEN disk[n] \cup {p} ELSE disk[n]
  BY DEF TypeOK
<1>2. \A r \in rows : r \in Ponds /\ owner[r] \in Nodes
  BY DEF TypeOK, PlacementInv
<1>3. \A r \in Ponds \ {p} : PondState(r)' = PondState(r)
  BY <1>1, <1>2 DEF PondState
<1>4. \A r \in Ponds : Told(r)' = Told(r)
  BY DEF Told
<1>5. PondState(p)' = PondState(p) \/ (PondState(p) = "placed" /\ PondState(p)' = "ready")
  BY <1>1 DEF PondState
<1> QED
  BY <1>3, <1>4, <1>5, OnePondMoves DEF PondMoves, PondKept

\* Every step of the creates, queries, drops and nodes is one step of PondPromise
\* or none.
LEMMA PromiseStep ==
  TypeOK /\ PlacementInv /\ StorageInv /\ [Next]_vars => [Promise!Next]_(Promise!pvars)
<1> SUFFICES ASSUME TypeOK, PlacementInv, StorageInv, [Next]_vars
             PROVE  [Promise!Next]_(Promise!pvars)
  OBVIOUS
<1> DEFINE Goal == [Promise!Next]_(Promise!pvars)
<1> USE DEF registryVars, nodeVars, createVars, localVars, queryVars, dropVars
<1>1. ASSUME NEW p \in Ponds, CreatePond(p) PROVE Goal
  <2>1. \A r \in Ponds \ {p} : PondKept(r)
    <3> SUFFICES ASSUME NEW r \in Ponds \ {p} PROVE PondKept(r)
      OBVIOUS
    <3>1. cpc'[r] = cpc[r] /\ owner'[r] = owner[r] /\ (r \in rows' <=> r \in rows) /\ disk' = disk
      BY <1>1 DEF CreatePond, TypeOK
    <3> QED
      BY <3>1 DEF PondKept, PondState, Told
  <2>2. cpc[p] = "new" /\ cpc'[p] = "placed"
    BY <1>1 DEF CreatePond, TypeOK
  <2>3. p \in rows' /\ p \notin disk'[owner'[p]]
    <3>1. PICK n \in Nodes : owner' = [owner EXCEPT ![p] = n]
      BY <1>1 DEF CreatePond
    <3>2. owner'[p] = n /\ owner[p] = NoNode /\ NoNode # n
      BY <2>2, <3>1, LifecycleAssumption DEF TypeOK, PlacementInv
    <3>3. p \notin disk[n]
      BY <3>2 DEF StorageInv, NoStrayPond
    <3> QED
      BY <1>1, <3>2, <3>3 DEF CreatePond
  <2>4. PondState(p) = "absent" /\ PondState(p)' = "placed"
    BY <2>2, <2>3 DEF PondState, PlacementInv
  <2>5. Told(p)' = Told(p)
    BY <2>2 DEF Told
  <2> QED
    BY <2>1, <2>4, <2>5, OnePondMoves DEF PondMoves
<1>2. ASSUME NEW p \in Ponds, MaterializeAnswered(p) PROVE Goal
  <2>1. UNCHANGED <<rows, owner, disk>> /\ cpc[p] = "calling"
    BY <1>2 DEF MaterializeAnswered
  <2>2. \A r \in Ponds \ {p} : cpc'[r] = cpc[r]
    BY <1>2 DEF MaterializeAnswered, TypeOK
  <2>3. CASE mpc[p] = "done"
    <3>1. cpc'[p] = "ok"
      BY <1>2, <2>3 DEF MaterializeAnswered, TypeOK
    <3>2. \A r \in Ponds \ {p} : PondKept(r)
      BY <2>1, <2>2 DEF PondKept, PondState, Told
    <3>3. p \in rows => p \in disk[owner[p]]
      BY <2>3 DEF StorageInv
    <3>4. PondState(p) \in {"ready", "removed"} /\ PondState(p)' = PondState(p)
      BY <2>1, <3>1, <3>3 DEF PondState
    <3>5. Told(p) = "nothing" /\ Told(p)' = "created"
      BY <2>1, <3>1 DEF Told
    <3> QED
      BY <3>2, <3>4, <3>5, OnePondMoves DEF PondMoves
  <2>4. CASE mpc[p] # "done"
    <3>1. cpc'[p] = "compensate"
      BY <1>2, <2>4 DEF MaterializeAnswered, TypeOK
    <3> QED
      BY <2>1, <2>2, <3>1, QuietStep
  <2> QED
    BY <2>3, <2>4
<1>3. ASSUME NEW p \in Ponds, Compensate(p) PROVE Goal
  <2>1. UNCHANGED <<owner, disk>> /\ cpc[p] = "compensate"
    BY <1>3 DEF Compensate
  <2>2. \A r \in Ponds \ {p} : cpc'[r] = cpc[r] /\ (r \in rows' <=> r \in rows)
    BY <1>3 DEF Compensate, TypeOK
  <2>3. \A r \in Ponds \ {p} : PondKept(r)
    BY <2>1, <2>2 DEF PondKept, PondState, Told
  <2>4. CASE p \in rows /\ rows' = rows \ {p} /\ cpc' = [cpc EXCEPT ![p] = "failed"]
    <3>1. cpc'[p] = "failed"
      BY <2>4 DEF TypeOK
    <3>2. PondState(p) \in {"placed", "ready"} /\ PondState(p)' = "removed"
      BY <2>1, <2>4, <3>1 DEF PondState
    <3>3. Told(p) = "nothing" /\ Told(p)' = "failed"
      BY <2>1, <3>1 DEF Told
    <3> QED
      BY <2>3, <3>2, <3>3, OnePondMoves DEF PondMoves
  <2>5. CASE cpc' = [cpc EXCEPT ![p] = "orphan"] /\ UNCHANGED rows
    <3>1. cpc'[p] = "orphan"
      BY <2>5 DEF TypeOK
    <3>2. PondState(p) # "absent" /\ PondState(p)' = PondState(p)
      BY <2>1, <2>5, <3>1 DEF PondState
    <3>3. Told(p) = "nothing" /\ Told(p)' = "orphaned"
      BY <2>1, <3>1 DEF Told
    <3> QED
      BY <2>3, <3>2, <3>3, OnePondMoves DEF PondMoves
  <2> QED
    BY <1>3, <2>4, <2>5 DEF Compensate
<1>4. ASSUME NEW p \in Ponds, ForgetPond(p) PROVE Goal
  BY <1>4, RemoveStep DEF ForgetPond
<1>5. ASSUME NEW p \in Ponds, MaterializeEnsure(p) PROVE Goal
  <2>1. cpc[p] # "new" /\ owner[p] \in Nodes
    BY <1>5 DEF MaterializeEnsure, PlacementInv
  <2>2. CASE disk' = [disk EXCEPT ![owner[p]] = @ \cup {p}]
    BY <1>5, <2>1, <2>2, EnsureStep DEF MaterializeEnsure
  <2>3. CASE UNCHANGED disk
    BY <1>5, <2>3, QuietStep DEF MaterializeEnsure
  <2> QED
    BY <1>5, <2>2, <2>3 DEF MaterializeEnsure
<1>6. ASSUME NEW q \in Queries, QueryEnsure(q) PROVE Goal
  <2>1. /\ qpond[q] \in Ponds /\ cpc[qpond[q]] # "new"
        /\ owner[qpond[q]] = qat[q] /\ owner[qpond[q]] \in Nodes
    BY <1>6 DEF QueryEnsure, PlacementInv, TypeOK, QueryBusy
  <2>2. CASE disk' = [disk EXCEPT ![qat[q]] = @ \cup {qpond[q]}]
    BY <1>6, <2>1, <2>2, EnsureStep DEF QueryEnsure
  <2>3. CASE UNCHANGED disk
    BY <1>6, <2>3, QuietStep DEF QueryEnsure
  <2> QED
    BY <1>6, <2>2, <2>3 DEF QueryEnsure
<1>7. ASSUME NEW d \in Drops, DropRegistry(d) PROVE Goal
  <2>1. dpond[d] \in Ponds /\ rows' \in {rows, rows \ {dpond[d]}}
    BY <1>7 DEF DropRegistry, TypeOK
  <2> QED
    BY <1>7, <2>1, RemoveStep DEF DropRegistry
<1>8. ASSUME NEW d \in Drops, DropHangup(d) PROVE Goal
  <2>1. dpond[d] \in Ponds /\ rows' \in {rows, rows \ {dpond[d]}}
    BY <1>8 DEF DropHangup, TypeOK
  <2> QED
    BY <1>8, <2>1, RemoveStep DEF DropHangup
<1>9. ASSUME NEW d \in Drops, DropDelete(d) PROVE Goal
  <2>1. dpond[d] \notin rows /\ dat[d] \in Nodes
    BY <1>9 DEF DropDelete, PlacementInv, TypeOK
  <2>2. \A r \in Ponds, n \in Nodes : r # dpond[d] => (r \in disk'[n] <=> r \in disk[n])
    BY <1>9, <2>1 DEF DropDelete, TypeOK
  <2>3. UNCHANGED <<rows, owner, cpc>>
    BY <1>9 DEF DropDelete
  <2>4. \A r \in Ponds : r \in rows => (r \in disk'[owner[r]] <=> r \in disk[owner[r]])
    BY <2>1, <2>2 DEF PlacementInv
  <2>5. \A r \in Ponds : PondState(r)' = PondState(r) /\ Told(r)' = Told(r)
    BY <2>3, <2>4 DEF PondState, Told
  <2> QED
    BY <2>5 DEF Promise!pvars
<1>10. ASSUME ReapStaleNodes PROVE Goal
  BY <1>10, QuietStep DEF ReapStaleNodes
<1>11. ASSUME NEW n \in Nodes, RegisterNode(n) PROVE Goal
  BY <1>11, QuietStep DEF RegisterNode
<1>12. ASSUME NEW n \in Nodes, Heartbeat(n) PROVE Goal
  BY <1>12, QuietStep DEF Heartbeat
<1>13. ASSUME NEW n \in Nodes, HeartbeatLapses(n) PROVE Goal
  BY <1>13, QuietStep DEF HeartbeatLapses
<1>14. ASSUME NEW n \in Nodes, Crash(n) PROVE Goal
  BY <1>14, QuietStep DEF Crash
<1>15. ASSUME NEW p \in Ponds, CallMaterialize(p) PROVE Goal
  BY <1>15, QuietStep DEF CallMaterialize, TypeOK
<1>16. ASSUME NEW p \in Ponds, MaterializeTimesOut(p) PROVE Goal
  BY <1>16, QuietStep DEF MaterializeTimesOut, TypeOK
<1>17. ASSUME NEW p \in Ponds, CreateHangup(p) PROVE Goal
  BY <1>17, QuietStep DEF CreateHangup, TypeOK
<1>18. ASSUME NEW p \in Ponds, MaterializeResolve(p) PROVE Goal
  BY <1>18, QuietStep DEF MaterializeResolve
<1>19. ASSUME NEW p \in Ponds, MaterializeInit(p) PROVE Goal
  BY <1>19, QuietStep DEF MaterializeInit
<1>20. ASSUME NEW q \in Queries, QueryArrives(q) PROVE Goal
  BY <1>20, QuietStep DEF QueryArrives
<1>21. ASSUME NEW q \in Queries, QueryRoute(q) PROVE Goal
  BY <1>21, QuietStep DEF QueryRoute
<1>22. ASSUME NEW q \in Queries, RegisterCheck(q) PROVE Goal
  BY <1>22, QuietStep DEF RegisterCheck
<1>23. ASSUME NEW q \in Queries, RegisterInsert(q) PROVE Goal
  BY <1>23, QuietStep DEF RegisterInsert
<1>24. ASSUME NEW q \in Queries, QueryOpen(q) PROVE Goal
  BY <1>24, QuietStep DEF QueryOpen
<1>25. ASSUME NEW q \in Queries, Abort(q) PROVE Goal
  BY <1>25, QuietStep DEF Abort
<1>26. ASSUME NEW q \in Queries, QueryComplete(q) PROVE Goal
  BY <1>26, QuietStep DEF QueryComplete
<1>27. ASSUME NEW q \in Queries, QueryHangup(q) PROVE Goal
  BY <1>27, QuietStep DEF QueryHangup
<1>28. ASSUME NEW q \in Queries, DetachedOpen(q) PROVE Goal
  BY <1>28, QuietStep DEF DetachedOpen
<1>29. ASSUME NEW q \in Queries, DetachedEnds(q) PROVE Goal
  BY <1>29, QuietStep DEF DetachedEnds
<1>30. ASSUME NEW d \in Drops, DropArrives(d) PROVE Goal
  BY <1>30, QuietStep DEF DropArrives
<1>31. ASSUME NEW d \in Drops, DropRoute(d) PROVE Goal
  BY <1>31, QuietStep DEF DropRoute
<1>32. ASSUME NEW d \in Drops, BeginDropMark(d) PROVE Goal
  BY <1>32, QuietStep DEF BeginDropMark
<1>33. ASSUME NEW d \in Drops, BeginDropCancel(d) PROVE Goal
  BY <1>33, QuietStep DEF BeginDropCancel
<1>34. ASSUME NEW d \in Drops, DropAbort(d) PROVE Goal
  BY <1>34, QuietStep DEF DropAbort
<1>35. ASSUME NEW d \in Drops, DropForget(d) PROVE Goal
  BY <1>35, QuietStep DEF DropForget
<1>36. ASSUME NEW d \in Drops, EndDrop(d) PROVE Goal
  BY <1>36, QuietStep DEF EndDrop
<1>37. ASSUME UNCHANGED vars PROVE Goal
  BY <1>37, QuietStep DEF vars
<1> HIDE DEF Goal
<1>38. Goal
  BY <1>1, <1>2, <1>3, <1>4, <1>5, <1>6, <1>7, <1>8, <1>9, <1>10, <1>11,
     <1>12, <1>13, <1>14, <1>15, <1>16, <1>17, <1>18, <1>19, <1>20, <1>21,
     <1>22, <1>23, <1>24, <1>25, <1>26, <1>27, <1>28, <1>29, <1>30, <1>31,
     <1>32, <1>33, <1>34, <1>35, <1>36, <1>37 DEF Next, NodeStep,
     CreateStep, MaterializeStep, QueryStep, QueryServe, DropStep, DropServe
<1> QED
  BY <1>38 DEF Goal

\* The creates, lazy provisioning, drops, forgets, crashes and restarts together
\* implement PondPromise (create_pond_assignment, ensure_pond, drop_pond,
\* forget_pond): every pond is placed, provisioned and removed in that order and
\* its create is answered truthfully, at most once.
THEOREM KeepsPromiseHolds == Spec => KeepsPromise
<1>1. Init => Promise!Init
  BY DEF Init, Promise!Init, PondState, Told
<1> QED
  BY <1>1, PromiseStep, StorageInvariant, PTL DEF Spec, KeepsPromise, Promise!Spec
=============================================================================
