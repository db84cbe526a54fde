--------------------------- MODULE ClusterProofs ---------------------------
(***************************************************************************)
(* Proofs about Cluster for every extension set, every list of settings a  *)
(* node may have wrong and every bound on incarnations and faults.         *)
(*                                                                         *)
(* BootInv says what a stage of the node's start implies, CacheInv what    *)
(* the memo and the report imply of the extension cache, LoopInv how the   *)
(* heartbeat and the reaper keep the row true tick by tick, and HostInv    *)
(* what the waits of the embedded cluster have seen.                       *)
(***************************************************************************)
EXTENDS Cluster, TLAPS

RowType == [ at : Nat, state : { "active", "down" }, age : 0 .. NODE_TTL + 1 ]

Tasks == { "spawned", "serving", "flushing", "returned" }

Stages == { "off", "extensions", "verifier", "url", "sink", "joining", "joined" } \cup Tasks

NodeType == [ at : Stages, boot : Nat, bad : Settings \cup { None }, data : { "no", "bound", "taken" },
              client : { None, "open", "broken" }, refused : Nat ]

ReportType == [ at : { "no", "installing", "verifying", "done" }, failed : SUBSET (Warmable \cup { "<verify>" }) ]

TypeOK ==
  /\ mode \in { "binary", "local" }
  /\ control \in { "off", "binding", "up", "taken" }
  /\ row \in RowType \cup { None }
  /\ node \in NodeType
  /\ due \subseteq { "beat", "sweep" }
  /\ cached \subseteq Warmable
  /\ checked \in { None, "loaded", "failed" }
  /\ warmed \in ReportType
  /\ sdk \in [ at : { "idle", "control", "node", "data", "ready" }, left : 0 .. 2 ]
  /\ together \in 0 .. 2
  /\ missing \in 0 .. NODE_TTL + 1
  /\ faults \in Nat

\* Only the current incarnation that got as far as registering has put its number
\* in the row.
BootInv ==
  /\ row # None => row.at <= node.boot
  /\ row # None /\ row.at = node.boot /\ node.at # "off" => node.at \in { "joined" } \cup Tasks
  /\ node.at \in { "joined" } \cup Tasks => row # None /\ row.at = node.boot

\* A stage of the start past the check, and a memo that says so, mean the standard
\* set in the cache, in whichever processes it was put there; and a finished report
\* has named what is missing.
CacheInv ==
  /\ node.at \notin { "off", "extensions" } \/ checked = "loaded" => \A e \in Required : Loads(e)
  /\ warmed.at = "done" /\ "<verify>" \notin warmed.failed =>
       \A e \in Warmable \ warmed.failed : Loads(e)

\* The counters run only while the processes do; a row is at least as old as the
\* node has been missing; and of two beats beside the control plane the first
\* either arrives or makes the loop dial anew for the second, which arrives unless
\* the registry refuses it.
LoopInv ==
  /\ "beat" \in due => Beating
  /\ together > 0 => control = "up" /\ Beating
  /\ missing > 0 => control = "up" /\ ~ Beating
  /\ row # None => row.age >= missing
  /\ missing > NODE_TTL /\ "sweep" \notin due /\ row # None => row.state = "down"
  /\ together = 1 /\ "beat" \notin due =>
       node.client = None \/ (node.client = "open" /\ row.state = "active" /\ row.age = 0)
  /\ together = 2 /\ "beat" \in due =>
       node.client = None \/ (node.client = "open" /\ row.state = "active" /\ row.age <= 1)
  /\ together = 2 /\ "beat" \notin due =>
       \/ node.client = "open" /\ row.state = "active" /\ row.age = 0
       \/ node.client = None /\ node.refused > 0

\* In the host there is a node only between a start's first wait and its drop,
\* a cluster past its second wait has its control plane, and while the node's
\* tasks run the row is no older than the beats that were refused.
HostInv ==
  /\ mode = "binary" => sdk.at = "idle"
  /\ node.at = "flushing" => mode = "binary"
  /\ node.data # "no" => Beating
  /\ sdk.at = "ready" => node.data # "no"
  /\ mode = "local" =>
       /\ sdk.at \in { "idle", "control" } => node.at = "off"
       /\ sdk.at = "idle" => control = "off"
       /\ node.client # "broken"
       /\ node.at # "off" => control \in { "up", "taken" }
       /\ node.at \in { "joined" } \cup Tasks =>
            /\ control = "up" /\ row # None
            /\ node.refused < NODE_TTL => row.state = "active"
            /\ row.age <= node.refused + 1
            /\ "beat" \notin due => row.age <= node.refused

-----------------------------------------------------------------------------
(* Records. *)

\* What the assumption says of None and of the bounds.
LEMMA Apart ==
  /\ Settings \subseteq { "auth", "public_url", "backend_url" }
  /\ MaxBoots \in Nat /\ MaxFaults \in Nat
  /\ None \notin [ at : Nat, state : { "active", "down" }, age : Nat ]
  /\ None \notin { "auth", "public_url", "backend_url", "loaded", "failed", "open", "broken" }
BY ClusterAssumption

\* A new incarnation of the node.
LEMMA BeginDoes ==
  ASSUME TypeOK, NEW bad \in Settings \cup { None }, Begin(bad)
  PROVE  /\ node' \in NodeType /\ node'.at = "extensions" /\ node'.bad = bad
         /\ node'.boot = node.boot + 1 /\ node'.data = "no" /\ node'.client = None /\ node'.refused = 0
<1>1. PICK b \in Nat : b = node.boot + 1
  BY DEF TypeOK, NodeType
<1>2. node' = [ at |-> "extensions", boot |-> b, bad |-> bad, data |-> "no", client |-> None,
              refused |-> 0 ]
  BY <1>1 DEF Begin, Off
<1> QED
  BY <1>1, <1>2 DEF NodeType, Stages

\* A node's process, or its host's, is gone.
LEMMA OffDoes ==
  ASSUME TypeOK, node' = Off(node.boot)
  PROVE  /\ node' \in NodeType /\ node'.at = "off" /\ node'.boot = node.boot /\ node'.bad = None
         /\ node'.data = "no" /\ node'.client = None /\ node'.refused = 0
BY DEF TypeOK, NodeType, Off, Stages

\* A heartbeat makes the row active and young, and changes nothing else of it.
LEMMA HeartbeatDoes ==
  ASSUME TypeOK, row # None, heartbeat
  PROVE  row' \in RowType /\ row'.at = row.at /\ row'.state = "active" /\ row'.age = 0
<1>1. row \in RowType /\ 0 \in 0 .. NODE_TTL + 1
  BY DEF TypeOK, NODE_TTL
<1> QED
  BY <1>1 DEF RowType, heartbeat

\* A tick ages the row, to the reaper's limit and no further.
LEMMA AgeDoes ==
  ASSUME TypeOK, Tick, row # None
  PROVE  /\ row' \in RowType /\ row'.at = row.at /\ row'.state = row.state
         /\ row'.age = Least(row.age + 1, NODE_TTL + 1)
<1>1. PICK a \in 0 .. NODE_TTL + 1 : a = Least(row.age + 1, NODE_TTL + 1)
  BY DEF TypeOK, RowType, Least, NODE_TTL
<1>2. row' = [ row EXCEPT !.age = a ]
  BY <1>1 DEF Tick, TypeOK, RowType
<1> QED
  BY <1>1, <1>2 DEF TypeOK, RowType

\* The reaper downs an active row past its limit.
LEMMA ReapDoes ==
  ASSUME TypeOK, reap_stale_nodes
  PROVE  /\ row = None => row' = None
         /\ row # None => /\ row' \in RowType /\ row'.at = row.at /\ row'.age = row.age
                          /\ row'.state = IF row.age > NODE_TTL THEN "down" ELSE row.state
<1>1. CASE row # None /\ row.state = "active" /\ row.age > NODE_TTL
  BY <1>1 DEF TypeOK, RowType, reap_stale_nodes
<1>2. CASE ~ (row # None /\ row.state = "active" /\ row.age > NODE_TTL)
  BY <1>2 DEF TypeOK, RowType, reap_stale_nodes
<1> QED
  BY <1>1, <1>2

\* A beat is taken, refused by the registry, or lost with the channel; the client is
\* kept in the first case only.
LEMMA BeatDoes ==
  ASSUME TypeOK, Beat
  PROVE  /\ Beating /\ due' = due \ { "beat" } /\ "beat" \in due
         /\ node' \in NodeType /\ node'.at = node.at /\ node'.boot = node.boot /\ node'.data = node.data
         /\ UNCHANGED << mode, control, cached, checked, warmed, sdk, together, missing >>
         /\ faults' \in Nat
         /\ \/ heartbeat /\ control = "up" /\ node'.client = "open" /\ node'.refused = 0
            \/ row' = row /\ control = "up" /\ node'.client = None /\ node'.refused = node.refused + 1
            \/ /\ row' = row /\ node'.client = None /\ node'.refused = node.refused
               /\ node.client = "broken" \/ control # "up"
<1>1. /\ Beating /\ due' = due \ { "beat" } /\ "beat" \in due
      /\ UNCHANGED << mode, control, cached, checked, warmed, sdk, together, missing >>
  BY DEF Beat
<1>2. faults' \in Nat
  BY DEF Beat, Fault, TypeOK
<1> DEFINE Took == heartbeat /\ control = "up" /\ node' = [ node EXCEPT !.client = "open", !.refused = 0 ]
           Not  == row' = row /\ control = "up" /\ node' = [ node EXCEPT !.client = None, !.refused = @ + 1 ]
           Lost == row' = row /\ (Dialled = "broken" \/ control # "up") /\ node' = [ node EXCEPT !.client = None ]
<1>3. Took \/ Not \/ Lost
  BY DEF Beat
<1>4. CASE Took
  BY <1>1, <1>2, <1>4 DEF TypeOK, NodeType
<1>5. CASE Not
  <2>1. PICK k \in Nat : k = node.refused + 1
    BY DEF TypeOK, NodeType
  <2>2. node' = [ node EXCEPT !.client = None, !.refused = k ]
    BY <1>5, <2>1
  <2>3. node' \in NodeType /\ node'.at = node.at /\ node'.boot = node.boot /\ node'.data = node.data
        /\ node'.client = None /\ node'.refused = k
    BY <2>2 DEF TypeOK, NodeType
  <2> QED
    BY <1>1, <1>2, <1>5, <2>1, <2>3
<1>6. CASE Lost
  BY <1>1, <1>2, <1>6 DEF TypeOK, NodeType, Dialled
<1> QED
  BY <1>3, <1>4, <1>5, <1>6

-----------------------------------------------------------------------------
(* Type correctness, which needs that a beating node has a row. *)

\* Every step keeps the types of the variables.
LEMMA TypeStep == TypeOK /\ BootInv /\ [Next]_vars => TypeOK'
<1> SUFFICES ASSUME TypeOK, BootInv, [Next]_vars PROVE TypeOK'
  OBVIOUS
<1> USE Apart DEF TypeOK, BootInv, NodeType, RowType, ReportType, NoReport, Stages, Tasks, Beating, NODE_TTL
<1>1. ASSUME run_serve PROVE TypeOK'
  BY <1>1 DEF run_serve
<1>2. ASSUME serve_control_plane PROVE TypeOK'
  <2>1. faults' \in Nat
    BY <1>2 DEF serve_control_plane, Fault
  <2>2. control' \in { "off", "binding", "up", "taken" } /\ due' \subseteq { "beat", "sweep" }
    BY <1>2 DEF serve_control_plane
  <2>3. UNCHANGED << mode, row, node, cached, checked, warmed, sdk, together, missing >>
    BY <1>2 DEF serve_control_plane
  <2> QED
    BY <2>1, <2>2, <2>3
<1>3. ASSUME spawn_node_reaper PROVE TypeOK'
  BY <1>3 DEF spawn_node_reaper, reap_stale_nodes
<1>4. ASSUME ControlPlaneDies PROVE TypeOK'
  BY <1>4 DEF ControlPlaneDies, Fault
<1>5. ASSUME run_node_add PROVE TypeOK'
  <2>1. PICK bad \in Settings \cup { None } : Begin(bad)
    BY <1>5 DEF run_node_add
  <2> QED
    BY <1>5, <2>1, BeginDoes DEF run_node_add
<1>6. ASSUME build_verifier PROVE TypeOK'
  BY <1>6 DEF build_verifier, Checks, GoesOn, Returned, Off
<1>7. ASSUME resolve_public_mcp_url PROVE TypeOK'
  BY <1>7 DEF resolve_public_mcp_url, Checks, GoesOn, Returned, Off
<1>8. ASSUME lineage_sink PROVE TypeOK'
  BY <1>8 DEF lineage_sink, Checks, GoesOn, Returned, Off
<1>9. ASSUME NEW reach \in SUBSET Warmable, NEW opens \in BOOLEAN, ensure_standard_extensions(reach, opens)
       PROVE TypeOK'
  BY <1>9 DEF ensure_standard_extensions, GoesOn, Returned, Off
<1>10. ASSUME NEW reach \in SUBSET Warmable, NEW opens \in BOOLEAN, warm_extension_cache(reach, opens)
       PROVE TypeOK'
  BY <1>10 DEF warm_extension_cache
<1>28. ASSUME NEW opens \in BOOLEAN, verify_pass(opens) PROVE TypeOK'
  BY <1>28 DEF verify_pass
<1>11. ASSUME RegisterNode PROVE TypeOK'
  BY <1>11 DEF RegisterNode, register_node, GoesOn, Returned, Off
<1>12. ASSUME build_ops PROVE TypeOK'
  BY <1>12 DEF build_ops, GoesOn, Returned, Off
<1>13. ASSUME serve_data PROVE TypeOK'
  BY <1>13 DEF serve_data, Fault
<1>14. ASSUME serve_mcp PROVE TypeOK'
  <2>1. faults' \in Nat
    BY <1>14 DEF serve_mcp, Fault, GoesOn
  <2>2. together' \in 0 .. 2 /\ missing' \in 0 .. NODE_TTL + 1 /\ due' \subseteq { "beat", "sweep" }
    BY <1>14 DEF serve_mcp, GoesOn
  <2>3. node' \in NodeType
    BY <1>14 DEF serve_mcp, GoesOn, Returned, Off
  <2> QED
    BY <1>14, <2>1, <2>2, <2>3 DEF serve_mcp
<1>15. ASSUME Beat PROVE TypeOK'
  <2>1. row # None
    BY <1>15, BeatDoes
  <2>2. row' \in RowType \cup { None }
    BY <1>15, <2>1, BeatDoes, HeartbeatDoes
  <2> QED
    BY <1>15, <2>2, BeatDoes
<1>16. ASSUME shutdown_signal PROVE TypeOK'
  BY <1>16 DEF shutdown_signal
<1>17. ASSUME shutdown_lineage PROVE TypeOK'
  BY <1>17 DEF shutdown_lineage, Gone, Off
<1>18. ASSUME NodeDies PROVE TypeOK'
  BY <1>18 DEF NodeDies, Gone, Off, Fault
<1>19. ASSUME Start PROVE TypeOK'
  BY <1>19 DEF Start, Waiting
<1>20. ASSUME ControlConnectable PROVE TypeOK'
  <2>1. Begin(None) /\ sdk' = Waiting("node", 2)
    BY <1>20 DEF ControlConnectable
  <2>2. node' \in NodeType
    BY <2>1, BeginDoes
  <2>3. sdk' \in [ at : { "idle", "control", "node", "data", "ready" }, left : 0 .. 2 ]
    BY <2>1 DEF Waiting
  <2> QED
    BY <1>20, <2>2, <2>3 DEF ControlConnectable
<1>21. ASSUME wait_for_active_node PROVE TypeOK'
  BY <1>21 DEF wait_for_active_node, Waiting
<1>22. ASSUME DataConnectable PROVE TypeOK'
  BY <1>22 DEF DataConnectable, Waiting
<1>23. ASSUME GivesUp PROVE TypeOK'
  BY <1>23 DEF GivesUp, Dropped, Gone, Off, Waiting
<1>24. ASSUME Closed PROVE TypeOK'
  BY <1>24 DEF Closed, Dropped, Gone, Off, Waiting
<1>25. ASSUME HostDies PROVE TypeOK'
  BY <1>25 DEF HostDies, Dropped, Gone, Off, Waiting, Fault
<1>26. ASSUME Tick PROVE TypeOK'
  <2>1. row' \in RowType \cup { None }
    <3>1. CASE row = None
      BY <1>26, <3>1 DEF Tick
    <3>2. CASE row # None
      BY <1>26, <3>2, AgeDoes
    <3> QED
      BY <3>1, <3>2
  <2>2. sdk' \in [ at : { "idle", "control", "node", "data", "ready" }, left : 0 .. 2 ]
    BY <1>26 DEF Tick
  <2>3. together' \in 0 .. 2 /\ missing' \in 0 .. NODE_TTL + 1 /\ due' \subseteq { "beat", "sweep" }
    BY <1>26 DEF Tick, Least
  <2> QED
    BY <1>26, <2>1, <2>2, <2>3 DEF Tick
<1>27. CASE UNCHANGED vars
  BY <1>27 DEF vars
<1> HIDE DEF TypeOK, BootInv, NodeType, RowType, ReportType, NoReport, Stages, Tasks, Beating, NODE_TTL
<1> QED
  BY <1>1, <1>2, <1>3, <1>4, <1>5, <1>6, <1>7, <1>8, <1>9, <1>10, <1>11,
     <1>12, <1>13, <1>14, <1>15, <1>16, <1>17, <1>18, <1>19, <1>20, <1>21,
     <1>22, <1>23, <1>24, <1>25, <1>26, <1>27, <1>28 DEF Next

-----------------------------------------------------------------------------
(* The order of a start. *)

\* Every step keeps what the stages of a start imply.
LEMMA BootStep == TypeOK /\ BootInv /\ [Next]_vars => BootInv'
<1> SUFFICES ASSUME TypeOK, BootInv, [Next]_vars PROVE BootInv'
  OBVIOUS
<1> USE Apart DEF TypeOK, BootInv, NodeType, RowType, Stages, Tasks, Beating, NODE_TTL
<1>1. ASSUME run_serve PROVE BootInv'
  BY <1>1 DEF run_serve
<1>2. ASSUME serve_control_plane PROVE BootInv'
  BY <1>2 DEF serve_control_plane, Fault
<1>3. ASSUME spawn_node_reaper PROVE BootInv'
  <2>1. (row # None <=> row' # None) /\ (row # None => row'.at = row.at)
    BY <1>3, ReapDoes DEF spawn_node_reaper
  <2> QED
    BY <1>3, <2>1 DEF spawn_node_reaper
<1>4. ASSUME ControlPlaneDies PROVE BootInv'
  BY <1>4 DEF ControlPlaneDies, Fault
<1>5. ASSUME run_node_add PROVE BootInv'
  <2>1. PICK bad \in Settings \cup { None } : Begin(bad)
    BY <1>5 DEF run_node_add
  <2>2. node'.at = "extensions" /\ node'.boot = node.boot + 1
    BY <2>1, BeginDoes
  <2> QED
    BY <1>5, <2>2 DEF run_node_add
<1>6. ASSUME build_verifier PROVE BootInv'
  BY <1>6 DEF build_verifier, Checks, GoesOn, Returned, Off
<1>7. ASSUME resolve_public_mcp_url PROVE BootInv'
  BY <1>7 DEF resolve_public_mcp_url, Checks, GoesOn, Returned, Off
<1>8. ASSUME lineage_sink PROVE BootInv'
  BY <1>8 DEF lineage_sink, Checks, GoesOn, Returned, Off
<1>9. ASSUME NEW reach \in SUBSET Warmable, NEW opens \in BOOLEAN, ensure_standard_extensions(reach, opens)
       PROVE BootInv'
  BY <1>9 DEF ensure_standard_extensions, GoesOn, Returned, Off
<1>10. ASSUME NEW reach \in SUBSET Warmable, NEW opens \in BOOLEAN, warm_extension_cache(reach, opens)
       PROVE BootInv'
  BY <1>10 DEF warm_extension_cache
<1>28. ASSUME NEW opens \in BOOLEAN, verify_pass(opens) PROVE BootInv'
  BY <1>28 DEF verify_pass
<1>11. ASSUME RegisterNode PROVE BootInv'
  BY <1>11 DEF RegisterNode, register_node, GoesOn, Returned, Off
<1>12. ASSUME build_ops PROVE BootInv'
  BY <1>12 DEF build_ops, GoesOn, Returned, Off
<1>13. ASSUME serve_data PROVE BootInv'
  BY <1>13 DEF serve_data, Fault
<1>14. ASSUME serve_mcp PROVE BootInv'
  BY <1>14 DEF serve_mcp, Fault, GoesOn, Returned, Off
<1>15. ASSUME Beat PROVE BootInv'
  <2>1. row # None
    BY <1>15, BeatDoes
  <2>2. row' # None /\ row'.at = row.at
    BY <1>15, <2>1, BeatDoes, HeartbeatDoes
  <2> QED
    BY <1>15, <2>2, BeatDoes
<1>16. ASSUME shutdown_signal PROVE BootInv'
  BY <1>16 DEF shutdown_signal
<1>17. ASSUME shutdown_lineage PROVE BootInv'
  BY <1>17 DEF shutdown_lineage, Gone, Off
<1>18. ASSUME NodeDies PROVE BootInv'
  BY <1>18 DEF NodeDies, Gone, Off, Fault
<1>19. ASSUME Start PROVE BootInv'
  BY <1>19 DEF Start, Waiting
<1>20. ASSUME ControlConnectable PROVE BootInv'
  <2>1. node'.at = "extensions" /\ node'.boot = node.boot + 1
    BY <1>20, BeginDoes DEF ControlConnectable
  <2> QED
    BY <1>20, <2>1 DEF ControlConnectable
<1>21. ASSUME wait_for_active_node PROVE BootInv'
  BY <1>21 DEF wait_for_active_node, Waiting
<1>22. ASSUME DataConnectable PROVE BootInv'
  BY <1>22 DEF DataConnectable, Waiting
<1>23. ASSUME GivesUp PROVE BootInv'
  BY <1>23 DEF GivesUp, Dropped, Gone, Off, Waiting
<1>24. ASSUME Closed PROVE BootInv'
  BY <1>24 DEF Closed, Dropped, Gone, Off, Waiting
<1>25. ASSUME HostDies PROVE BootInv'
  BY <1>25 DEF HostDies, Dropped, Gone, Off, Waiting, Fault
<1>26. ASSUME Tick PROVE BootInv'
  <2>1. (row # None <=> row' # None) /\ (row # None => row'.at = row.at)
    <3>1. CASE row = None
      BY <1>26, <3>1 DEF Tick
    <3>2. CASE row # None
      BY <1>26, <3>2, AgeDoes
    <3> QED
      BY <3>1, <3>2
  <2> QED
    BY <1>26, <2>1 DEF Tick
<1>27. CASE UNCHANGED vars
  BY <1>27 DEF vars
<1> QED
  BY <1>1, <1>2, <1>3, <1>4, <1>5, <1>6, <1>7, <1>8, <1>9, <1>10, <1>11,
     <1>12, <1>13, <1>14, <1>15, <1>16, <1>17, <1>18, <1>19, <1>20, <1>21,
     <1>22, <1>23, <1>24, <1>25, <1>26, <1>27, <1>28 DEF Next

\* Types and the order of a start.
LEMMA BootInvariant == Spec => [](TypeOK /\ BootInv)
<1>1. Init => TypeOK /\ BootInv
  BY ClusterAssumption DEF Init, TypeOK, BootInv, NodeType, ReportType, NoReport, Stages, Tasks, Off, Waiting, NODE_TTL
<1> QED
  BY <1>1, TypeStep, BootStep, PTL DEF Spec

-----------------------------------------------------------------------------
(* The extension cache. *)

\* What a step that installs and verifies nothing leaves alone.
Rested ==
  /\ cached' = cached
  /\ checked' \in { checked, None }
  /\ node'.at \notin { "off", "extensions" } => node.at \notin { "off", "extensions" }
  /\ warmed' = warmed \/ warmed'.at # "done"

\* Only the check and the two passes of the warm touch cache, memo and report.
LEMMA OthersRest ==
  ASSUME TypeOK, [Next]_vars,
         \A reach \in SUBSET Warmable, opens \in BOOLEAN :
           /\ ~ ensure_standard_extensions(reach, opens)
           /\ ~ warm_extension_cache(reach, opens) /\ ~ verify_pass(opens)
  PROVE  Rested
<1> USE Apart DEF TypeOK, NodeType, ReportType, Stages, Tasks, Beating, Rested
<1>1. ASSUME run_serve PROVE Rested
  BY <1>1 DEF run_serve
<1>2. ASSUME serve_control_plane PROVE Rested
  BY <1>2 DEF serve_control_plane
<1>3. ASSUME spawn_node_reaper PROVE Rested
  BY <1>3 DEF spawn_node_reaper
<1>4. ASSUME ControlPlaneDies PROVE Rested
  BY <1>4 DEF ControlPlaneDies
<1>5. ASSUME run_node_add PROVE Rested
  <2>1. PICK bad \in Settings \cup { None } : Begin(bad)
    BY <1>5 DEF run_node_add
  <2>2. node'.at = "extensions"
    BY <2>1, BeginDoes
  <2> QED
    BY <1>5, <2>2 DEF run_node_add, NoReport
<1>6. ASSUME build_verifier PROVE Rested
  BY <1>6 DEF build_verifier, Checks, GoesOn, Returned, Off
<1>7. ASSUME resolve_public_mcp_url PROVE Rested
  BY <1>7 DEF resolve_public_mcp_url, Checks, GoesOn, Returned, Off
<1>8. ASSUME lineage_sink PROVE Rested
  BY <1>8 DEF lineage_sink, Checks, GoesOn, Returned, Off
<1>9. ASSUME RegisterNode PROVE Rested
  BY <1>9 DEF RegisterNode, GoesOn, Returned, Off
<1>10. ASSUME build_ops PROVE Rested
  BY <1>10 DEF build_ops, GoesOn, Returned, Off, NoReport
<1>11. ASSUME serve_data PROVE Rested
  BY <1>11 DEF serve_data
<1>12. ASSUME serve_mcp PROVE Rested
  BY <1>12 DEF serve_mcp, GoesOn, Returned, Off
<1>13. ASSUME Beat PROVE Rested
  BY <1>13 DEF Beat
<1>14. ASSUME shutdown_signal PROVE Rested
  BY <1>14 DEF shutdown_signal
<1>15. ASSUME shutdown_lineage PROVE Rested
  BY <1>15 DEF shutdown_lineage, Gone, Off
<1>16. ASSUME NodeDies PROVE Rested
  BY <1>16 DEF NodeDies, Gone, Off, NoReport
<1>17. ASSUME Start PROVE Rested
  BY <1>17 DEF Start
<1>18. ASSUME ControlConnectable PROVE Rested
  <2>1. node'.at = "extensions"
    BY <1>18, BeginDoes DEF ControlConnectable
  <2> QED
    BY <1>18, <2>1 DEF ControlConnectable, NoReport
<1>19. ASSUME wait_for_active_node PROVE Rested
  BY <1>19 DEF wait_for_active_node
<1>20. ASSUME DataConnectable PROVE Rested
  BY <1>20 DEF DataConnectable
<1>21. ASSUME GivesUp PROVE Rested
  BY <1>21 DEF GivesUp, Dropped, Gone, Off
<1>22. ASSUME Closed PROVE Rested
  BY <1>22 DEF Closed, Dropped, Gone, Off
<1>23. ASSUME HostDies PROVE Rested
  BY <1>23 DEF HostDies, Dropped, Gone, Off, NoReport
<1>24. ASSUME Tick PROVE Rested
  BY <1>24 DEF Tick
<1>25. CASE UNCHANGED vars
  BY <1>25 DEF vars
<1> QED
  BY <1>1, <1>2, <1>3, <1>4, <1>5, <1>6, <1>7, <1>8, <1>9, <1>10, <1>11,
     <1>12, <1>13, <1>14, <1>15, <1>16, <1>17, <1>18, <1>19, <1>20, <1>21,
     <1>22, <1>23, <1>24, <1>25 DEF Next

\* A check that remembers success has every standard extension in the cache: no
\* extension before it failed, so each was tried.
LEMMA CheckLoads ==
  ASSUME TypeOK, CacheInv, NEW reach \in SUBSET Warmable, NEW opens \in BOOLEAN,
         ensure_standard_extensions(reach, opens), checked' = "loaded"
  PROVE  \A e \in Required : Loads(e)'
<1> DEFINE got(i) == Closure(Standard[i]) \subseteq cached \cup reach
           tried  == { i \in DOMAIN Standard : \A j \in 1 .. i - 1 : got(j) }
<1> USE DEF ensure_standard_extensions
<1>1. CASE checked # None
  <2>1. cached' = cached /\ checked = "loaded"
    BY <1>1
  <2> QED
    BY <2>1 DEF CacheInv, Loads, Closure
<1>2. CASE checked = None
  <2>1. opens /\ \A i \in DOMAIN Standard : got(i)
    BY <1>2
  <2>2. cached' = cached \cup (reach \cap UNION { Closure(Standard[i]) : i \in tried })
    BY <1>2, <2>1
  <2>3. tried = DOMAIN Standard
    <3>1. \A i \in DOMAIN Standard : 1 .. i - 1 \subseteq DOMAIN Standard
      BY ClusterAssumption
    <3> QED
      BY <2>1, <3>1
  <2>4. ASSUME NEW e \in Required PROVE Loads(e)'
    <3>1. PICK i \in DOMAIN Standard : e = Standard[i]
      BY DEF Required
    <3>2. Closure(e) \subseteq cached \cup reach
      BY <2>1, <3>1
    <3>3. Closure(e) \subseteq UNION { Closure(Standard[k]) : k \in tried }
      BY <2>3, <3>1
    <3>4. Closure(e) \subseteq cached'
      BY <2>2, <3>2, <3>3
    <3> QED
      BY <3>4 DEF Loads, Closure
  <2> QED
    BY <2>4
<1> QED
  BY <1>1, <1>2

\* Every step keeps what the memo and the report say of the cache.
LEMMA CacheStep == TypeOK /\ CacheInv /\ [Next]_vars => CacheInv'
<1> SUFFICES ASSUME TypeOK, CacheInv, [Next]_vars PROVE CacheInv'
  OBVIOUS
<1>1. ASSUME cached \subseteq cached', NEW e \in Warmable, Loads(e) PROVE Loads(e)'
  BY <1>1 DEF Loads, Closure
<1>2. Required \subseteq Warmable
  BY ClusterAssumption DEF Required
<1>3. ASSUME NEW reach \in SUBSET Warmable, NEW opens \in BOOLEAN, ensure_standard_extensions(reach, opens)
      PROVE  CacheInv'
  <2>1. cached \subseteq cached' /\ warmed' = warmed
    BY <1>3 DEF ensure_standard_extensions
  <2>2. node'.at \notin { "off", "extensions" } => checked' = "loaded"
    <3>1. node.at = "extensions" /\ (checked' # "loaded" => node' = Returned)
      BY <1>3 DEF ensure_standard_extensions, GoesOn
    <3>2. node' = Returned => node'.at = "off"
      BY <3>1 DEF Returned, Beating, Off
    <3> QED
      BY <3>1, <3>2
  <2>3. checked' = "loaded" => \A e \in Required : Loads(e)'
    BY <1>3, CheckLoads
  <2> QED
    BY <1>1, <2>1, <2>2, <2>3 DEF CacheInv, Required
<1>4. ASSUME NEW reach \in SUBSET Warmable, NEW opens \in BOOLEAN, warm_extension_cache(reach, opens)
      PROVE  CacheInv'
  <2>1. cached \subseteq cached' /\ node' = node /\ checked' = checked
    BY <1>4 DEF warm_extension_cache
  <2>2. warmed'.at = "done" => warmed'.failed = Warmable
    BY <1>4 DEF warm_extension_cache
  <2> QED
    BY <1>1, <1>2, <2>1, <2>2 DEF CacheInv, Required
<1>5. ASSUME NEW opens \in BOOLEAN, verify_pass(opens) PROVE CacheInv'
  <2>1. cached' = cached /\ node' = node /\ checked' = checked
    BY <1>5 DEF verify_pass
  <2>2. ASSUME "<verify>" \notin warmed'.failed, NEW e \in Warmable \ warmed'.failed PROVE Loads(e)
    BY <1>5, <2>2 DEF verify_pass
  <2> QED
    BY <1>1, <1>2, <2>1, <2>2 DEF CacheInv, Required
<1>6. CASE \A reach \in SUBSET Warmable, opens \in BOOLEAN :
             /\ ~ ensure_standard_extensions(reach, opens)
             /\ ~ warm_extension_cache(reach, opens) /\ ~ verify_pass(opens)
  <2>1. Rested
    BY <1>6, OthersRest
  <2> QED
    BY <1>1, <1>2, <2>1, ClusterAssumption DEF Rested, CacheInv, Required
<1> QED
  BY <1>3, <1>4, <1>5, <1>6

\* Whatever the network failed and whatever died in between, a registered node
\* loads its standard extensions offline, and so does every extension that a warm
\* which could verify did not name (ensure_standard_extensions,
\* warm_extension_cache).
THEOREM OfflineReadyHolds == Spec => []OfflineReady
<1>1. Init => CacheInv
  BY ClusterAssumption DEF Init, CacheInv, Off, NoReport
<1>2. TypeOK /\ BootInv /\ CacheInv => OfflineReady
  BY DEF TypeOK, NodeType, BootInv, CacheInv, OfflineReady, Tasks
<1> QED
  BY <1>1, <1>2, BootInvariant, CacheStep, PTL DEF Spec

-----------------------------------------------------------------------------
(* The embedded cluster. *)

\* Every step keeps what the waits of the embedded cluster have seen.
LEMMA HostStep == TypeOK /\ BootInv /\ HostInv /\ [Next]_vars => HostInv'
<1> SUFFICES ASSUME TypeOK, BootInv, HostInv, [Next]_vars PROVE HostInv'
  OBVIOUS
<1> USE Apart DEF TypeOK, BootInv, HostInv, NodeType, RowType, Stages, Tasks, Beating, NODE_TTL
<1>1. ASSUME run_serve PROVE HostInv'
  BY <1>1 DEF run_serve
<1>2. ASSUME serve_control_plane PROVE HostInv'
  BY <1>2 DEF serve_control_plane, Fault
<1>3. ASSUME spawn_node_reaper PROVE HostInv'
  <2>1. /\ row # None <=> row' # None
        /\ row # None => /\ row'.age = row.age
                         /\ row'.state = IF row.age > NODE_TTL THEN "down" ELSE row.state
    BY <1>3, ReapDoes DEF spawn_node_reaper
  <2> QED
    BY <1>3, <2>1 DEF spawn_node_reaper
<1>4. ASSUME ControlPlaneDies PROVE HostInv'
  BY <1>4 DEF ControlPlaneDies, Fault
<1>5. ASSUME run_node_add PROVE HostInv'
  <2>1. PICK bad \in Settings \cup { None } : Begin(bad)
    BY <1>5 DEF run_node_add
  <2>2. node'.at = "extensions" /\ node'.data = "no" /\ node'.client = None
    BY <2>1, BeginDoes
  <2> QED
    BY <1>5, <2>2 DEF run_node_add
<1>6. ASSUME build_verifier PROVE HostInv'
  BY <1>6 DEF build_verifier, Checks, GoesOn, Returned, Off
<1>7. ASSUME resolve_public_mcp_url PROVE HostInv'
  BY <1>7 DEF resolve_public_mcp_url, Checks, GoesOn, Returned, Off
<1>8. ASSUME lineage_sink PROVE HostInv'
  BY <1>8 DEF lineage_sink, Checks, GoesOn, Returned, Off
<1>9. ASSUME NEW reach \in SUBSET Warmable, NEW opens \in BOOLEAN, ensure_standard_extensions(reach, opens)
       PROVE HostInv'
  BY <1>9 DEF ensure_standard_extensions, GoesOn, Returned, Off
<1>10. ASSUME NEW reach \in SUBSET Warmable, NEW opens \in BOOLEAN, warm_extension_cache(reach, opens)
       PROVE HostInv'
  BY <1>10 DEF warm_extension_cache
<1>28. ASSUME NEW opens \in BOOLEAN, verify_pass(opens) PROVE HostInv'
  BY <1>28 DEF verify_pass
<1>11. ASSUME RegisterNode PROVE HostInv'
  BY <1>11 DEF RegisterNode, register_node, GoesOn, Returned, Off
<1>12. ASSUME build_ops PROVE HostInv'
  BY <1>12 DEF build_ops, GoesOn, Returned, Off
<1>13. ASSUME serve_data PROVE HostInv'
  BY <1>13 DEF serve_data, Fault
<1>14. ASSUME serve_mcp PROVE HostInv'
  BY <1>14 DEF serve_mcp, Fault, GoesOn, Returned, Off
<1>15. ASSUME Beat PROVE HostInv'
  <2>1. row # None
    BY <1>15, BeatDoes
  <2>2. CASE heartbeat /\ node'.client = "open" /\ node'.refused = 0
    <3>1. row' # None /\ row'.state = "active" /\ row'.age = 0
      BY <2>1, <2>2, HeartbeatDoes
    <3> QED
      BY <1>15, <2>2, <3>1, BeatDoes
  <2>3. CASE row' = row /\ node'.client = None /\ node'.refused = node.refused + 1
    BY <1>15, <2>1, <2>3, BeatDoes
  <2>4. CASE /\ row' = row /\ node'.client = None /\ node'.refused = node.refused
             /\ node.client = "broken" \/ control # "up"
    BY <1>15, <2>1, <2>4, BeatDoes
  <2> QED
    BY <1>15, <2>2, <2>3, <2>4, BeatDoes
<1>16. ASSUME shutdown_signal PROVE HostInv'
  BY <1>16 DEF shutdown_signal
<1>17. ASSUME shutdown_lineage PROVE HostInv'
  BY <1>17 DEF shutdown_lineage, Gone, Off
<1>18. ASSUME NodeDies PROVE HostInv'
  BY <1>18 DEF NodeDies, Gone, Off, Fault
<1>19. ASSUME Start PROVE HostInv'
  BY <1>19 DEF Start, Waiting
<1>20. ASSUME ControlConnectable PROVE HostInv'
  <2>1. node'.at = "extensions" /\ node'.data = "no" /\ node'.client = None
    BY <1>20, BeginDoes DEF ControlConnectable, Waiting
  <2> QED
    BY <1>20, <2>1 DEF ControlConnectable, Waiting
<1>21. ASSUME wait_for_active_node PROVE HostInv'
  BY <1>21 DEF wait_for_active_node, Waiting
<1>22. ASSUME DataConnectable PROVE HostInv'
  BY <1>22 DEF DataConnectable, Waiting
<1>23. ASSUME GivesUp PROVE HostInv'
  BY <1>23 DEF GivesUp, Dropped, Gone, Off, Waiting
<1>24. ASSUME Closed PROVE HostInv'
  BY <1>24 DEF Closed, Dropped, Gone, Off, Waiting
<1>25. ASSUME HostDies PROVE HostInv'
  BY <1>25 DEF HostDies, Dropped, Gone, Off, Waiting, Fault
<1>26. ASSUME Tick PROVE HostInv'
  <2>1. /\ row # None <=> row' # None
        /\ row # None => row'.state = row.state /\ row'.age = Least(row.age + 1, NODE_TTL + 1)
    <3>1. CASE row = None
      BY <1>26, <3>1 DEF Tick
    <3>2. CASE row # None
      BY <1>26, <3>2, AgeDoes
    <3> QED
      BY <3>1, <3>2
  <2> QED
    BY <1>26, <2>1 DEF Tick, Least
<1>27. CASE UNCHANGED vars
  BY <1>27 DEF vars
<1> QED
  BY <1>1, <1>2, <1>3, <1>4, <1>5, <1>6, <1>7, <1>8, <1>9, <1>10, <1>11,
     <1>12, <1>13, <1>14, <1>15, <1>16, <1>17, <1>18, <1>19, <1>20, <1>21,
     <1>22, <1>23, <1>24, <1>25, <1>26, <1>27, <1>28 DEF Next

\* The invariants of the start and of the host.
LEMMA HostInvariant == Spec => [](TypeOK /\ BootInv /\ HostInv)
<1>1. Init => HostInv
  BY ClusterAssumption DEF Init, HostInv, Off, Waiting, Tasks, Beating
<1> QED
  BY <1>1, BootInvariant, HostStep, PTL DEF Spec

\* A cluster that Latiq::connect("local") has handed out is its own and serves
\* (LocalCluster::start), unless another process took one of its ports.
THEOREM ReadyMeansServingHolds == Spec => []ReadyMeansServing
<1>1. TypeOK /\ BootInv /\ HostInv => ReadyMeansServing
  BY DEF TypeOK, NodeType, BootInv, HostInv, ReadyMeansServing, Beating, Tasks
<1> QED
  BY <1>1, HostInvariant, PTL

-----------------------------------------------------------------------------
(* Heartbeat and reaper. *)

\* Every step keeps the row as true as the loops can make it.
LEMMA LoopStep == TypeOK /\ BootInv /\ HostInv /\ LoopInv /\ [Next]_vars => LoopInv'
<1> SUFFICES ASSUME TypeOK, BootInv, HostInv, LoopInv, [Next]_vars PROVE LoopInv'
  OBVIOUS
<1> USE Apart DEF TypeOK, BootInv, HostInv, LoopInv, NodeType, RowType, Stages, Tasks, Beating, NODE_TTL
<1>1. ASSUME run_serve PROVE LoopInv'
  BY <1>1 DEF run_serve
<1>2. ASSUME serve_control_plane PROVE LoopInv'
  BY <1>2 DEF serve_control_plane, Fault
<1>3. ASSUME spawn_node_reaper PROVE LoopInv'
  <2>1. /\ row # None <=> row' # None
        /\ row # None => /\ row'.age = row.age
                         /\ row'.state = IF row.age > NODE_TTL THEN "down" ELSE row.state
    BY <1>3, ReapDoes DEF spawn_node_reaper
  <2> QED
    BY <1>3, <2>1 DEF spawn_node_reaper
<1>4. ASSUME ControlPlaneDies PROVE LoopInv'
  BY <1>4 DEF ControlPlaneDies, Fault
<1>5. ASSUME run_node_add PROVE LoopInv'
  <2>1. PICK bad \in Settings \cup { None } : Begin(bad)
    BY <1>5 DEF run_node_add
  <2>2. node'.at = "extensions"
    BY <2>1, BeginDoes
  <2> QED
    BY <1>5, <2>2 DEF run_node_add
<1>6. ASSUME build_verifier PROVE LoopInv'
  BY <1>6 DEF build_verifier, Checks, GoesOn, Returned, Off
<1>7. ASSUME resolve_public_mcp_url PROVE LoopInv'
  BY <1>7 DEF resolve_public_mcp_url, Checks, GoesOn, Returned, Off
<1>8. ASSUME lineage_sink PROVE LoopInv'
  BY <1>8 DEF lineage_sink, Checks, GoesOn, Returned, Off
<1>9. ASSUME NEW reach \in SUBSET Warmable, NEW opens \in BOOLEAN, ensure_standard_extensions(reach, opens)
       PROVE LoopInv'
  BY <1>9 DEF ensure_standard_extensions, GoesOn, Returned, Off
<1>10. ASSUME NEW reach \in SUBSET Warmable, NEW opens \in BOOLEAN, warm_extension_cache(reach, opens)
       PROVE LoopInv'
  BY <1>10 DEF warm_extension_cache
<1>28. ASSUME NEW opens \in BOOLEAN, verify_pass(opens) PROVE LoopInv'
  BY <1>28 DEF verify_pass
<1>11. ASSUME RegisterNode PROVE LoopInv'
  BY <1>11 DEF RegisterNode, register_node, GoesOn, Returned, Off
<1>12. ASSUME build_ops PROVE LoopInv'
  BY <1>12 DEF build_ops, GoesOn, Returned, Off
<1>13. ASSUME serve_data PROVE LoopInv'
  BY <1>13 DEF serve_data, Fault
<1>14. ASSUME serve_mcp PROVE LoopInv'
  BY <1>14 DEF serve_mcp, Fault, GoesOn, Returned, Off
<1>15. ASSUME Beat PROVE LoopInv'
  <2>1. row # None
    BY <1>15, BeatDoes
  <2>2. CASE heartbeat /\ node'.client = "open" /\ node'.refused = 0
    <3>1. row' # None /\ row'.state = "active" /\ row'.age = 0
      BY <2>1, <2>2, HeartbeatDoes
    <3> QED
      BY <1>15, <2>2, <3>1, BeatDoes
  <2>3. CASE row' = row /\ node'.client = None /\ node'.refused = node.refused + 1
    BY <1>15, <2>1, <2>3, BeatDoes
  <2>4. CASE /\ row' = row /\ node'.client = None /\ node'.refused = node.refused
             /\ node.client = "broken" \/ control # "up"
    BY <1>15, <2>1, <2>4, BeatDoes
  <2> QED
    BY <1>15, <2>2, <2>3, <2>4, BeatDoes
<1>16. ASSUME shutdown_signal PROVE LoopInv'
  BY <1>16 DEF shutdown_signal
<1>17. ASSUME shutdown_lineage PROVE LoopInv'
  BY <1>17 DEF shutdown_lineage, Gone, Off
<1>18. ASSUME NodeDies PROVE LoopInv'
  BY <1>18 DEF NodeDies, Gone, Off, Fault
<1>19. ASSUME Start PROVE LoopInv'
  BY <1>19 DEF Start, Waiting
<1>20. ASSUME ControlConnectable PROVE LoopInv'
  <2>1. node'.at = "extensions"
    BY <1>20, BeginDoes DEF ControlConnectable
  <2> QED
    BY <1>20, <2>1 DEF ControlConnectable
<1>21. ASSUME wait_for_active_node PROVE LoopInv'
  BY <1>21 DEF wait_for_active_node, Waiting
<1>22. ASSUME DataConnectable PROVE LoopInv'
  BY <1>22 DEF DataConnectable, Waiting
<1>23. ASSUME GivesUp PROVE LoopInv'
  BY <1>23 DEF GivesUp, Dropped, Gone, Off, Waiting
<1>24. ASSUME Closed PROVE LoopInv'
  BY <1>24 DEF Closed, Dropped, Gone, Off, Waiting
<1>25. ASSUME HostDies PROVE LoopInv'
  BY <1>25 DEF HostDies, Dropped, Gone, Off, Waiting, Fault
<1>26. ASSUME Tick PROVE LoopInv'
  <2>1. /\ row # None <=> row' # None
        /\ row # None => row'.state = row.state /\ row'.age = Least(row.age + 1, NODE_TTL + 1)
    <3>1. CASE row = None
      BY <1>26, <3>1 DEF Tick
    <3>2. CASE row # None
      BY <1>26, <3>2, AgeDoes
    <3> QED
      BY <3>1, <3>2
  <2> QED
    BY <1>26, <2>1 DEF Tick, Least
<1>27. CASE UNCHANGED vars
  BY <1>27 DEF vars
<1> QED
  BY <1>1, <1>2, <1>3, <1>4, <1>5, <1>6, <1>7, <1>8, <1>9, <1>10, <1>11,
     <1>12, <1>13, <1>14, <1>15, <1>16, <1>17, <1>18, <1>19, <1>20, <1>21,
     <1>22, <1>23, <1>24, <1>25, <1>26, <1>27, <1>28 DEF Next

\* A node up beside the control plane for two beats is active, and one gone for
\* longer than NODE_TTL is down once the reaper has swept (heartbeat,
\* reap_stale_nodes), whatever crashed and restarted before.
THEOREM RowTellsTheTruthHolds == Spec => []RowTellsTheTruth
<1>1. Init => LoopInv
  BY ClusterAssumption DEF Init, LoopInv, Off, NODE_TTL
<1>2. TypeOK /\ BootInv /\ HostInv /\ LoopInv => RowTellsTheTruth
  BY DEF LoopInv, RowTellsTheTruth
<1> QED
  BY <1>1, <1>2, HostInvariant, LoopStep, PTL DEF Spec
=============================================================================
