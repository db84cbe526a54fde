------------------------------ MODULE Cluster ------------------------------
(***************************************************************************)
(* How a cluster comes up, stays up and goes down: the control plane's     *)
(* process and its reaper (latiq-control-plane lib.rs), a pond node's      *)
(* startup, heartbeat and shutdown (latiq-pond-node lib.rs), the binary's  *)
(* `serve' and `node add' (latiq lib.rs), and the cluster the SDK embeds   *)
(* in its host process (latiq-sdk lib.rs LocalCluster).                    *)
(*                                                                         *)
(* In mode "binary" control plane and node are processes of their own; in  *)
(* mode "local" both are tasks of one runtime in the host.  A tick is ten  *)
(* seconds: the heartbeat interval and the reaper's, and 200 polls of a    *)
(* wait.  An incarnation of the node is named by its number, and so is the *)
(* address it advertises.                                                  *)
(***************************************************************************)
EXTENDS Integers, Sequences

CONSTANTS
  None,
  Standard,   \* STANDARD_LOAD, the sequence of extensions every pond loads
  Warmable,   \* warmable_extensions, those and the optional ones
  Needs,      \* extension -> the extensions its LOAD pulls in
  Settings,   \* what may be wrong with a node's configuration
  MaxBoots,   \* bound on the incarnations of the node
  MaxFaults   \* bound on crashes, taken ports, refused beats and restarts of the control plane

ASSUME ClusterAssumption ==
  /\ Standard \in Seq(Warmable) /\ Needs \in [ Warmable -> SUBSET Warmable ]
  /\ Settings \subseteq { "auth", "public_url", "backend_url" }
  /\ MaxBoots \in Nat /\ MaxFaults \in Nat
  /\ None \notin [ at : Nat, state : { "active", "down" }, age : Nat ]
  /\ None \notin { "auth", "public_url", "backend_url", "loaded", "failed", "open", "broken" }
  /\ "<verify>" \notin Warmable

VARIABLES
  mode,     \* "binary" or "local"
  control,  \* the control plane: "off", "binding", "up", or "taken", its port another process's
  row,      \* the node's row of the registry file, or None
  node,     \* the node: stage, incarnation, what is wrong with it, Data port, heartbeat client,
            \* and how many beats in a row the registry has refused it
  due,      \* the loops that have not yet woken in this tick
  cached,   \* the extensions in the disk cache
  checked,  \* STANDARD_READY, the memoized result of the extension check in this process
  warmed,   \* the background warm: its pass, and the extensions its report has named so far
  sdk,      \* how far Latiq::connect("local") is, and the ticks its wait may still take
  together, \* ticks that node and control plane have been up side by side
  missing,  \* ticks that the control plane has been up and no node has beaten
  faults

vars == << mode, control, row, node, due, cached, checked, warmed, sdk, together, missing, faults >>

NODE_TTL == 3

Off(boot) == [ at |-> "off", boot |-> boot, bad |-> None, data |-> "no", client |-> None, refused |-> 0 ]

Waiting(at, ticks) == [ at |-> at, left |-> ticks ]

(* The tasks run_pond_node_until has spawned: the heartbeat and the Data   *)
(* server, which outlive its own return as long as the process does.       *)
Beating == node.at \in { "spawned", "serving", "flushing", "returned" }

NoReport == [ at |-> "no", failed |-> {} ]

Warming == warmed.at \in { "installing", "verifying" }

(* The extensions of the standard set, and those a LOAD of one needs in    *)
(* the cache when nothing may be downloaded (warmable_extensions).         *)
Required == { Standard[i] : i \in DOMAIN Standard }

Closure(e) == { e } \cup Needs[e]

Loads(e) == Closure(e) \subseteq cached

Fault == faults < MaxFaults /\ faults' = faults + 1

Least(a, b) == IF a < b THEN a ELSE b

(***************************************************************************)
(* The registry's three statements about a node.                           *)
(***************************************************************************)
register_node == row' = [ at |-> node.boot, state |-> "active", age |-> 0 ]

heartbeat == row' = [ row EXCEPT !.state = "active", !.age = 0 ]

reap_stale_nodes ==
  row' = IF row # None /\ row.state = "active" /\ row.age > NODE_TTL
         THEN [ row EXCEPT !.state = "down" ] ELSE row

(***************************************************************************)
(* The control plane.                                                      *)
(***************************************************************************)
(* run_serve: the registry is opened and the server is about to bind.      *)
run_serve ==
  /\ mode = "binary" /\ control = "off"
  /\ control' = "binding"
  /\ UNCHANGED << mode, row, node, due, cached, checked, warmed, sdk, together, missing, faults >>

(* serve_control_plane: the reaper is spawned and the port bound.  In the  *)
(* embedded cluster a port chosen free may be taken by now.                *)
serve_control_plane ==
  /\ control = "binding"
  /\ \/ control' = "up" /\ due' = due \ { "sweep" } /\ UNCHANGED faults
     \/ /\ control' = (IF mode = "local" THEN "taken" ELSE "off")
        /\ Fault /\ UNCHANGED due
  /\ UNCHANGED << mode, row, node, cached, checked, warmed, sdk, together, missing >>

(* spawn_node_reaper's loop, on the registry, which it was given before    *)
(* the port was tried.                                                     *)
spawn_node_reaper ==
  /\ control \in { "up", "taken" } /\ "sweep" \in due
  /\ reap_stale_nodes
  /\ due' = due \ { "sweep" }
  /\ UNCHANGED << mode, control, node, cached, checked, warmed, sdk, together, missing, faults >>

ControlPlaneDies ==
  /\ mode = "binary" /\ control = "up"
  /\ control' = "off"
  /\ due' = due \ { "sweep" }
  /\ node' = [ node EXCEPT !.client = IF @ = "open" THEN "broken" ELSE @ ]
  /\ together' = 0 /\ missing' = 0
  /\ Fault
  /\ UNCHANGED << mode, row, cached, checked, warmed, sdk >>

(***************************************************************************)
(* The pond node, stage by stage.                                          *)
(***************************************************************************)
Begin(bad) ==
  node' = [ Off(node.boot + 1) EXCEPT !.at = "extensions", !.bad = bad ]

(* run_node_add: a process of its own, once the one before has ended, so a *)
(* memo of its own.                                                        *)
run_node_add ==
  /\ mode = "binary" /\ node.at = "off" /\ ~ Warming /\ node.boot < MaxBoots
  /\ \E bad \in Settings \cup { None } : Begin(bad)
  /\ checked' = None /\ warmed' = NoReport
  /\ UNCHANGED << mode, control, row, due, cached, sdk, together, missing, faults >>

(* The node's future returns an error, or its process exits: in the binary *)
(* nothing is left, in a host the tasks it had spawned go on.              *)
Returned ==
  IF mode = "local" /\ Beating THEN [ node EXCEPT !.at = "returned" ] ELSE Off(node.boot)

GoesOn(from, to, ok) ==
  /\ node.at = from
  /\ node' = IF ok THEN [ node EXCEPT !.at = to ] ELSE Returned

(* INSTALL and LOAD of the standard set, one extension after the other and *)
(* up to the first that neither the cache nor the network has; what was    *)
(* fetched before it stays.  Once per process: a failure is remembered as  *)
(* well as a success.                                                      *)
ensure_standard_extensions(reach, opens) ==
  LET got(i) == Closure(Standard[i]) \subseteq cached \cup reach
      tried  == { i \in DOMAIN Standard : \A j \in 1 .. i - 1 : got(j) }
      memo   == IF checked # None THEN checked
                ELSE IF opens /\ \A i \in DOMAIN Standard : got(i) THEN "loaded" ELSE "failed"
  IN /\ cached' = IF checked = None /\ opens
                  THEN cached \cup (reach \cap UNION { Closure(Standard[i]) : i \in tried })
                  ELSE cached
     /\ checked' = memo
     /\ GoesOn("extensions", "verifier", memo = "loaded")
     /\ UNCHANGED << mode, control, row, due, warmed, sdk, together, missing, faults >>

Checks(from, to, setting) ==
  /\ GoesOn(from, to, node.bad # setting)
  /\ UNCHANGED << mode, control, row, due, cached, checked, warmed, sdk, together, missing, faults >>

(* Verifier::new, resolve_public_mcp_url and HttpSink::new.                *)
build_verifier         == Checks("verifier", "url", "auth")
resolve_public_mcp_url == Checks("url", "sink", "public_url")
lineage_sink           == Checks("sink", "joining", "backend_url")

(* build_ops: a connection to register with, and a second one for the      *)
(* control plane's client.                                                 *)
RegisterNode ==
  /\ GoesOn("joining", "joined", control = "up")
  /\ IF control = "up" THEN register_node /\ missing' = 0 ELSE UNCHANGED << row, missing >>
  /\ UNCHANGED << mode, control, due, cached, checked, warmed, sdk, together, faults >>

(* With the second connection there is no wait before the warm, the        *)
(* heartbeat and the Data server are spawned.                              *)
build_ops ==
  /\ GoesOn("joined", "spawned", control = "up")
  /\ IF control = "up" THEN warmed' = [ NoReport EXCEPT !.at = "installing" ] /\ together' = 0 /\ missing' = 0
     ELSE UNCHANGED << warmed, together, missing >>
  /\ UNCHANGED << mode, control, row, due, cached, checked, sdk, faults >>

(* The install pass of the warm: each by itself, and the one that neither  *)
(* the cache nor the network has is named.                                 *)
warm_extension_cache(reach, opens) ==
  /\ warmed.at = "installing"
  /\ IF opens
     THEN /\ cached' = cached \cup reach
          /\ warmed' = [ at |-> "verifying", failed |-> Warmable \ (cached \cup reach) ]
     ELSE /\ warmed' = [ at |-> "done", failed |-> Warmable ]
          /\ UNCHANGED cached
  /\ UNCHANGED << mode, control, row, node, due, checked, sdk, together, missing, faults >>

(* Mutant: an installed extension taken for one that loads.                *)
verify_nothing(opens) ==
  /\ warmed.at = "verifying"
  /\ warmed' = [ warmed EXCEPT !.at = "done" ]
  /\ UNCHANGED << mode, control, row, node, due, cached, checked, sdk, together, missing, faults >>

(* Its verify pass: LOAD of each with autoinstall off.                     *)
verify_pass(opens) ==
  /\ warmed.at = "verifying"
  /\ warmed' = [ at |-> "done",
                 failed |-> warmed.failed \cup
                   IF opens THEN { e \in Warmable : ~ Loads(e) } ELSE { "<verify>" } ]
  /\ UNCHANGED << mode, control, row, node, due, cached, checked, sdk, together, missing, faults >>

(* serve_data: a port that cannot be bound is printed and no more.         *)
serve_data ==
  /\ Beating /\ node.data = "no"
  /\ \/ node' = [ node EXCEPT !.data = "bound" ] /\ UNCHANGED faults
     \/ node' = [ node EXCEPT !.data = "taken" ] /\ Fault
  /\ UNCHANGED << mode, control, row, due, cached, checked, warmed, sdk, together, missing >>

(* serve_mcp: its port is the node's life.                                 *)
serve_mcp ==
  /\ \/ GoesOn("spawned", "serving", TRUE) /\ UNCHANGED << faults, together, missing, warmed >>
     \/ /\ GoesOn("spawned", "serving", FALSE)
        /\ Fault
        /\ IF mode = "binary" THEN together' = 0 /\ missing' = 0
           ELSE UNCHANGED << together, missing >>
        /\ UNCHANGED warmed
  /\ due' = IF node'.at = "off" THEN due \ { "beat" } ELSE due
  /\ UNCHANGED << mode, control, row, cached, checked, sdk >>

Dialled == IF node.client = None /\ control = "up" THEN "open" ELSE node.client

(* Mutant: the loop without the reconnection.                              *)
BeatKeepingClient ==
  /\ Beating /\ "beat" \in due
  /\ due' = due \ { "beat" }
  /\ IF Dialled = "open" /\ control = "up" THEN heartbeat ELSE UNCHANGED row
  /\ node' = [ node EXCEPT !.client = Dialled ]
  /\ UNCHANGED << mode, control, cached, checked, warmed, sdk, together, missing, faults >>

(* One turn of the heartbeat loop: dial if there is no client, beat if     *)
(* there is one, forget it if that fails.  A channel whose peer has been   *)
(* away may reconnect by itself or fail once; and the registry's statement *)
(* may fail.                                                               *)
Beat ==
  /\ Beating /\ "beat" \in due
  /\ due' = due \ { "beat" }
  /\ \/ /\ Dialled \in { "open", "broken" } /\ control = "up"
        /\ heartbeat
        /\ node' = [ node EXCEPT !.client = "open", !.refused = 0 ]
        /\ UNCHANGED faults
     \/ /\ Dialled \in { "open", "broken" } /\ control = "up"
        /\ node' = [ node EXCEPT !.client = None, !.refused = @ + 1 ]
        /\ Fault /\ UNCHANGED row
     \/ /\ Dialled = "broken" \/ control # "up"
        /\ node' = [ node EXCEPT !.client = None ]
        /\ UNCHANGED << row, faults >>
  /\ UNCHANGED << mode, control, cached, checked, warmed, sdk, together, missing >>

(* The node is gone, and the loops that were in its process.               *)
Gone(loops) ==
  /\ node' = Off(node.boot)
  /\ due' = due \ loops
  /\ together' = 0 /\ missing' = 0

(* SIGTERM while serving: the lineage is flushed, within a budget, and     *)
(* then the runtime is dropped; heartbeat and Data server run until then,  *)
(* and the row is left as it is.  The drop waits for a warm that is still  *)
(* on the blocking pool, and only then does the process end.               *)
shutdown_signal ==
  /\ mode = "binary" /\ node.at = "serving"
  /\ node' = [ node EXCEPT !.at = "flushing" ]
  /\ UNCHANGED << mode, control, row, due, cached, checked, warmed, sdk, together, missing, faults >>

shutdown_lineage ==
  /\ node.at = "flushing"
  /\ Gone({ "beat" })
  /\ UNCHANGED << mode, control, row, cached, checked, warmed, sdk, faults >>

NodeDies ==
  /\ mode = "binary" /\ (node.at # "off" \/ Warming)
  /\ Gone({ "beat" }) /\ warmed' = NoReport
  /\ Fault
  /\ UNCHANGED << mode, control, row, cached, checked, sdk >>

(***************************************************************************)
(* The embedded cluster.                                                   *)
(***************************************************************************)
(* LocalCluster::start: three free ports, the registry, the control plane. *)
Start ==
  /\ mode = "local" /\ sdk.at = "idle" /\ ~ Warming /\ node.boot < MaxBoots
  /\ control' = "binding"
  /\ sdk' = Waiting("control", 1)
  /\ UNCHANGED << mode, row, node, due, cached, checked, warmed, together, missing, faults >>

(* wait_connectable: whoever answers on the port.                          *)
ControlConnectable ==
  /\ sdk.at = "control" /\ control \in { "up", "taken" }
  /\ sdk' = Waiting("node", 2)
  /\ Begin(None)
  /\ warmed' = NoReport
  /\ UNCHANGED << mode, control, row, due, cached, checked, together, missing, faults >>

(* Mutant: the start without its last wait.                                *)
wait_for_active_node_only ==
  /\ sdk.at = "node" /\ control = "up" /\ row # None /\ row.state = "active"
  /\ sdk' = Waiting("ready", 0)
  /\ UNCHANGED << mode, control, row, node, due, cached, checked, warmed, together, missing, faults >>

(* wait_for_active_node: any row will do, one of an earlier host included. *)
wait_for_active_node ==
  /\ sdk.at = "node" /\ control = "up" /\ row # None /\ row.state = "active"
  /\ sdk' = Waiting("data", 1)
  /\ UNCHANGED << mode, control, row, node, due, cached, checked, warmed, together, missing, faults >>

DataConnectable ==
  /\ sdk.at = "data" /\ node.data \in { "bound", "taken" }
  /\ sdk' = Waiting("ready", 0)
  /\ UNCHANGED << mode, control, row, node, due, cached, checked, warmed, together, missing, faults >>

(* The runtime is dropped and every task of the cluster with it, except    *)
(* what runs on its blocking pool: a drop waits for the extension check    *)
(* and for the warm.                                                       *)
Dropped ==
  /\ Gone({ "beat", "sweep" })
  /\ control' = "off"
  /\ sdk' = Waiting("idle", 0)

GivesUp ==
  /\ sdk.at \in { "control", "node", "data" } /\ sdk.left = 0
  /\ node.at # "extensions"
  /\ Dropped
  /\ UNCHANGED << mode, row, cached, checked, warmed, faults >>

Closed ==
  /\ sdk.at = "ready"
  /\ Dropped
  /\ UNCHANGED << mode, row, cached, checked, warmed, faults >>

HostDies ==
  /\ mode = "local" /\ (sdk.at # "idle" \/ Warming)
  /\ Dropped
  /\ checked' = None /\ warmed' = NoReport
  /\ Fault
  /\ UNCHANGED << mode, row, cached >>

(***************************************************************************)
(* Ten seconds pass.  Each loop has run in the ten before, and a dial of a *)
(* live control plane or the binding of a port takes less.                 *)
(***************************************************************************)
Tick ==
  /\ due = {}
  /\ node.at = "joined" => control # "up"
  /\ node.at # "spawned" /\ (Beating => node.data # "no")
  /\ due' = (IF control \in { "up", "taken" } THEN { "sweep" } ELSE {}) \cup (IF Beating THEN { "beat" } ELSE {})
  /\ row' = IF row = None THEN row ELSE [ row EXCEPT !.age = Least(@ + 1, NODE_TTL + 1) ]
  /\ sdk.at \in { "control", "node", "data" } => sdk.left > 0
  /\ sdk' = [ sdk EXCEPT !.left = IF @ > 0 THEN @ - 1 ELSE 0 ]
  /\ together' = IF control = "up" /\ Beating THEN Least(together + 1, 2) ELSE 0
  /\ missing' = IF control = "up" /\ ~ Beating THEN Least(missing + 1, NODE_TTL + 1) ELSE 0
  /\ UNCHANGED << mode, control, node, cached, checked, warmed, faults >>

Init ==
  /\ mode \in { "binary", "local" }
  /\ control = "off" /\ row = None /\ node = Off(0) /\ due = {}
  /\ cached \in { {}, Warmable } /\ checked = None /\ warmed = NoReport
  /\ sdk = Waiting("idle", 0)
  /\ together = 0 /\ missing = 0 /\ faults = 0

Next ==
  \/ run_serve \/ serve_control_plane \/ spawn_node_reaper \/ ControlPlaneDies
  \/ run_node_add \/ build_verifier \/ resolve_public_mcp_url \/ lineage_sink
  \/ \E reach \in SUBSET Warmable, opens \in BOOLEAN :
       ensure_standard_extensions(reach, opens) \/ warm_extension_cache(reach, opens)
  \/ \E opens \in BOOLEAN : verify_pass(opens)
  \/ RegisterNode \/ build_ops \/ serve_data \/ serve_mcp \/ Beat
  \/ shutdown_signal \/ shutdown_lineage \/ NodeDies
  \/ Start \/ ControlConnectable \/ wait_for_active_node \/ DataConnectable
  \/ GivesUp \/ Closed \/ HostDies \/ Tick

Spec == Init /\ [][Next]_vars

(***************************************************************************)
(* Properties.                                                             *)
(***************************************************************************)
(* Latiq::connect("local") (sdk lib.rs LocalCluster::start): a cluster it  *)
(* has handed out serves: its own node is the one registered, alive and    *)
(* answering, and not an earlier host's that the registry file remembers;  *)
(* and it takes NODE_TTL beats refused in a row for placement to lose it.  *)
(* A port another process took in between is the exception.                *)
ReadyMeansServing ==
  sdk.at = "ready" /\ control # "taken" /\ node.data # "taken" =>
    /\ node.data = "bound" /\ Beating
    /\ row # None /\ row.at = node.boot
    /\ node.refused < NODE_TTL => row.state = "active"

(* Placement reads the row's state (registry.rs heartbeat,                 *)
(* reap_stale_nodes; pond-node lib.rs heartbeat loop): a node that has     *)
(* been up beside the control plane for two beats, and whose last beat the *)
(* registry took, is active, whatever fell over before; one gone for       *)
(* longer than NODE_TTL is down.                                           *)
RowTellsTheTruth ==
  /\ together = 2 /\ "beat" \notin due /\ node.refused = 0 => row.state = "active"
  /\ missing > NODE_TTL /\ "sweep" \notin due /\ row # None => row.state = "down"

(* Every LOAD site runs with autoinstall off (instance.rs                  *)
(* ensure_standard_extensions, warm_extension_cache): whichever installs   *)
(* the network failed, now or in an earlier process, and whatever died in  *)
(* between, a registered node opens its ponds offline; and an extension    *)
(* that a finished warm did not name loads offline, with what its LOAD     *)
(* pulls in, unless the report says that it could not verify.              *)
OfflineReady ==
  /\ row # None /\ row.at = node.boot /\ node.at # "off" => \A e \in Required : Loads(e)
  /\ warmed.at = "done" /\ "<verify>" \notin warmed.failed =>
       \A e \in Warmable \ warmed.failed : Loads(e)
=============================================================================
