----------------------------- MODULE TwoClients -----------------------------
(***************************************************************************)
(* A second `l2portal --tap` on a host where one is running.  Nothing in   *)
(* the program keeps the two apart: they share the adapters, the routing   *)
(* table and the one state file of src/state.rs.  The first client is up   *)
(* and idle, or exits by Ctrl+C; the second starts and runs.               *)
(***************************************************************************)
EXTENDS HostResources

CONSTANT Peer \* of both, the shortest way to share the host

VARIABLES \* of the first client
  pc, tap_guid, remote_shared, tap_ip_prefix, local_on_tap, sync, clean_ip,
  exit_status

VARIABLES \* of the second client
  pc_2, tap_guid_2, remote_shared_2, tap_ip_prefix_2, local_on_tap_2, sync_2,
  clean_ip_2, exit_status_2

first  == <<pc, tap_guid, remote_shared, tap_ip_prefix, local_on_tap, sync,
            clean_ip, exit_status>>
second == <<pc_2, tap_guid_2, remote_shared_2, tap_ip_prefix_2, local_on_tap_2,
            sync_2, clean_ip_2, exit_status_2>>
vars   == <<host, first, second>>

First == INSTANCE ClientLifecycle WITH
  SwitchTargets <- {Peer}, CrashPoints <- {}, Overlap <- FALSE

Second == INSTANCE ClientLifecycle WITH
  SwitchTargets <- {Peer}, CrashPoints <- {}, Overlap <- FALSE,
  pc <- pc_2, tap_guid <- tap_guid_2, remote_shared <- remote_shared_2,
  tap_ip_prefix <- tap_ip_prefix_2, local_on_tap <- local_on_tap_2,
  sync <- sync_2, clean_ip <- clean_ip_2, exit_status <- exit_status_2

Init == First!Init /\ Second!Init

\* The first client is not interrupted while it starts up or shuts down.
Settled == pc["main"] \in {"running", "down"} /\ pc["ctrlc"] \in {"waiting", "down"}

first_runs ==
  /\ \/ First!Launch /\ pc_2["main"] = "down"
     \/ First!MainStep \/ First!CtrlCStep \/ First!ctrl_c
  /\ UNCHANGED second

second_runs ==
  /\ Settled
  /\ (Second!Launch /\ pc["main"] = "running") \/ Second!MainStep
  /\ UNCHANGED first

Next == first_runs \/ second_runs

Spec == Init /\ [][Next]_vars

\* src/state.rs:8: on startup, any existing state file signals a crash residue,
\* and the old TAP and route it names are cleaned up.  So a client that is up
\* keeps its own, whoever starts.
OnlyResidueCleaned ==
  pc["main"] = "running"
    => tap_guid \in taps /\ routes[remote_shared] # None
=============================================================================
