----------------------- MODULE ClientUnderlay_proofs -----------------------
(***************************************************************************)
(* More of what is proved of client mode: that a clean exit removes the    *)
(* process's own adapter even if switches and both cleaners overlap, and   *)
(* that the underlay traffic stays out of the TAP.                         *)
(***************************************************************************)
EXTENDS ClientLifecycle_proofs

----------------------------------------------------------------------------
(* The adapter of a process that exits.  The only command that must not    *)
(* fail is tapctl remove; kills, switches and cleaners come at any time.   *)

\* Past its own tapctl remove no cleaner's process has its adapter any more,
\* and a process that is past create_tap makes no other.
OwnTapInv ==
  /\ exit_status # "none" => pc["main"] = "down"
  /\ \A t \in Cleaners : pc[t] \in {"clean_state", "returned"} => tap_guid \notin taps
  /\ ExitDeletesOwnTap

LEMMA OwnTapInvInit == Init => OwnTapInv
BY DEF Init, HostInit, OwnTapInv, ExitDeletesOwnTap, Threads, Cleaners

LEMMA OwnTapInvStep ==
  ASSUME "tap_delete" \notin MayFail, TypeInv, OwnTapInv, [Next]_vars
  PROVE  OwnTapInv'
<1> USE HostAssumption
<1> USE DEF TypeInv, TypeOK, HostTypeOK, ThreadsOK, OwnTapInv, ExitDeletesOwnTap,
        Threads, Cleaners, Labels, SyncLabels, CleanLabels, Alive, Goto, Die, host,
        process
<1>1. CASE residue_read
  BY <1>1 DEF residue_read
<1>2. CASE residue_route
  BY <1>2 DEF residue_route
<1>3. CASE residue_tap
  BY <1>3 DEF residue_tap, tap_delete
<1>4. CASE residue_file
  BY <1>4 DEF residue_file
<1>5. CASE create_tap
  BY <1>5 DEF create_tap, tapctl_create
<1>6. CASE name_tap
  BY <1>6 DEF name_tap
<1>7. CASE record_open
  BY <1>7 DEF record_open, Try
<1>8. CASE record_fill
  BY <1>8 DEF record_fill, Try
<1>9. CASE set_ip
  BY <1>9 DEF set_ip, Try
<1>10. CASE bring_up
  BY <1>10 DEF bring_up
<1>11. ASSUME NEW t \in {"main", "stdin"}, sync_tap_route(t)
       PROVE  OwnTapInv'
  <2>1. CASE sync_delete_same(t)
    BY <1>11, <2>1 DEF sync_delete_same
  <2>2. CASE sync_best(t)
    BY <1>11, <2>2 DEF sync_best, Try
  <2>3. CASE sync_add(t)
    BY <1>11, <2>3 DEF sync_add, Try
  <2>4. CASE sync_open(t)
    BY <1>11, <2>4 DEF sync_open, Try
  <2>5. CASE sync_fill(t)
    BY <1>11, <2>5 DEF sync_fill, Try, AfterSync
  <2>6. CASE sync_delete_old(t)
    BY <1>11, <2>6 DEF sync_delete_old, AfterSync
  <2>7. QED
    BY <1>11, <2>1, <2>2, <2>3, <2>4, <2>5, <2>6 DEF sync_tap_route
<1>12. ASSUME NEW t \in Cleaners, cleanup(t)
       PROVE  OwnTapInv'
  <2>1. CASE current_remote_ip(t)
    BY <1>12, <2>1 DEF current_remote_ip
  <2>2. CASE cleanup_ip(t)
    BY <1>12, <2>2 DEF cleanup_ip
  <2>3. CASE cleanup_route(t)
    BY <1>12, <2>3 DEF cleanup_route
  <2>4. CASE cleanup_tap(t)
    BY <1>12, <2>4 DEF cleanup_tap, tap_delete
  <2>5. CASE cleanup_state(t)
    BY <1>12, <2>5 DEF cleanup_state
  <2>6. QED
    BY <1>12, <2>1, <2>2, <2>3, <2>4, <2>5 DEF cleanup
<1>13. CASE stdin_ended \/ main_returned
  BY <1>13 DEF stdin_ended, main_returned
<1>14. CASE switch_lock \/ switch_store \/ stdin_closed
  BY <1>14 DEF switch_lock, switch_store, stdin_closed
<1>15. CASE Launch
  BY <1>15 DEF Launch
<1>16. ASSUME NEW ip \in SwitchTargets, switch(ip)
       PROVE  OwnTapInv'
  BY <1>16 DEF switch
<1>17. CASE task_ended \/ ctrl_c
  BY <1>17 DEF task_ended, ctrl_c
<1>18. CASE Kill \/ Reboot
  BY <1>18 DEF Kill, Reboot
<1>19. CASE UNCHANGED vars
  BY <1>19 DEF vars
<1>20. QED
  BY <1>1, <1>2, <1>3, <1>4, <1>5, <1>6, <1>7, <1>8, <1>9, <1>10, <1>11, <1>12,
     <1>13, <1>14, <1>15, <1>16, <1>17, <1>18, <1>19
  DEF Next, MainStep, StdinStep, CtrlCStep, Startup

(* A process that exits with status 0 has removed its own adapter, whatever *)
(* else failed and whichever switch or cleaner was under way.               *)
THEOREM OwnTapDeleted ==
  ASSUME "tap_delete" \notin MayFail PROVE Spec => []ExitDeletesOwnTap
<1>1. TypeInv /\ OwnTapInv /\ [Next]_vars => OwnTapInv'
  BY OwnTapInvStep
<1>2. OwnTapInv => ExitDeletesOwnTap
  BY DEF OwnTapInv
<1>3. QED
  BY TypeInvariant, OwnTapInvInit, <1>1, <1>2, PTL DEF Spec

----------------------------------------------------------------------------
(* The underlay stays on the physical interface.  The environment of the   *)
(* theorem: that of AdaptersRecorded, and switches only to peers outside   *)
(* the prefix of the TAP.                                                  *)

UnderlayEnvironment == TapEnvironment /\ SwitchTargets \cap TapSubnet = {}

\* The peer within the TAP's prefix a process may have been started with.
OnLink == remote_shared \in TapSubnet

\* From the `route add` of start-up to the end of the first switch or the
\* cleanup, its host route is there.
Pinning ==
  /\ pc["main"] \in {"sync_open", "sync_fill", "set_ip", "bring_up", "running"}
  /\ pc["stdin"] \notin {"sync_delete_old", "lock", "store"}
  /\ pc["ctrlc"] \in {"down", "waiting"}

(* UnderlayOnPhys is not inductive: no route may lead into a TAP, and none *)
(* is looked up for a peer in a TAP's prefix while a TAP has an address.   *)
UnderlayInv ==
  /\ \A ip \in IPs : routes[ip] \in {Phys, None}
  /\ \A t \in {"main", "stdin"} : pc[t] = "sync_add" => sync.via = Phys
  /\ pc["main"] \in {"name_tap", "record_open", "record_fill", "set_ip"}
                     \cup SyncLabels => tap_static = {}
  /\ pc["main"] \in SyncLabels => sync.new = remote_shared /\ sync.old = None
  /\ pc["stdin"] \in SyncLabels \cup {"lock", "store"}
       => sync.new \notin TapSubnet /\ sync.old = remote_shared
  /\ pc["main"] \notin {"sync_delete_same", "sync_delete_old"}
  /\ OnLink /\ Pinning => routes[remote_shared] = Phys

LEMMA UnderlayInvInit == Init => UnderlayInv
BY DEF Init, HostInit, UnderlayInv, Pinning, Threads, SyncLabels

LEMMA UnderlayInvHolds == TypeInv /\ UnderlayInv => UnderlayOnPhys
<1> SUFFICES ASSUME TypeInv, UnderlayInv, Quiescent
             PROVE  get_best_route(remote_shared) = {Phys}
  BY DEF UnderlayOnPhys
<1>1. remote_shared \in IPs
  BY DEF TypeInv, ArgsOK, Quiescent, Running
<1>2. CASE routes[remote_shared] = None
  BY HostAssumption, <1>1, <1>2
  DEF UnderlayInv, Pinning, OnLink, Quiescent, Running, get_best_route
<1>3. CASE routes[remote_shared] = Phys
  BY HostAssumption, <1>3 DEF get_best_route
<1>4. QED
  BY <1>1, <1>2, <1>3 DEF UnderlayInv

LEMMA UnderlayInvStep ==
  ASSUME UnderlayEnvironment, TypeInv, TapInv, UnderlayInv, [Next]_vars
  PROVE  UnderlayInv'
<1> USE HostAssumption, LifecycleAssumption
<1> USE DEF UnderlayEnvironment, TypeInv, TypeOK, HostTypeOK, ThreadsOK, ArgsOK,
        UnderlayInv, OnLink, Pinning, Threads, Cleaners, Labels, SyncLabels,
        CleanLabels, Alive, Goto, Die, host, process, options
<1>1. CASE residue_read
  BY <1>1 DEF residue_read
<1>2. CASE residue_route
  BY <1>2 DEF residue_route, route_delete_host
<1>3. CASE residue_tap
  BY <1>3 DEF residue_tap, tap_delete
<1>4. CASE residue_file
  BY <1>4 DEF residue_file
<1>5. CASE create_tap
  BY <1>5 DEF create_tap, tapctl_create, TapInv
<1>6. CASE name_tap
  BY <1>6 DEF name_tap
<1>7. CASE record_open
  BY <1>7 DEF record_open, Try
<1>8. CASE record_fill
  BY <1>8 DEF record_fill, Try
<1>9. CASE set_ip
  BY <1>9 DEF set_ip, tap_set_ip, Try
<1>10. CASE bring_up
  BY <1>10 DEF bring_up
<1>11. ASSUME NEW t \in {"main", "stdin"}, sync_tap_route(t)
       PROVE  UnderlayInv'
  <2>1. CASE sync_delete_same(t)
    BY <1>11, <2>1 DEF sync_delete_same, route_delete_host
  <2>2. CASE sync_best(t)
    BY <1>11, <2>2 DEF sync_best, get_best_route, Try
  <2>3. CASE sync_add(t)
    BY <1>11, <2>3 DEF sync_add, route_add_host, Try
  <2>4. CASE sync_open(t)
    BY <1>11, <2>4 DEF sync_open, Try
  <2>5. CASE sync_fill(t)
    BY <1>11, <2>5 DEF sync_fill, Try, AfterSync
  <2>6. CASE sync_delete_old(t)
    BY <1>11, <2>6 DEF sync_delete_old, route_delete_host, AfterSync
  <2>7. QED
    BY <1>11, <2>1, <2>2, <2>3, <2>4, <2>5, <2>6 DEF sync_tap_route
<1>12. ASSUME NEW t \in Cleaners, cleanup(t)
       PROVE  UnderlayInv'
  <2>1. CASE current_remote_ip(t)
    BY <1>12, <2>1 DEF current_remote_ip
  <2>2. CASE cleanup_ip(t)
    BY <1>12, <2>2 DEF cleanup_ip, tap_clear_ip
  <2>3. CASE cleanup_route(t)
    BY <1>12, <2>3 DEF cleanup_route, route_delete_host
  <2>4. CASE cleanup_tap(t)
    BY <1>12, <2>4 DEF cleanup_tap, tap_delete
  <2>5. CASE cleanup_state(t)
    BY <1>12, <2>5 DEF cleanup_state
  <2>6. QED
    BY <1>12, <2>1, <2>2, <2>3, <2>4, <2>5 DEF cleanup
<1>13. CASE stdin_ended \/ main_returned
  BY <1>13 DEF stdin_ended, main_returned
<1>14. CASE switch_lock \/ switch_store \/ stdin_closed
  BY <1>14 DEF switch_lock, switch_store, stdin_closed
<1>15. CASE Launch
  BY <1>15 DEF Launch
<1>16. ASSUME NEW ip \in SwitchTargets, switch(ip)
       PROVE  UnderlayInv'
  BY <1>16 DEF switch
<1>17. CASE task_ended \/ ctrl_c
  BY <1>17 DEF task_ended, ctrl_c
<1>18. CASE Kill \/ Reboot
  BY <1>18 DEF Kill, Reboot
<1>19. CASE UNCHANGED vars
  BY <1>19 DEF vars
<1>20. QED
  BY <1>1, <1>2, <1>3, <1>4, <1>5, <1>6, <1>7, <1>8, <1>9, <1>10, <1>11, <1>12,
     <1>13, <1>14, <1>15, <1>16, <1>17, <1>18, <1>19
  DEF Next, MainStep, StdinStep, CtrlCStep, Startup

(* Between switches the underlay traffic to the peer leaves by the physical *)
(* interface, also to a peer within the TAP's prefix the process was        *)
(* started with, whatever else fails, is killed or overlaps.                *)
THEOREM UnderlayStaysOnPhys ==
  ASSUME UnderlayEnvironment PROVE Spec => []UnderlayOnPhys
<1>1. TypeInv /\ TapInv /\ [Next]_vars => TapInv'
  BY TapInvStep DEF UnderlayEnvironment
<1>2. TypeInv /\ TapInv /\ UnderlayInv /\ [Next]_vars => UnderlayInv'
  BY UnderlayInvStep
<1>3. QED
  BY TypeInvariant, TapInvInit, UnderlayInvInit, UnderlayInvHolds, <1>1, <1>2,
     PTL DEF Spec

----------------------------------------------------------------------------
(* The route and the record follow the peer.  The environment of the       *)
(* theorem: those of AdaptersRecorded and RoutesRecorded, and neither the  *)
(* lookup nor the addition of a route fails of itself.                     *)

AlignEnvironment ==
  /\ TapEnvironment /\ RouteEnvironment
  /\ MayFail \cap {"get_best_route", "route_add_host"} = {}

(* RouteInv says which routes there are at most; this says which there are *)
(* at least, and that `route add` finds nothing in its way.                *)
AlignInv ==
  /\ \A t \in {"main", "stdin"} :
       /\ pc[t] \in {"sync_best", "sync_add"} => routes[sync.new] = None
       /\ pc[t] = "sync_add" => sync.via \in taps \cup {Phys}
       /\ pc[t] \in {"sync_open", "sync_fill", "sync_delete_old"} => sync.new \in Pinned
  /\ pc["main"] \in {"set_ip", "bring_up"}
       => /\ remote_shared \in Pinned
          /\ state_file = Entry(tap_guid, remote_shared)
  /\ pc["stdin"] \in {"lock", "store"} => sync.new \in Pinned
  /\ pc["stdin"] = "sync_delete_old" => sync.old # sync.new
  /\ pc["stdin"] \in {"sync_delete_old", "lock", "store"}
       => state_file = Entry(tap_guid, sync.new)
  /\ RouteAligned

LEMMA AlignInvInit == Init => AlignInv
BY DEF Init, HostInit, AlignInv, RouteAligned, Quiescent, Running, Threads

LEMMA AlignInvStep ==
  ASSUME AlignEnvironment, TypeInv, RouteInv, AlignInv, [Next]_vars
  PROVE  AlignInv'
<1> USE HostAssumption, LifecycleAssumption
<1> USE DEF AlignEnvironment, RouteEnvironment, TypeInv, TypeOK, HostTypeOK,
        ThreadsOK, ArgsOK, RouteInv, PinnedWithin, Pinned, AlignInv, RouteAligned,
        Quiescent, Running, Threads, Cleaners, Labels, SyncLabels, CleanLabels,
        Alive, Goto, Die, host, process, options
<1>1. CASE residue_read
  BY <1>1 DEF residue_read
<1>2. CASE residue_route
  BY <1>2 DEF residue_route
<1>3. CASE residue_tap
  BY <1>3 DEF residue_tap
<1>4. CASE residue_file
  BY <1>4 DEF residue_file
<1>5. CASE create_tap
  BY <1>5 DEF create_tap, tapctl_create
<1>6. CASE name_tap
  BY <1>6 DEF name_tap
<1>7. CASE record_open
  BY <1>7 DEF record_open, Try
<1>8. CASE record_fill
  BY <1>8 DEF record_fill, Try
<1>9. CASE set_ip
  BY <1>9 DEF set_ip, Try
<1>10. CASE bring_up
  BY <1>10 DEF bring_up
<1>11. ASSUME NEW t \in {"main", "stdin"}, sync_tap_route(t)
       PROVE  AlignInv'
  <2>1. CASE sync_delete_same(t)
    BY <1>11, <2>1 DEF sync_delete_same, route_delete_host
  <2>2. CASE sync_best(t)
    BY <1>11, <2>2 DEF sync_best, get_best_route, Try
  <2>3. CASE sync_add(t)
    BY <1>11, <2>3 DEF sync_add, route_add_host, Try
  <2>4. CASE sync_open(t)
    BY <1>11, <2>4 DEF sync_open, state_open, Try
  <2>5. CASE sync_fill(t)
    BY <1>11, <2>5 DEF sync_fill, state_fill, Try, AfterSync
  <2>6. CASE sync_delete_old(t)
    BY <1>11, <2>6 DEF sync_delete_old, route_delete_host, AfterSync
  <2>7. QED
    BY <1>11, <2>1, <2>2, <2>3, <2>4, <2>5, <2>6 DEF sync_tap_route
<1>12. ASSUME NEW t \in Cleaners, cleanup(t)
       PROVE  AlignInv'
  <2>1. CASE current_remote_ip(t)
    BY <1>12, <2>1 DEF current_remote_ip
  <2>2. CASE cleanup_ip(t)
    BY <1>12, <2>2 DEF cleanup_ip
  <2>3. CASE cleanup_route(t)
    BY <1>12, <2>3 DEF cleanup_route
  <2>4. CASE cleanup_tap(t)
    BY <1>12, <2>4 DEF cleanup_tap
  <2>5. CASE cleanup_state(t)
    BY <1>12, <2>5 DEF cleanup_state
  <2>6. QED
    BY <1>12, <2>1, <2>2, <2>3, <2>4, <2>5 DEF cleanup
<1>13. CASE stdin_ended \/ main_returned
  BY <1>13 DEF stdin_ended, main_returned
<1>14. CASE switch_lock \/ switch_store \/ stdin_closed
  BY <1>14 DEF switch_lock, switch_store, stdin_closed
<1>15. CASE Launch
  BY <1>15 DEF Launch
<1>16. ASSUME NEW ip \in SwitchTargets, switch(ip)
       PROVE  AlignInv'
  BY <1>16 DEF switch
<1>17. CASE task_ended \/ ctrl_c
  BY <1>17 DEF task_ended, ctrl_c
<1>18. CASE Kill \/ Reboot
  BY <1>18 DEF Kill, Reboot
<1>19. CASE UNCHANGED vars
  BY <1>19 DEF vars
<1>20. QED
  BY <1>1, <1>2, <1>3, <1>4, <1>5, <1>6, <1>7, <1>8, <1>9, <1>10, <1>11, <1>12,
     <1>13, <1>14, <1>15, <1>16, <1>17, <1>18, <1>19
  DEF Next, MainStep, StdinStep, CtrlCStep, Startup

(* Between switches the one host route is the current peer's and the state *)
(* file names it and the adapter, after any number of switches, to the     *)
(* same peer or back to an earlier one, and of kills and restarts.         *)
THEOREM RoutesAligned ==
  ASSUME AlignEnvironment PROVE Spec => []RouteAligned
<1>1. TypeInv /\ RouteInv /\ [Next]_vars => RouteInv'
  BY RouteInvStep DEF AlignEnvironment
<1>2. TypeInv /\ RouteInv /\ AlignInv /\ [Next]_vars => AlignInv'
  BY AlignInvStep
<1>3. AlignInv => RouteAligned
  BY DEF AlignInv
<1>4. QED
  BY TypeInvariant, RouteInvInit, AlignInvInit, <1>1, <1>2, <1>3, PTL DEF Spec
=============================================================================
