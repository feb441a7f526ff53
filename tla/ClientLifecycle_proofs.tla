----------------------- MODULE ClientLifecycle_proofs -----------------------
(***************************************************************************)
(* What is proved of client mode, for any adapters, peers and TAP subnet,  *)
(* any switches, kills and failing commands a theorem does not exclude.    *)
(***************************************************************************)
EXTENDS ClientProperties, TLAPS

----------------------------------------------------------------------------
(* Type correctness.  TypeOK alone is not inductive: sync_tap_route indexes *)
(* the routes with sync.new, which has to be an address by then.           *)

Alive == {"running", "clean_read", "returned"} \cup CleanLabels

\* Which labels each thread reaches, and which threads there are when.
ThreadsOK ==
  /\ pc["main"] \in Alive \cup SyncLabels \cup
       {"down", "residue_read", "residue_route", "residue_tap", "residue_file",
        "create_tap", "name_tap", "record_open", "record_fill", "set_ip", "bring_up"}
  /\ pc["stdin"] \in SyncLabels \cup {"down", "reading", "lock", "store", "closed"}
  /\ pc["ctrlc"] \in CleanLabels \cup {"down", "waiting", "clean_read"}
  /\ pc["main"] \notin Alive => pc["stdin"] = "down" /\ pc["ctrlc"] = "down"

\* A running process has a peer, and sync_tap_route a new one.
ArgsOK ==
  /\ pc["main"] # "down" => remote_shared \in IPs
  /\ \A t \in Threads :
       pc[t] \in SyncLabels \cup {"lock", "store"} => sync.new \in IPs

TypeInv == TypeOK /\ ThreadsOK /\ ArgsOK

\* Whatever is written to the state file is of its type.
LEMMA StateFileTypes ==
  /\ NoFile \in StateFiles /\ Blank \in StateFiles
  /\ \A g \in Guids \cup {None}, ip \in IPs \cup {None} : Entry(g, ip) \in StateFiles
BY DEF NoFile, Blank, Entry, StateFiles

LEMMA TypeInvInit == Init => TypeInv
<1> SUFFICES ASSUME Init PROVE TypeInv
  OBVIOUS
<1>1. HostTypeOK
  BY StateFileTypes DEF Init, HostInit, HostTypeOK
<1>2. sync \in [old : IPs \cup {None}, new : IPs \cup {None}, via : Guids \cup {Phys}]
  BY DEF Init, NoSync
<1>3. clean_ip \in [Cleaners -> IPs \cup {None}]
  BY DEF Init, NoRead
<1>4. ThreadsOK /\ ArgsOK /\ pc \in [Threads -> Labels]
  BY DEF Init, ThreadsOK, ArgsOK, Threads, Labels, SyncLabels, CleanLabels, Alive
<1>5. QED
  BY <1>1, <1>2, <1>3, <1>4 DEF Init, TypeInv, TypeOK

LEMMA TypeInvStep == TypeInv /\ [Next]_vars => TypeInv'
<1> SUFFICES ASSUME TypeInv, [Next]_vars PROVE TypeInv'
  OBVIOUS
<1> USE HostAssumption, LifecycleAssumption, StateFileTypes
<1> USE DEF TypeInv, TypeOK, HostTypeOK, ThreadsOK, ArgsOK, Threads, Cleaners,
        Labels, SyncLabels, CleanLabels, Alive, Goto, Die, host, process, options
<1>1. CASE residue_read
  BY <1>1 DEF residue_read, state_remove
<1>2. CASE residue_route
  BY <1>2 DEF residue_route, route_delete_host
<1>3. CASE residue_tap
  BY <1>3 DEF residue_tap, tap_delete
<1>4. CASE residue_file
  BY <1>4 DEF residue_file, state_remove
<1>5. CASE create_tap
  BY <1>5 DEF create_tap, tapctl_create
<1>6. CASE name_tap
  BY <1>6 DEF name_tap
<1>7. CASE record_open
  BY <1>7 DEF record_open, state_open, Try
<1>8. CASE record_fill
  <2>1. sync' = [old |-> None, new |-> remote_shared, via |-> sync.via]
    BY <1>8 DEF record_fill
  <2>2. sync' \in [old : IPs \cup {None}, new : IPs \cup {None},
                  via : Guids \cup {Phys}]
    BY <2>1
  <2>3. QED
    BY <1>8, <2>1, <2>2 DEF record_fill, state_fill, Try
<1>9. CASE set_ip
  BY <1>9 DEF set_ip, tap_set_ip, Try
<1>10. CASE bring_up
  BY <1>10 DEF bring_up
<1>11. ASSUME NEW t \in {"main", "stdin"}, sync_tap_route(t)
       PROVE  TypeInv'
  <2>1. CASE sync_delete_same(t)
    BY <1>11, <2>1 DEF sync_delete_same, route_delete_host
  <2>2. CASE sync_best(t)
    BY <1>11, <2>2 DEF sync_best, get_best_route, Try
  <2>3. CASE sync_add(t)
    BY <1>11, <2>3 DEF sync_add, route_add_host, Try
  <2>4. CASE sync_open(t)
    BY <1>11, <2>4 DEF sync_open, state_open, Try
  <2>5. CASE sync_fill(t)
    BY <1>11, <2>5 DEF sync_fill, state_fill, Try, AfterSync
  <2>6. CASE sync_delete_old(t)
    BY <1>11, <2>6 DEF sync_delete_old, route_delete_host, AfterSync
  <2>7. QED
    BY <1>11, <2>1, <2>2, <2>3, <2>4, <2>5, <2>6 DEF sync_tap_route
<1>12. ASSUME NEW t \in Cleaners, cleanup(t)
       PROVE  TypeInv'
  <2>1. CASE current_remote_ip(t)
    BY <1>12, <2>1 DEF current_remote_ip
  <2>2. CASE cleanup_ip(t)
    BY <1>12, <2>2 DEF cleanup_ip, tap_clear_ip
  <2>3. CASE cleanup_route(t)
    BY <1>12, <2>3 DEF cleanup_route, route_delete_host
  <2>4. CASE cleanup_tap(t)
    BY <1>12, <2>4 DEF cleanup_tap, tap_delete
  <2>5. CASE cleanup_state(t)
    BY <1>12, <2>5 DEF cleanup_state, state_remove
  <2>6. QED
    BY <1>12, <2>1, <2>2, <2>3, <2>4, <2>5 DEF cleanup
<1>13. CASE stdin_ended
  BY <1>13 DEF stdin_ended
<1>14. CASE main_returned
  BY <1>14 DEF main_returned
<1>15. CASE switch_lock
  BY <1>15 DEF switch_lock
<1>16. CASE switch_store
  BY <1>16 DEF switch_store
<1>17. CASE Launch
  BY <1>17 DEF Launch, NoSync, NoRead
<1>18. ASSUME NEW ip \in SwitchTargets, switch(ip)
       PROVE  TypeInv'
  BY <1>18 DEF switch
<1>19. CASE stdin_closed
  BY <1>19 DEF stdin_closed
<1>20. CASE task_ended
  BY <1>20 DEF task_ended
<1>21. CASE ctrl_c
  BY <1>21 DEF ctrl_c
<1>22. CASE Kill
  BY <1>22 DEF Kill
<1>23. CASE Reboot
  BY <1>23 DEF Reboot
<1>24. CASE UNCHANGED vars
  BY <1>24 DEF vars
<1>25. QED
  BY <1>1, <1>2, <1>3, <1>4, <1>5, <1>6, <1>7, <1>8, <1>9, <1>10, <1>11, <1>12,
     <1>13, <1>14, <1>15, <1>16, <1>17, <1>18, <1>19, <1>20, <1>21, <1>22, <1>23,
     <1>24
  DEF Next, MainStep, StdinStep, CtrlCStep, Startup

LEMMA TypeInvariant == Spec => []TypeInv
BY TypeInvInit, TypeInvStep, PTL DEF Spec

(* Every variable keeps its type, on every step of every client run.       *)
THEOREM TypeCorrect == Spec => []TypeOK
<1>1. TypeInv => TypeOK
  BY DEF TypeInv
<1>2. QED
  BY TypeInvariant, <1>1, PTL

----------------------------------------------------------------------------
(* Make before break.  No assumption on the environment: any command may   *)
(* fail, and the process may be killed or shut down at any point.          *)

(* What the steps of a switch have done by each of its labels.  While the  *)
(* process is up only the stdin task touches the routes and the file.      *)
SwitchInv ==
  /\ pc["stdin"] = "sync_delete_same" => sync.new = sync.old
  /\ Running /\ pc["stdin"] \in {"sync_open", "sync_fill", "sync_delete_old"}
       => routes[sync.new] # None
  /\ Running /\ pc["stdin"] = "sync_delete_old"
       => sync.new # sync.old /\ state_file = Entry(tap_guid, sync.new)

LEMMA SwitchInvInit == Init => SwitchInv
BY DEF Init, SwitchInv, Threads, Running

LEMMA SwitchInvStep ==
  ASSUME TypeInv, SwitchInv, [Next]_vars
  PROVE  SwitchInv'
<1> USE HostAssumption, LifecycleAssumption
<1> USE DEF TypeInv, TypeOK, HostTypeOK, ThreadsOK, ArgsOK, SwitchInv, Running, Threads,
        Cleaners, SyncLabels, CleanLabels, Alive, Goto, Die, host, process, options
<1>1. CASE residue_read \/ residue_route \/ residue_tap \/ residue_file
  BY <1>1 DEF residue_read, residue_route, residue_tap, residue_file
<1>2. CASE create_tap \/ name_tap \/ record_open \/ record_fill \/ set_ip
  BY <1>2 DEF create_tap, name_tap, record_open, record_fill, set_ip, Try
<1>3. CASE bring_up
  BY <1>3 DEF bring_up
<1>4. ASSUME NEW t \in {"main", "stdin"}, sync_tap_route(t)
      PROVE  SwitchInv'
  <2>1. CASE sync_delete_same(t)
    BY <1>4, <2>1 DEF sync_delete_same
  <2>2. CASE sync_best(t)
    BY <1>4, <2>2 DEF sync_best, Try
  <2>3. CASE sync_add(t)
    BY <1>4, <2>3 DEF sync_add, route_add_host, Try
  <2>4. CASE sync_open(t)
    BY <1>4, <2>4 DEF sync_open, Try
  <2>5. CASE sync_fill(t)
    BY <1>4, <2>5 DEF sync_fill, state_fill, Try, AfterSync
  <2>6. CASE sync_delete_old(t)
    BY <1>4, <2>6 DEF sync_delete_old, AfterSync
  <2>7. QED
    BY <1>4, <2>1, <2>2, <2>3, <2>4, <2>5, <2>6 DEF sync_tap_route
<1>5. ASSUME NEW t \in Cleaners, cleanup(t)
      PROVE  SwitchInv'
  BY <1>5 DEF cleanup, current_remote_ip, cleanup_ip, cleanup_route, cleanup_tap,
     cleanup_state
<1>6. CASE stdin_ended \/ task_ended \/ ctrl_c \/ main_returned
  BY <1>6 DEF stdin_ended, task_ended, ctrl_c, main_returned
<1>7. CASE switch_lock \/ switch_store \/ stdin_closed
  BY <1>7 DEF switch_lock, switch_store, stdin_closed
<1>8. CASE Launch
  BY <1>8 DEF Launch, NoSync
<1>9. ASSUME NEW ip \in SwitchTargets, switch(ip)
      PROVE  SwitchInv'
  BY <1>9 DEF switch
<1>10. CASE Kill
  BY <1>10 DEF Kill
<1>11. CASE Reboot
  BY <1>11 DEF Reboot
<1>12. CASE UNCHANGED vars
  BY <1>12 DEF vars
<1>13. QED
  BY <1>1, <1>2, <1>3, <1>4, <1>5, <1>6, <1>7, <1>8, <1>9, <1>10, <1>11, <1>12
  DEF Next, MainStep, StdinStep, CtrlCStep, Startup

\* While the process is up only a switch unpins a route, in two of its steps.
LEMMA UnpinnedBySwitch ==
  ASSUME TypeInv, Next, Running, NEW ip \in Pinned \ Pinned'
  PROVE  \/ sync_delete_same("stdin") /\ ip = sync.new
         \/ sync_delete_old("stdin") /\ ip = sync.old
<1> USE HostAssumption DEF TypeInv, TypeOK, HostTypeOK, ThreadsOK, Running, Pinned,
        Threads, SyncLabels, CleanLabels, Alive
<1>1. \/ sync_tap_route("stdin")
      \/ stdin_ended \/ task_ended \/ ctrl_c \/ switch_lock \/ switch_store
      \/ stdin_closed \/ Kill \/ \E a \in SwitchTargets : switch(a)
  BY DEF Next, MainStep, StdinStep, CtrlCStep, Startup, sync_tap_route, cleanup,
     residue_read, residue_route, residue_tap, residue_file, create_tap, name_tap,
     record_open, record_fill, set_ip, bring_up, sync_delete_same, sync_best, sync_add,
     sync_open, sync_fill, sync_delete_old, current_remote_ip, cleanup_ip,
     cleanup_route, cleanup_tap, cleanup_state, main_returned, Launch, Reboot
<1>2. routes[ip] # None /\ routes'[ip] = None /\ ip \in IPs
  OBVIOUS
<1>3. sync_tap_route("stdin")
  BY <1>1, <1>2 DEF stdin_ended, task_ended, ctrl_c, switch_lock, switch_store,
     stdin_closed, Kill, switch, host
<1>4. CASE sync_delete_same("stdin")
  BY <1>2, <1>4 DEF sync_delete_same, route_delete_host
<1>5. CASE sync_delete_old("stdin")
  BY <1>2, <1>5 DEF sync_delete_old, route_delete_host
<1>6. CASE sync_add("stdin")
  BY <1>2, <1>6 DEF sync_add, route_add_host
<1>7. QED
  BY <1>2, <1>3, <1>4, <1>5, <1>6 DEF sync_tap_route, sync_best, sync_open, sync_fill, host

(* A switch never takes the old peer's route away before the new peer's is *)
(* pinned and on record (sync_tap_route), whatever fails and whenever the  *)
(* process is killed or shut down.                                         *)
THEOREM OldRouteGoesLast == Spec => MakeBeforeBreak
<1> DEFINE Unpins ==
      Running => \A ip \in Pinned \ Pinned' :
        \/ ip = sync.old /\ sync.new = sync.old
        \/ sync.new \in Pinned' /\ state_file = Entry(tap_guid, sync.new)
<1>1. ASSUME TypeInv, SwitchInv, Next
      PROVE  Unpins
  <2> SUFFICES ASSUME Running, NEW ip \in Pinned \ Pinned'
               PROVE  \/ ip = sync.old /\ sync.new = sync.old
                      \/ sync.new \in Pinned' /\ state_file = Entry(tap_guid, sync.new)
    OBVIOUS
  <2>1. CASE sync_delete_same("stdin") /\ ip = sync.new
    BY <1>1, <2>1 DEF sync_delete_same, SwitchInv
  <2>2. CASE sync_delete_old("stdin") /\ ip = sync.old
    <3>1. sync.new \in IPs /\ sync.new # sync.old /\ routes[sync.new] # None
            /\ state_file = Entry(tap_guid, sync.new)
      BY <1>1, <2>2 DEF sync_delete_old, SwitchInv, TypeInv, ArgsOK, Threads, SyncLabels
    <3>2. routes'[sync.new] = routes[sync.new]
      BY <1>1, <2>2, <3>1 DEF sync_delete_old, route_delete_host, TypeInv, TypeOK,
         HostTypeOK
    <3>3. QED
      BY <3>1, <3>2 DEF Pinned
  <2>3. QED
    BY <1>1, <2>1, <2>2, UnpinnedBySwitch
<1>2. ASSUME TypeInv, SwitchInv, [Next]_vars
      PROVE  [Unpins]_vars
  BY <1>1, <1>2
<1>3. TypeInv /\ SwitchInv /\ [Next]_vars => SwitchInv'
  BY SwitchInvStep
<1>4. QED
  BY TypeInvariant, SwitchInvInit, <1>2, <1>3, PTL DEF Spec, MakeBeforeBreak

----------------------------------------------------------------------------
(* No adapter without a record.  The environment of the theorem: the       *)
(* process is not killed within TapWindow, and the commands whose failure  *)
(* leaves an adapter behind, or without its record, do not fail.  All the  *)
(* rest may: kills anywhere else, other failures, switches at shutdown.    *)

TapEnvironment ==
  /\ CrashPoints \cap TapWindow = {}
  /\ MayFail \cap {"tap_delete", "state_read", "state_write", "tap_name_from_guid"} = {}

\* Where an adapter that exists can only be this process's own.
Owning == Alive \cup SyncLabels
            \cup {"name_tap", "record_open", "record_fill", "set_ip", "bring_up"}

(* TapRecorded is not inductive: what residue_tap and create_tap find, and *)
(* what cleanup's last step may forget, has to be known before.            *)
TapInv ==
  /\ ~state_file.exists => state_file.tap_guid = None
  /\ pc["main"] \in {"residue_file", "create_tap"} => taps = {}
  /\ pc["main"] \in Owning => taps \subseteq {tap_guid}
  /\ \A t \in Cleaners : pc[t] \in {"clean_state", "returned"} => taps = {}
  /\ TapRecorded

LEMMA TapInvInit == Init => TapInv
BY HostAssumption
DEF Init, HostInit, TapInv, TapRecorded, NoFile, Threads, Cleaners, Owning,
    Alive, SyncLabels, CleanLabels

LEMMA TapInvStep ==
  ASSUME TapEnvironment, TypeInv, TapInv, [Next]_vars
  PROVE  TapInv'
<1> USE HostAssumption, LifecycleAssumption
<1> USE DEF TapEnvironment, TypeInv, TypeOK, HostTypeOK, StateFiles, ThreadsOK,
        TapInv, TapRecorded, TapWindow, In, Owning, Threads, Cleaners, Labels,
        SyncLabels, CleanLabels, Alive, Goto, Die, host, process, options
<1>1. CASE residue_read
  BY <1>1 DEF residue_read, state_remove, NoFile
<1>2. CASE residue_route
  BY <1>2 DEF residue_route
<1>3. CASE residue_tap
  BY <1>3 DEF residue_tap, tap_delete
<1>4. CASE residue_file
  BY <1>4 DEF residue_file, state_remove, NoFile
<1>5. CASE create_tap
  BY <1>5 DEF create_tap, tapctl_create
<1>6. CASE name_tap
  BY <1>6 DEF name_tap
<1>7. CASE record_open
  BY <1>7 DEF record_open, state_open, Try, Blank, Entry
<1>8. CASE record_fill
  BY <1>8 DEF record_fill, state_fill, Try, Entry
<1>9. CASE set_ip
  BY <1>9 DEF set_ip, Try
<1>10. CASE bring_up
  BY <1>10 DEF bring_up
<1>11. ASSUME NEW t \in {"main", "stdin"}, sync_tap_route(t)
       PROVE  TapInv'
  <2>1. CASE sync_delete_same(t)
    BY <1>11, <2>1 DEF sync_delete_same
  <2>2. CASE sync_best(t)
    BY <1>11, <2>2 DEF sync_best, Try
  <2>3. CASE sync_add(t)
    BY <1>11, <2>3 DEF sync_add, Try
  <2>4. CASE sync_open(t)
    BY <1>11, <2>4 DEF sync_open, state_open, Try, Blank, Entry
  <2>5. CASE sync_fill(t)
    BY <1>11, <2>5 DEF sync_fill, state_fill, Try, Entry, AfterSync
  <2>6. CASE sync_delete_old(t)
    BY <1>11, <2>6 DEF sync_delete_old, AfterSync
  <2>7. QED
    BY <1>11, <2>1, <2>2, <2>3, <2>4, <2>5, <2>6 DEF sync_tap_route
<1>12. ASSUME NEW t \in Cleaners, cleanup(t)
       PROVE  TapInv'
  <2>1. CASE current_remote_ip(t)
    BY <1>12, <2>1 DEF current_remote_ip
  <2>2. CASE cleanup_ip(t)
    BY <1>12, <2>2 DEF cleanup_ip
  <2>3. CASE cleanup_route(t)
    BY <1>12, <2>3 DEF cleanup_route
  <2>4. CASE cleanup_tap(t)
    BY <1>12, <2>4 DEF cleanup_tap, tap_delete
  <2>5. CASE cleanup_state(t)
    BY <1>12, <2>5 DEF cleanup_state, state_remove, NoFile
  <2>6. QED
    BY <1>12, <2>1, <2>2, <2>3, <2>4, <2>5 DEF cleanup
<1>13. CASE stdin_ended
  BY <1>13 DEF stdin_ended
<1>14. CASE main_returned
  BY <1>14 DEF main_returned
<1>15. CASE switch_lock
  BY <1>15 DEF switch_lock
<1>16. CASE switch_store
  BY <1>16 DEF switch_store
<1>17. CASE Launch
  BY <1>17 DEF Launch
<1>18. ASSUME NEW ip \in SwitchTargets, switch(ip)
       PROVE  TapInv'
  BY <1>18 DEF switch
<1>19. CASE stdin_closed
  BY <1>19 DEF stdin_closed
<1>20. CASE task_ended
  BY <1>20 DEF task_ended
<1>21. CASE ctrl_c
  BY <1>21 DEF ctrl_c
<1>22. CASE Kill
  BY <1>22 DEF Kill, Killable
<1>23. CASE Reboot
  BY <1>23 DEF Reboot
<1>24. CASE UNCHANGED vars
  BY <1>24 DEF vars
<1>25. QED
  BY <1>1, <1>2, <1>3, <1>4, <1>5, <1>6, <1>7, <1>8, <1>9, <1>10, <1>11, <1>12,
     <1>13, <1>14, <1>15, <1>16, <1>17, <1>18, <1>19, <1>20, <1>21, <1>22, <1>23,
     <1>24
  DEF Next, MainStep, StdinStep, CtrlCStep, Startup

(* Whatever was killed, restarted, switched or shut down, an adapter on    *)
(* the host is the one the state file names, but within TapWindow.         *)
THEOREM AdaptersRecorded ==
  ASSUME TapEnvironment PROVE Spec => []TapRecorded
<1>1. TypeInv /\ TapInv /\ [Next]_vars => TapInv'
  BY TapInvStep
<1>2. TapInv => TapRecorded
  BY DEF TapInv
<1>3. QED
  BY TypeInvariant, TapInvInit, <1>1, <1>2, PTL DEF Spec

----------------------------------------------------------------------------
(* No host route without a record.  The environment of the theorem: the    *)
(* process is neither killed within RouteWindow nor shut down during a     *)
(* switch, and deleting a route and writing the state file do not fail.    *)

RouteEnvironment ==
  /\ CrashPoints \cap RouteWindow = {}
  /\ MayFail \cap {"route_delete_host", "state_read", "state_write"} = {}
  /\ Overlap = FALSE

PinnedWithin(ips) == Pinned \subseteq ips

(* RouteRecorded is not inductive: which routes there can be at each step  *)
(* of a sync has to be known, and that the cleanup deletes the right one.  *)
RouteInv ==
  /\ ~state_file.exists => state_file.tap_guid = None
  /\ state_file.tap_guid = None => state_file.tap_route = None
  /\ pc["main"] \in Owning => tap_guid # None
  \* startup
  /\ pc["main"] \notin {"sync_delete_same", "sync_delete_old"}
  /\ pc["main"] \in {"residue_tap", "residue_file", "create_tap", "name_tap",
                     "record_open", "record_fill", "sync_best", "sync_add"}
       => PinnedWithin({})
  /\ pc["main"] \in SyncLabels => sync.old = None /\ sync.new = remote_shared
  /\ pc["main"] \in {"sync_open", "sync_fill", "set_ip", "bring_up"}
       => PinnedWithin({remote_shared})
  \* a switch
  /\ pc["stdin"] \in SyncLabels => sync.old = remote_shared
  /\ pc["stdin"] \in {"reading", "closed", "sync_delete_same", "sync_best", "sync_add"}
       => PinnedWithin({remote_shared})
  /\ pc["stdin"] \in {"sync_open", "sync_fill", "sync_delete_old"}
       => PinnedWithin({remote_shared, sync.new})
  /\ pc["stdin"] \in {"lock", "store"} => PinnedWithin({sync.new})
  /\ pc["stdin"] \in {"sync_delete_old", "lock", "store"}
       => state_file.tap_route = sync.new
  \* shutdown
  /\ pc["main"] \in Alive \ {"running"} \/ pc["ctrlc"] \in CleanLabels \cup {"clean_read"}
       => pc["stdin"] \in {"reading", "closed"}
  /\ \A t \in Cleaners :
       /\ pc[t] \in {"clean_ip", "clean_route"} => clean_ip[t] = remote_shared
       /\ pc[t] \in {"clean_tap", "clean_state", "returned"} => PinnedWithin({})
  /\ RouteRecorded

LEMMA RouteInvInit == Init => RouteInv
BY HostAssumption
DEF Init, HostInit, RouteInv, RouteRecorded, PinnedWithin, Pinned, NoFile, Threads,
    Cleaners, Owning, Alive, SyncLabels, CleanLabels

LEMMA RouteInvStep ==
  ASSUME RouteEnvironment, TypeInv, RouteInv, [Next]_vars
  PROVE  RouteInv'
<1> USE HostAssumption, LifecycleAssumption
<1> USE DEF RouteEnvironment, TypeInv, TypeOK, HostTypeOK, StateFiles, ThreadsOK,
        ArgsOK, RouteInv, RouteRecorded, RouteWindow, PinnedWithin, Pinned, In, Owning, Threads, Cleaners, Labels,
        SyncLabels, CleanLabels, Alive, Goto, Die, host, process, options
<1>1. CASE residue_read
  BY <1>1 DEF residue_read, state_remove, NoFile
<1>2. CASE residue_route
  BY <1>2 DEF residue_route, route_delete_host
<1>3. CASE residue_tap
  BY <1>3 DEF residue_tap, tap_delete
<1>4. CASE residue_file
  BY <1>4 DEF residue_file, state_remove, NoFile
<1>5. CASE create_tap
  BY <1>5 DEF create_tap, tapctl_create
<1>6. CASE name_tap
  BY <1>6 DEF name_tap
<1>7. CASE record_open
  BY <1>7 DEF record_open, state_open, Try, Blank, Entry
<1>8. CASE record_fill
  BY <1>8 DEF record_fill, state_fill, Try, Entry
<1>9. CASE set_ip
  BY <1>9 DEF set_ip, Try
<1>10. CASE bring_up
  BY <1>10 DEF bring_up
<1>11. ASSUME NEW t \in {"main", "stdin"}, sync_tap_route(t)
       PROVE  RouteInv'
  <2>1. CASE sync_delete_same(t)
    BY <1>11, <2>1 DEF sync_delete_same, route_delete_host
  <2>2. CASE sync_best(t)
    BY <1>11, <2>2 DEF sync_best, Try
  <2>3. CASE sync_add(t)
    BY <1>11, <2>3 DEF sync_add, route_add_host, Try
  <2>4. CASE sync_open(t)
    BY <1>11, <2>4 DEF sync_open, state_open, Try, Blank, Entry
  <2>5. CASE sync_fill(t)
    BY <1>11, <2>5 DEF sync_fill, state_fill, Try, Entry, AfterSync
  <2>6. CASE sync_delete_old(t)
    BY <1>11, <2>6 DEF sync_delete_old, route_delete_host, AfterSync
  <2>7. QED
    BY <1>11, <2>1, <2>2, <2>3, <2>4, <2>5, <2>6 DEF sync_tap_route
<1>12. ASSUME NEW t \in Cleaners, cleanup(t)
       PROVE  RouteInv'
  <2>1. CASE current_remote_ip(t)
    BY <1>12, <2>1 DEF current_remote_ip
  <2>2. CASE cleanup_ip(t)
    BY <1>12, <2>2 DEF cleanup_ip
  <2>3. CASE cleanup_route(t)
    BY <1>12, <2>3 DEF cleanup_route, route_delete_host
  <2>4. CASE cleanup_tap(t)
    BY <1>12, <2>4 DEF cleanup_tap, tap_delete
  <2>5. CASE cleanup_state(t)
    BY <1>12, <2>5 DEF cleanup_state, state_remove, NoFile
  <2>6. QED
    BY <1>12, <2>1, <2>2, <2>3, <2>4, <2>5 DEF cleanup
<1>13. CASE stdin_ended
  BY <1>13 DEF stdin_ended
<1>14. CASE main_returned
  BY <1>14 DEF main_returned
<1>15. CASE switch_lock
  BY <1>15 DEF switch_lock
<1>16. CASE switch_store
  BY <1>16 DEF switch_store
<1>17. CASE Launch
  BY <1>17 DEF Launch
<1>18. ASSUME NEW ip \in SwitchTargets, switch(ip)
       PROVE  RouteInv'
  BY <1>18 DEF switch, ShuttingDown
<1>19. CASE stdin_closed
  BY <1>19 DEF stdin_closed
<1>20. CASE task_ended
  BY <1>20 DEF task_ended, CanShutDown
<1>21. CASE ctrl_c
  BY <1>21 DEF ctrl_c, CanShutDown
<1>22. CASE Kill
  BY <1>22 DEF Kill, Killable
<1>23. CASE Reboot
  BY <1>23 DEF Reboot
<1>24. CASE UNCHANGED vars
  BY <1>24 DEF vars
<1>25. QED
  BY <1>1, <1>2, <1>3, <1>4, <1>5, <1>6, <1>7, <1>8, <1>9, <1>10, <1>11, <1>12,
     <1>13, <1>14, <1>15, <1>16, <1>17, <1>18, <1>19, <1>20, <1>21, <1>22, <1>23,
     <1>24
  DEF Next, MainStep, StdinStep, CtrlCStep, Startup

(* Whatever was killed, restarted, switched or failed, a host route on the *)
(* host is the one the state file names, but within RouteWindow.           *)
THEOREM RoutesRecorded ==
  ASSUME RouteEnvironment PROVE Spec => []RouteRecorded
<1>1. TypeInv /\ RouteInv /\ [Next]_vars => RouteInv'
  BY RouteInvStep
<1>2. RouteInv => RouteRecorded
  BY DEF RouteInv
<1>3. QED
  BY TypeInvariant, RouteInvInit, <1>1, <1>2, PTL DEF Spec

----------------------------------------------------------------------------
(* A clean exit is clean.  The environments of both theorems above, and    *)
(* deleting the state file does not fail.                                  *)

ExitEnvironment ==
  TapEnvironment /\ RouteEnvironment /\ "state_remove" \notin MayFail

\* From the end of its cleanup on, the main task leaves no state file behind.
ExitInv ==
  /\ pc["main"] = "returned" => state_file = NoFile
  /\ exit_status # "none" => pc["main"] = "down"
  /\ CleanExitLeavesNothing

LEMMA ExitInvInit == Init => ExitInv
BY DEF Init, ExitInv, CleanExitLeavesNothing, Threads

LEMMA ExitInvStep ==
  ASSUME ExitEnvironment, TypeInv, TapInv, RouteInv, ExitInv, [Next]_vars
  PROVE  ExitInv'
<1> USE HostAssumption, LifecycleAssumption
<1> USE DEF ExitEnvironment, TypeInv, ThreadsOK, ExitInv, CleanExitLeavesNothing,
        Pinned, Threads, Cleaners, Labels, SyncLabels, CleanLabels, Alive, TypeOK,
        Goto, Die, host, process, options
<1>1. CASE residue_read
  BY <1>1 DEF residue_read, state_remove
<1>2. CASE residue_route
  BY <1>2 DEF residue_route
<1>3. CASE residue_tap
  BY <1>3 DEF residue_tap
<1>4. CASE residue_file
  BY <1>4 DEF residue_file, state_remove
<1>5. CASE create_tap
  BY <1>5 DEF create_tap
<1>6. CASE name_tap
  BY <1>6 DEF name_tap
<1>7. CASE record_open
  BY <1>7 DEF record_open, Try, Blank
<1>8. CASE record_fill
  BY <1>8 DEF record_fill, Try
<1>9. CASE set_ip
  BY <1>9 DEF set_ip, Try
<1>10. CASE bring_up
  BY <1>10 DEF bring_up
<1>11. ASSUME NEW t \in {"main", "stdin"}, sync_tap_route(t)
       PROVE  ExitInv'
  <2>0. pc[t] \in SyncLabels => pc["main"] # "returned"
    BY <1>11 DEF RouteInv
  <2>1. CASE sync_delete_same(t)
    BY <1>11, <2>1 DEF sync_delete_same
  <2>2. CASE sync_best(t)
    BY <1>11, <2>2 DEF sync_best, Try
  <2>3. CASE sync_add(t)
    BY <1>11, <2>3 DEF sync_add, Try
  <2>4. CASE sync_open(t)
    BY <1>11, <2>0, <2>4 DEF sync_open, Try
  <2>5. CASE sync_fill(t)
    BY <1>11, <2>0, <2>5 DEF sync_fill, Try, AfterSync
  <2>6. CASE sync_delete_old(t)
    BY <1>11, <2>6 DEF sync_delete_old, AfterSync
  <2>7. QED
    BY <1>11, <2>1, <2>2, <2>3, <2>4, <2>5, <2>6 DEF sync_tap_route
<1>12. ASSUME NEW t \in Cleaners, cleanup(t)
       PROVE  ExitInv'
  <2>1. CASE current_remote_ip(t)
    BY <1>12, <2>1 DEF current_remote_ip
  <2>2. CASE cleanup_ip(t)
    BY <1>12, <2>2 DEF cleanup_ip
  <2>3. CASE cleanup_route(t)
    BY <1>12, <2>3 DEF cleanup_route
  <2>4. CASE cleanup_tap(t)
    BY <1>12, <2>4 DEF cleanup_tap
  <2>5. CASE cleanup_state(t)
    <3>1. taps' = {} /\ Pinned' = {}
      BY <1>12, <2>5 DEF cleanup_state, TapInv, RouteInv, PinnedWithin
    <3>2. state_file' = NoFile
      BY <2>5 DEF cleanup_state, state_remove
    <3>3. QED
      BY <1>12, <2>5, <3>1, <3>2 DEF cleanup_state
  <2>6. QED
    BY <1>12, <2>1, <2>2, <2>3, <2>4, <2>5 DEF cleanup
<1>13. CASE stdin_ended
  BY <1>13 DEF stdin_ended
<1>14. CASE main_returned
  <2>1. taps' = {} /\ Pinned' = {} /\ state_file' = NoFile
    BY <1>14 DEF main_returned, TapInv, RouteInv, PinnedWithin
  <2>2. QED
    BY <1>14, <2>1 DEF main_returned
<1>15. CASE switch_lock
  BY <1>15 DEF switch_lock
<1>16. CASE switch_store
  BY <1>16 DEF switch_store
<1>17. CASE Launch
  BY <1>17 DEF Launch
<1>18. ASSUME NEW ip \in SwitchTargets, switch(ip)
       PROVE  ExitInv'
  BY <1>18 DEF switch
<1>19. CASE stdin_closed
  BY <1>19 DEF stdin_closed
<1>20. CASE task_ended
  BY <1>20 DEF task_ended
<1>21. CASE ctrl_c
  BY <1>21 DEF ctrl_c
<1>22. CASE Kill
  BY <1>22 DEF Kill, Killable
<1>23. CASE Reboot
  BY <1>23 DEF Reboot
<1>24. CASE UNCHANGED vars
  BY <1>24 DEF vars
<1>25. QED
  BY <1>1, <1>2, <1>3, <1>4, <1>5, <1>6, <1>7, <1>8, <1>9, <1>10, <1>11, <1>12,
     <1>13, <1>14, <1>15, <1>16, <1>17, <1>18, <1>19, <1>20, <1>21, <1>22, <1>23,
     <1>24
  DEF Next, MainStep, StdinStep, CtrlCStep, Startup

(* A process that exits with status 0 leaves no adapter, no host route and *)
(* no state file, of its own or of any process before it.                  *)
THEOREM CleanExits ==
  ASSUME ExitEnvironment PROVE Spec => []CleanExitLeavesNothing
<1>1. TypeInv /\ TapInv /\ [Next]_vars => TapInv'
  BY TapInvStep DEF ExitEnvironment
<1>2. TypeInv /\ RouteInv /\ [Next]_vars => RouteInv'
  BY RouteInvStep DEF ExitEnvironment
<1>3. TypeInv /\ TapInv /\ RouteInv /\ ExitInv /\ [Next]_vars => ExitInv'
  BY ExitInvStep
<1>4. ExitInv => CleanExitLeavesNothing
  BY DEF ExitInv
<1>5. QED
  BY TypeInvariant, TapInvInit, RouteInvInit, ExitInvInit, <1>1, <1>2, <1>3, <1>4,
     PTL DEF Spec

----------------------------------------------------------------------------
(* The host's ledger.  In the environment of CleanExits, every step of the *)
(* client is one of HostLedger's, or leaves the ledger alone.              *)

\* Between the removal of the residue and the end of the process.
Working(label) == label \notin Residue \cup {"down"}

LEMMA LedgerReleases ==
  ASSUME Working(pc["main"]), Working(pc'["main"]), UNCHANGED state_file,
         taps' \subseteq taps, Pinned' \subseteq Pinned
  PROVE  ledger!Release
<1>1. Held' \subseteq Held
  BY DEF Held
<1>2. QED
  BY <1>1 DEF ledger!Release, Working, Recorded

LEMMA LedgerRecords ==
  ASSUME Working(pc["main"]), Working(pc'["main"]), UNCHANGED <<taps, routes>>,
         state_file' \in StateFiles
  PROVE  ledger!Record
<1>1. Held' = Held
  BY DEF Held, Pinned
<1>2. Recorded' \subseteq Resources
  BY DEF Recorded, Resources, StateFiles
<1>3. QED
  BY <1>1, <1>2 DEF ledger!Record, Working

LEMMA AllRecorded ==
  ASSUME TypeInv, TapRecorded, RouteRecorded, ~In(TapWindow), ~In(RouteWindow)
  PROVE  Held \subseteq Recorded
<1>1. taps \subseteq {state_file.tap_guid} \ {None}
  BY HostAssumption DEF TypeInv, TypeOK, HostTypeOK, TapRecorded
<1>2. Pinned \subseteq {state_file.tap_route} \ {None}
  BY HostAssumption DEF RouteRecorded, Pinned
<1>3. QED
  BY <1>1, <1>2 DEF Held, Recorded

LEMMA LedgerStops ==
  ASSUME TypeInv, TapRecorded, RouteRecorded, ~In(TapWindow), ~In(RouteWindow),
         pc["main"] # "down", pc'["main"] = "down", exit_status' # "ok", UNCHANGED host
  PROVE  ledger!Stop
<1>1. Held' = Held /\ Recorded' = Recorded
  BY DEF host, Held, Pinned, Recorded
<1>2. pc'["main"] \notin Residue
  BY DEF Residue
<1>3. QED
  BY AllRecorded, <1>1, <1>2 DEF ledger!Stop

\* An error of start-up ends the process before any other thread is there.
LEMMA LedgerFails ==
  ASSUME TypeInv, TapInv, RouteInv, pc["main"] # "down", pc["main"] \notin Alive,
         <<"main", pc["main"]>> \notin TapWindow \cup RouteWindow,
         Die("error"), UNCHANGED host
  PROVE  ledger!Stop
<1>1. pc["stdin"] = "down" /\ pc["ctrlc"] = "down"
  BY DEF TypeInv, ThreadsOK
<1>2. ~In(TapWindow) /\ ~In(RouteWindow)
  BY <1>1 DEF In, TapWindow, RouteWindow, Threads
<1>3. pc'["main"] = "down" /\ exit_status' # "ok"
  BY DEF Die, Threads
<1>4. QED
  BY <1>2, <1>3, LedgerStops DEF TapInv, RouteInv

LEMMA LedgerEmpty == taps = {} /\ Pinned = {} => Held = {}
BY DEF Held

\* The end of a process that has cleaned up.
LEMMA LedgerFinishes ==
  ASSUME taps = {}, Pinned = {}, UNCHANGED <<taps, routes>>, state_file' = NoFile,
         pc["main"] # "down", Die("ok")
  PROVE  ledger!Finish
<1>1. Held = {} /\ Held' = {}
  BY LedgerEmpty DEF Held, Pinned
<1>2. Recorded' = {}
  BY DEF Recorded, NoFile
<1>3. pc'["main"] = "down" /\ exit_status' = "ok"
  BY DEF Die, Threads
<1>4. QED
  BY <1>1, <1>2, <1>3 DEF ledger!Finish, Residue

LEMMA LedgerAcquires ==
  ASSUME Working(pc["main"]), Working(pc'["main"]), UNCHANGED state_file,
         NEW r \in Resources, Held' = Held \cup {r}
  PROVE  \E x \in Resources : ledger!Acquire(x)
<1>1. ledger!Acquire(r)
  BY DEF ledger!Acquire, Working, Recorded
<1>2. QED
  BY <1>1

LEMMA LedgerInit == Init => ledger!InitLedger
BY DEF Init, HostInit, NoFile, ledger!InitLedger, Held, Recorded, Pinned, Residue, Threads

\* A step of a thread that neither ends the process nor is part of
\* cleanup_residue, and that leaves the adapters and routes alone or takes some.
LEMMA LedgerRuns ==
  ASSUME TypeInv', Working(pc["main"]), Working(pc'["main"]),
         \/ UNCHANGED <<taps, routes>>
         \/ UNCHANGED state_file /\ taps' \subseteq taps /\ Pinned' \subseteq Pinned
  PROVE  ledger!NextLedger
<1>1. state_file' \in StateFiles
  BY DEF TypeInv, TypeOK, HostTypeOK
<1>2. QED
  BY <1>1, LedgerReleases, LedgerRecords DEF ledger!NextLedger

\* cleanup_residue: what it leaves when it is done is nothing.
LEMMA LedgerResidue ==
  ASSUME ExitEnvironment, TypeInv, TapInv, RouteInv, TypeInv', TapInv', RouteInv',
         residue_read \/ residue_route \/ residue_tap \/ residue_file
  PROVE  ledger!NextLedger \/ UNCHANGED ledger!entries
<1> USE DEF Goto, process, Threads
<1>1. pc["main"] \in Residue /\ pc'["main"] \in Residue \cup {"create_tap"}
  BY DEF residue_read, residue_route, residue_tap, residue_file, Residue, TypeInv, TypeOK
<1>2. /\ pc["main"] # "down" /\ pc'["main"] # "down"
      /\ Recorded' \subseteq Resources
  BY <1>1 DEF Residue, TypeInv, TypeOK, HostTypeOK, StateFiles, Recorded, Resources
<1>3. CASE pc'["main"] = "create_tap"
  <2>1. taps' = {} /\ Pinned' = {}
    BY <1>3 DEF TapInv, RouteInv, PinnedWithin
  <2>2. UNCHANGED <<taps, routes>>
    BY <1>3 DEF residue_read, residue_route, residue_tap, residue_file, TypeInv, TypeOK
  <2>3. Held = {} /\ Held' = {}
    BY <2>1, <2>2, LedgerEmpty DEF Held, Pinned
  <2>4. ledger!Record
    BY <1>1, <1>2, <1>3, <2>3 DEF ledger!Record
  <2>5. QED
    BY <2>4 DEF ledger!NextLedger
<1>4. CASE pc'["main"] \in Residue
  <2>1. taps' \subseteq taps /\ Pinned' \subseteq Pinned
    BY <1>4 DEF residue_read, residue_route, residue_tap, residue_file, route_delete_host,
       tap_delete, Pinned, Residue, TypeInv, TypeOK, HostTypeOK
  <2>2. Held' \subseteq Held
    BY <2>1 DEF Held
  <2>3. UNCHANGED state_file
    BY <1>4 DEF residue_read, residue_route, residue_tap, residue_file, Residue, TypeInv,
       TypeOK
  <2>4. ledger!Release
    BY <1>1, <1>2, <1>4, <2>2, <2>3 DEF ledger!Release, Recorded
  <2>5. QED
    BY <2>4 DEF ledger!NextLedger
<1>5. QED
  BY <1>1, <1>3, <1>4

LEMMA LedgerStep ==
  ASSUME ExitEnvironment, TypeInv, TapInv, RouteInv, ExitInv,
         TypeInv', TapInv', RouteInv', [Next]_vars
  PROVE  [ledger!NextLedger]_(ledger!entries)
<1> SUFFICES ledger!NextLedger \/ UNCHANGED ledger!entries
  OBVIOUS
<1> USE HostAssumption, LifecycleAssumption
<1> USE DEF Goto, host, process, options, Threads, Cleaners
<1>0. pc \in [Threads -> Labels] /\ routes \in [IPs -> Guids \cup {Phys, None}]
  BY DEF TypeInv, TypeOK, HostTypeOK
<1>1. CASE residue_read \/ residue_route \/ residue_tap \/ residue_file
  BY <1>1, LedgerResidue
<1>2. CASE create_tap
  <2>1. ASSUME NEW g \in Guids \ taps, tapctl_create(g, TRUE), Goto("main", "name_tap")
        PROVE  ledger!NextLedger
    <3>1. Held' = Held \cup {<<"tap", g>>} /\ UNCHANGED state_file
      BY <1>2, <2>1 DEF create_tap, tapctl_create, Held, Pinned
    <3>2. <<"tap", g>> \in Resources
      BY DEF Resources
    <3>3. Working(pc["main"]) /\ Working(pc'["main"])
      BY <1>0, <1>2, <2>1 DEF create_tap, Working, Residue
    <3>4. QED
      BY <3>1, <3>2, <3>3, LedgerAcquires DEF ledger!NextLedger
  <2>2. CASE tapctl_create(None, FALSE) /\ Die("error")
    <3>1. UNCHANGED host
      BY <1>2, <2>2 DEF create_tap, tapctl_create
    <3>2. ledger!Stop
      BY <1>2, <2>2, <3>1, LedgerFails DEF create_tap, Alive, CleanLabels, TapWindow, RouteWindow
    <3>3. QED
      BY <3>2 DEF ledger!NextLedger
  <2>3. QED
    BY <1>2, <2>1, <2>2 DEF create_tap
<1>3. CASE name_tap \/ record_open \/ record_fill
  <2>1. Working(pc["main"]) /\ Working(pc'["main"])
    BY <1>0, <1>3 DEF name_tap, record_open, record_fill, Try, Working, Residue,
       ExitEnvironment, TapEnvironment, state_open, state_fill
  <2>2. UNCHANGED <<taps, routes>>
    BY <1>3 DEF name_tap, record_open, record_fill
  <2>3. QED
    BY <2>1, <2>2, LedgerRuns
<1>4. CASE set_ip \/ bring_up
  <2>1. CASE Die("error")
    <3>1. UNCHANGED host
      BY <1>4, <2>1, <1>0 DEF set_ip, tap_set_ip, bring_up, Try, Die
    <3>2. ledger!Stop
      BY <1>4, <2>1, <3>1, LedgerFails DEF set_ip, bring_up, Alive, CleanLabels,
         TapWindow, RouteWindow
    <3>3. QED
      BY <3>2 DEF ledger!NextLedger
  <2>2. CASE ~Die("error")
    <3>1. Working(pc["main"]) /\ Working(pc'["main"])
      BY <1>0, <1>4, <2>2 DEF set_ip, bring_up, Try, Working, Residue
    <3>2. UNCHANGED <<taps, routes>>
      BY <1>4 DEF set_ip, bring_up
    <3>3. QED
      BY <3>1, <3>2, LedgerRuns
  <2>3. QED
    BY <2>1, <2>2
<1>5. ASSUME NEW t \in {"main", "stdin"}, sync_tap_route(t)
      PROVE  ledger!NextLedger
  <2>1. pc[t] \in SyncLabels /\ Working(pc["main"])
    BY <1>0, <1>5 DEF sync_tap_route, sync_delete_same, sync_best, sync_add, sync_open,
       sync_fill, sync_delete_old, SyncLabels, TypeInv, ThreadsOK, Alive, CleanLabels,
       Working, Residue
  <2>2. CASE Die("error")
    <3>1. t = "main" /\ UNCHANGED host /\ pc["main"] \in {"sync_best", "sync_add"}
      BY <1>0, <1>5, <2>2 DEF sync_tap_route, sync_delete_same, sync_best, sync_add,
         sync_open, sync_fill, sync_delete_old, Try, AfterSync, Die, route_add_host, state_open,
         state_fill, ExitEnvironment, TapEnvironment
    <3>2. ledger!Stop
      BY <2>2, <3>1, LedgerFails DEF Alive, CleanLabels, TapWindow, RouteWindow
    <3>3. QED
      BY <3>2 DEF ledger!NextLedger
  <2>3. CASE ~Die("error")
    <3>1. Working(pc'["main"])
      BY <1>0, <1>5, <2>1, <2>3 DEF sync_tap_route, sync_delete_same, sync_best, sync_add,
         sync_open, sync_fill, sync_delete_old, Try, AfterSync, Working, Residue
    <3>2. CASE sync_add(t) /\ ~UNCHANGED routes
      <4>1. sync.new \in IPs /\ sync.via # None
        BY <2>1, <3>2 DEF sync_add, TypeInv, TypeOK, ArgsOK
      <4>2. routes' = [routes EXCEPT ![sync.new] = sync.via] /\ UNCHANGED <<taps, state_file>>
        BY <3>2 DEF sync_add, route_add_host
      <4>3. Pinned' = Pinned \cup {sync.new}
        BY <1>0, <4>1, <4>2 DEF Pinned
      <4>4. Held' = Held \cup {<<"route", sync.new>>}
        BY <4>2, <4>3 DEF Held
      <4>5. <<"route", sync.new>> \in Resources
        BY <4>1 DEF Resources
      <4>6. QED
        BY <2>1, <3>1, <4>2, <4>4, <4>5, LedgerAcquires DEF ledger!NextLedger
    <3>3. CASE ~(sync_add(t) /\ ~UNCHANGED routes)
      <4>1. \/ UNCHANGED <<taps, routes>>
            \/ UNCHANGED state_file /\ taps' \subseteq taps /\ Pinned' \subseteq Pinned
        BY <1>5, <3>3, <1>0 DEF sync_tap_route, sync_delete_same, sync_best, sync_add,
           sync_open, sync_fill, sync_delete_old, route_delete_host, Pinned
      <4>2. QED
        BY <2>1, <3>1, <4>1, LedgerRuns
    <3>4. QED
      BY <3>2, <3>3
  <2>4. QED
    BY <2>2, <2>3
<1>6. ASSUME NEW t \in Cleaners, cleanup(t)
      PROVE  ledger!NextLedger
  <2>1. pc[t] \in CleanLabels \cup {"clean_read"} /\ Working(pc["main"])
    BY <1>0, <1>6 DEF cleanup, current_remote_ip, cleanup_ip, cleanup_route, cleanup_tap,
       cleanup_state, CleanLabels, TypeInv, ThreadsOK, Alive, Working, Residue
  <2>2. CASE cleanup_state(t) /\ t = "ctrlc"
    <3>1. taps = {} /\ Pinned = {} /\ UNCHANGED <<taps, routes>> /\ state_file' = NoFile
      BY <2>2 DEF cleanup_state, state_remove, TapInv, RouteInv, PinnedWithin,
         ExitEnvironment
    <3>2. Die("ok") /\ pc["main"] # "down"
      BY <2>1, <2>2 DEF cleanup_state, Working
    <3>3. QED
      BY <3>1, <3>2, LedgerFinishes DEF ledger!NextLedger
  <2>3. CASE ~(cleanup_state(t) /\ t = "ctrlc")
    <3>1. Working(pc'["main"])
      BY <1>0, <1>6, <2>1, <2>3 DEF cleanup, current_remote_ip, cleanup_ip, cleanup_route,
         cleanup_tap, cleanup_state, Working, Residue
    <3>2. \/ UNCHANGED <<taps, routes>>
          \/ UNCHANGED state_file /\ taps' \subseteq taps /\ Pinned' \subseteq Pinned
      BY <1>0, <1>6 DEF cleanup, current_remote_ip, cleanup_ip, cleanup_route,
         cleanup_tap, cleanup_state, route_delete_host, tap_delete, Pinned
    <3>3. QED
      BY <2>1, <3>1, <3>2, LedgerRuns
  <2>4. QED
    BY <2>2, <2>3
<1>7. CASE main_returned
  <2>1. taps = {} /\ Pinned = {} /\ UNCHANGED <<taps, routes>> /\ state_file' = NoFile
    BY <1>7 DEF main_returned, TapInv, RouteInv, ExitInv, PinnedWithin
  <2>2. Die("ok") /\ pc["main"] # "down"
    BY <1>7 DEF main_returned
  <2>3. QED
    BY <2>1, <2>2, LedgerFinishes DEF ledger!NextLedger
<1>8. ASSUME \/ stdin_ended \/ switch_lock \/ switch_store \/ stdin_closed \/ task_ended
             \/ ctrl_c \/ \E ip \in SwitchTargets : switch(ip)
      PROVE  ledger!NextLedger
  <2>1. UNCHANGED host
    BY <1>8 DEF stdin_ended, switch_lock, switch_store, stdin_closed, task_ended, ctrl_c,
       switch
  <2>2. Working(pc["main"]) /\ Working(pc'["main"])
    BY <1>0, <1>8 DEF stdin_ended, switch_lock, switch_store, stdin_closed, task_ended,
       ctrl_c, switch, TypeInv, ThreadsOK, Alive, CleanLabels, Working, Residue
  <2>3. QED
    BY <2>1, <2>2, LedgerRuns
<1>9. CASE Launch
  <2>1. ledger!Start
    BY <1>0, <1>9 DEF Launch, ledger!Start, Residue, Held, Pinned, Recorded
  <2>2. QED
    BY <2>1 DEF ledger!NextLedger
<1>10. CASE Kill
  <2>1. ~In(TapWindow) /\ ~In(RouteWindow)
    BY <1>10 DEF Kill, Killable, In, TapWindow, RouteWindow, ExitEnvironment,
       TapEnvironment, RouteEnvironment
  <2>2. ledger!Stop
    BY <1>10, <2>1, LedgerStops DEF Kill, Die, TapInv, RouteInv
  <2>3. QED
    BY <2>2 DEF ledger!NextLedger
<1>11. CASE Reboot
  <2>1. Held' \subseteq Held
    BY <1>11 DEF Reboot, Held, Pinned
  <2>2. ledger!Lose
    BY <1>11, <2>1 DEF Reboot, ledger!Lose, Residue, Recorded
  <2>3. QED
    BY <2>2 DEF ledger!NextLedger
<1>12. CASE UNCHANGED vars
  BY <1>12 DEF vars, ledger!entries, Held, Pinned, Recorded
<1>13. QED
  BY <1>1, <1>2, <1>3, <1>4, <1>5, <1>6, <1>7, <1>8, <1>9, <1>10, <1>11, <1>12
  DEF Next, MainStep, StdinStep, CtrlCStep, Startup

(* However a process ends, what it leaves on the host is in its state file; *)
(* the next one releases that before it acquires anything; and one that    *)
(* exits with status 0 leaves nothing (state.rs, client.rs), for any       *)
(* adapters and peers and any number of kills, errors, switches and starts.*)
THEOREM LedgerKept ==
  ASSUME ExitEnvironment PROVE Spec => KeepsLedger
<1>1. TypeInv /\ TapInv /\ [Next]_vars => TapInv'
  BY TapInvStep DEF ExitEnvironment
<1>2. TypeInv /\ RouteInv /\ [Next]_vars => RouteInv'
  BY RouteInvStep DEF ExitEnvironment
<1>3. TypeInv /\ TapInv /\ RouteInv /\ ExitInv /\ [Next]_vars => ExitInv'
  BY ExitInvStep
<1>4. TypeInv /\ TapInv /\ RouteInv /\ ExitInv /\ TypeInv' /\ TapInv' /\ RouteInv'
        /\ [Next]_vars => [ledger!NextLedger]_(ledger!entries)
  BY LedgerStep
<1>5. QED
  BY TypeInvariant, TapInvInit, RouteInvInit, ExitInvInit, LedgerInit,
     <1>1, <1>2, <1>3, <1>4, PTL DEF Spec, KeepsLedger, ledger!LedgerSpec
=============================================================================
