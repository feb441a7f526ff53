-------------------------- MODULE ClientLifecycle --------------------------
(***************************************************************************)
(* Client mode (src/client.rs): the life of the TAP adapter, the host      *)
(* route to the peer and the state file, from `l2portal --tap` to exit,    *)
(* through kills, restarts and `switch` commands.                          *)
(*                                                                         *)
(* Three threads of one process touch them: the main task, which starts    *)
(* up and cleans up; the stdin task, which switches the peer; the Ctrl+C   *)
(* task, which cleans up and exits.  pc[t] is the next command thread t    *)
(* runs: a kill, or a step of another thread, can fall between any two.    *)
(*                                                                         *)
(* Left out: the port of the peer's address (a switch to the same IP is a  *)
(* change of port), the frames (ClientData), lines on stdin that are not a *)
(* valid IPv4 switch (they change nothing), and a second client process at *)
(* the same time (TwoClients).                                             *)
(***************************************************************************)
EXTENDS HostResources

CONSTANTS
  SwitchTargets, \* the addresses a switch line may name
  CrashPoints,   \* the <<thread, label>> at which the process may be killed
  Overlap        \* may a switch be under way while the process shuts down?

Threads  == {"main", "stdin", "ctrlc"}
Cleaners == {"main", "ctrlc"}

CleanLabels == {"clean_ip", "clean_route", "clean_tap", "clean_state"}
SyncLabels  == {"sync_delete_same", "sync_best", "sync_add", "sync_open",
                "sync_fill", "sync_delete_old"}
Labels == CleanLabels \cup SyncLabels \cup
  {"down",                                                \* no such thread
   "residue_read", "residue_route", "residue_tap", "residue_file",
   "create_tap", "name_tap", "record_open", "record_fill",
   "set_ip", "bring_up", "running",                       \* main
   "reading", "lock", "store", "closed",                  \* stdin
   "waiting",                                             \* ctrlc
   "clean_read", "returned"}                              \* the cleaners

ASSUME LifecycleAssumption ==
  /\ SwitchTargets \subseteq IPs
  /\ CrashPoints \subseteq Threads \X Labels
  /\ Overlap \in BOOLEAN

VARIABLES
  pc,             \* thread -> label
  tap_guid,       \* the adapter this process created
  remote_shared,  \* the current peer, shared by the tasks
  tap_ip_prefix,  \* was --tap given an IP/prefix?
  local_on_tap,   \* is the address to bind that of a left-over TAP?
  sync,           \* sync_tap_route: its arguments and the route it chose
  clean_ip,       \* cleaner -> the peer it read with current_remote_ip
  exit_status     \* how the last process ended, "none" while one runs

options == <<tap_ip_prefix, local_on_tap>>
process == <<tap_guid, remote_shared, options, sync, clean_ip>>
vars == <<host, pc, process, exit_status>>

TypeOK ==
  /\ HostTypeOK
  /\ pc \in [Threads -> Labels]
  /\ tap_guid \in Guids \cup {None}
  /\ remote_shared \in IPs \cup {None}
  /\ tap_ip_prefix \in BOOLEAN /\ local_on_tap \in BOOLEAN
  /\ sync \in [old : IPs \cup {None}, new : IPs \cup {None},
               via : Guids \cup {Phys}]
  /\ clean_ip \in [Cleaners -> IPs \cup {None}]
  /\ exit_status \in {"none", "ok", "error", "killed"}

NoSync == [old |-> None, new |-> None, via |-> Phys]
NoRead == [t \in Cleaners |-> None]

Init ==
  /\ HostInit
  /\ pc = [t \in Threads |-> "down"]
  /\ tap_guid = None /\ remote_shared = None
  /\ tap_ip_prefix = FALSE /\ local_on_tap = FALSE
  /\ sync = NoSync /\ clean_ip = NoRead
  /\ exit_status = "none"

----------------------------------------------------------------------------
Goto(t, label) == pc' = [pc EXCEPT ![t] = label] /\ UNCHANGED exit_status

\* The process is gone, and its threads with it; what is on the host stays.
Die(status) == pc' = [t \in Threads |-> "down"] /\ exit_status' = status

(* The `?` after a fallible call.  Startup returns the error, and main()   *)
(* exits with status 1 without any cleanup; the stdin task logs a warning  *)
(* and goes on with the next line.                                         *)
Try(t, ok, label) ==
  IF ok THEN Goto(t, label)
  ELSE IF t = "main" THEN Die("error")
  ELSE Goto(t, "reading")

----------------------------------------------------------------------------
\* Startup, on the main task.

(* `l2portal --tap` is run with a peer, with or without an IP/prefix.       *)
(* --local 0.0.0.0 becomes the address of the interface the route to the   *)
(* peer leaves by, before cleanup_residue.                                  *)
Launch ==
  /\ pc["main"] = "down"
  /\ \E ip \in IPs :
       /\ remote_shared' = ip
       /\ local_on_tap' \in {FALSE} \cup {via # Phys : via \in get_best_route(ip)}
  /\ tap_ip_prefix' \in BOOLEAN
  /\ tap_guid' = None /\ sync' = NoSync /\ clean_ip' = NoRead
  /\ pc' = [pc EXCEPT !["main"] = "residue_read"]
  /\ exit_status' = "none"
  /\ UNCHANGED host

(* cleanup_residue: without a state file, or one that cannot be read, there *)
(* is nothing to clean; a file without a GUID is deleted, and that is all. *)
residue_read ==
  /\ pc["main"] = "residue_read"
  /\ \/ /\ ~state_file.exists \/ "state_read" \in MayFail
        /\ Goto("main", "create_tap") /\ UNCHANGED state_file
     \/ /\ state_file.exists /\ state_file.tap_guid = None
        /\ state_remove /\ Goto("main", "create_tap")
     \/ /\ state_file.tap_guid # None
        /\ Goto("main", "residue_route") /\ UNCHANGED state_file
  /\ UNCHANGED <<taps, tap_static, routes, process>>

\* Mutant: the state file's route is not deleted.
residue_route_kept ==
  /\ pc["main"] = "residue_route" /\ Goto("main", "residue_tap")
  /\ UNCHANGED <<host, process>>

residue_route ==
  /\ pc["main"] = "residue_route"
  /\ IF state_file.tap_route = None THEN UNCHANGED routes
     ELSE route_delete_host(state_file.tap_route)
  /\ Goto("main", "residue_tap")
  /\ UNCHANGED <<taps, tap_static, state_file, process>>

residue_tap ==
  /\ pc["main"] = "residue_tap"
  /\ tap_delete(state_file.tap_guid)
  /\ Goto("main", "residue_file")
  /\ UNCHANGED <<state_file, process>>

residue_file ==
  /\ pc["main"] = "residue_file"
  /\ state_remove
  /\ Goto("main", "create_tap")
  /\ UNCHANGED <<taps, tap_static, routes, process>>

create_tap ==
  /\ pc["main"] = "create_tap"
  /\ \/ \E g \in Guids \ taps :
          tapctl_create(g, TRUE) /\ tap_guid' = g /\ Goto("main", "name_tap")
     \/ /\ tapctl_create(None, FALSE)
        /\ Die("error") /\ UNCHANGED tap_guid
  /\ UNCHANGED <<tap_static, routes, state_file, remote_shared, options,
                 sync, clean_ip>>

(* The rest of tap_create: parse the GUID, poll for the adapter's name, set *)
(* the MTU.  On an error the adapter stays.                                 *)
name_tap ==
  /\ pc["main"] = "name_tap"
  /\ \/ Goto("main", "record_open")
     \/ "tap_name_from_guid" \in MayFail /\ Die("error")
  /\ UNCHANGED <<host, process>>

record_open ==
  /\ pc["main"] = "record_open"
  /\ \E ok \in BOOLEAN : state_open(ok) /\ Try("main", ok, "record_fill")
  /\ UNCHANGED <<taps, tap_static, routes, process>>

record_fill ==
  /\ pc["main"] = "record_fill"
  /\ \E ok \in BOOLEAN :
       state_fill(tap_guid, None, ok) /\ Try("main", ok, "sync_best")
  /\ sync' = [sync EXCEPT !.old = None, !.new = remote_shared]
  /\ UNCHANGED <<taps, tap_static, routes, tap_guid, remote_shared,
                 options, clean_ip>>

set_ip ==
  /\ pc["main"] = "set_ip"
  /\ \E ok \in BOOLEAN : tap_set_ip(tap_guid, ok) /\ Try("main", ok, "bring_up")
  /\ UNCHANGED <<taps, routes, state_file, process>>

\* The TAP's address can be bound while some adapter carries it.
Bindable == local_on_tap => tap_static # {}

\* Open the TAP, set its status, bind the UDP socket, spawn the tasks.
bring_up ==
  /\ pc["main"] = "bring_up"
  /\ \/ /\ Bindable
        /\ pc' = [main |-> "running", stdin |-> "reading", ctrlc |-> "waiting"]
        /\ UNCHANGED exit_status
     \/ /\ ~Bindable \/ "bring_up" \in MayFail
        /\ Die("error")
  /\ UNCHANGED <<host, process>>

----------------------------------------------------------------------------
(* sync_tap_route, called by the main task at startup (old is None) and by *)
(* the stdin task on a switch.                                             *)

sync_delete_same(t) ==
  /\ pc[t] = "sync_delete_same"
  /\ route_delete_host(sync.new)
  /\ Goto(t, "sync_best")
  /\ UNCHANGED <<taps, tap_static, state_file, process>>

\* Mutant: the old peer's route is deleted first, not last.
sync_best_deletes_old(t) ==
  /\ pc[t] = "sync_best"
  /\ route_delete_host(sync.old)
  /\ \/ \E via \in get_best_route(sync.new) :
          sync' = [sync EXCEPT !.via = via] /\ Goto(t, "sync_add")
     \/ "get_best_route" \in MayFail /\ Try(t, FALSE, "sync_add") /\ UNCHANGED sync
  /\ UNCHANGED <<taps, tap_static, state_file, tap_guid, remote_shared,
                 options, clean_ip>>

sync_best(t) ==
  /\ pc[t] = "sync_best"
  /\ \/ \E via \in get_best_route(sync.new) :
          sync' = [sync EXCEPT !.via = via] /\ Goto(t, "sync_add")
     \/ "get_best_route" \in MayFail /\ Try(t, FALSE, "sync_add") /\ UNCHANGED sync
  /\ UNCHANGED <<host, tap_guid, remote_shared, options, clean_ip>>

sync_add(t) ==
  /\ pc[t] = "sync_add"
  /\ \E ok \in BOOLEAN :
       route_add_host(sync.new, sync.via, ok) /\ Try(t, ok, "sync_open")
  /\ UNCHANGED <<taps, tap_static, state_file, process>>

sync_open(t) ==
  /\ pc[t] = "sync_open"
  /\ \E ok \in BOOLEAN : state_open(ok) /\ Try(t, ok, "sync_fill")
  /\ UNCHANGED <<taps, tap_static, routes, process>>

\* Where sync_tap_route returns to when it succeeds.
AfterSync(t) ==
  IF t = "stdin" THEN "lock" ELSE IF tap_ip_prefix THEN "set_ip" ELSE "bring_up"

\* Mutants: the GUID is not written again with the route; the old peer's
\* route is never deleted.
sync_fill_no_guid(t) ==
  /\ pc[t] = "sync_fill"
  /\ \E ok \in BOOLEAN : state_fill(None, sync.new, ok) /\ Try(t, ok, AfterSync(t))
  /\ UNCHANGED <<taps, tap_static, routes, process>>

sync_fill_keeps_old(t) ==
  /\ pc[t] = "sync_fill"
  /\ \E ok \in BOOLEAN :
       state_fill(tap_guid, sync.new, ok) /\ Try(t, ok, AfterSync(t))
  /\ UNCHANGED <<taps, tap_static, routes, process>>

sync_fill(t) ==
  /\ pc[t] = "sync_fill"
  /\ \E ok \in BOOLEAN :
       /\ state_fill(tap_guid, sync.new, ok)
       /\ Try(t, ok, IF sync.old \in {None, sync.new} THEN AfterSync(t)
                     ELSE "sync_delete_old")
  /\ UNCHANGED <<taps, tap_static, routes, process>>

\* Mutant: the arguments of sync_tap_route are swapped.
sync_delete_new(t) ==
  /\ pc[t] = "sync_delete_old"
  /\ route_delete_host(sync.new) /\ Goto(t, AfterSync(t))
  /\ UNCHANGED <<taps, tap_static, state_file, process>>

sync_delete_old(t) ==
  /\ pc[t] = "sync_delete_old"
  /\ route_delete_host(sync.old)
  /\ Goto(t, AfterSync(t))
  /\ UNCHANGED <<taps, tap_static, state_file, process>>

sync_tap_route(t) ==
  sync_delete_same(t) \/ sync_best(t) \/ sync_add(t) \/ sync_open(t)
    \/ sync_fill(t) \/ sync_delete_old(t)

----------------------------------------------------------------------------
\* The stdin task.

ShuttingDown == pc["main"] # "running" \/ pc["ctrlc"] # "waiting"

\* "switch <addr>" is read.  Once main has returned, the task is dropped.
switch(ip) ==
  /\ pc["stdin"] = "reading" /\ pc["main"] # "returned"
  /\ Overlap \/ ~ShuttingDown
  /\ sync' = [sync EXCEPT !.old = remote_shared, !.new = ip]
  /\ Goto("stdin", IF ip = remote_shared THEN "sync_delete_same" ELSE "sync_best")
  /\ UNCHANGED <<host, tap_guid, remote_shared, options, clean_ip>>

\* *remote.write().await = new: the write guard is taken, then the store.
switch_lock ==
  /\ pc["stdin"] = "lock"
  /\ Goto("stdin", "store")
  /\ UNCHANGED <<host, process>>

\* Mutant: the route follows the switch, the shared address does not.
switch_store_lost ==
  /\ pc["stdin"] = "store" /\ Goto("stdin", "reading")
  /\ UNCHANGED <<host, process>>

switch_store ==
  /\ pc["stdin"] = "store"
  /\ remote_shared' = sync.new
  /\ Goto("stdin", "reading")
  /\ UNCHANGED <<host, tap_guid, options, sync, clean_ip>>

\* End of file on stdin; after main has returned, any line ends the read.
stdin_closed ==
  /\ pc["stdin"] = "reading"
  /\ Goto("stdin", "closed")
  /\ UNCHANGED <<host, process>>

----------------------------------------------------------------------------
\* Shutdown.

CanShutDown == Overlap \/ pc["stdin"] \in {"reading", "closed"}

\* select! wakes because a UDP task, or the Ctrl+C handler, has ended.
task_ended ==
  /\ pc["main"] = "running" /\ CanShutDown
  /\ Goto("main", "clean_read")
  /\ UNCHANGED <<host, process>>

\* select! wakes because the stdin task has ended.
stdin_ended ==
  /\ pc["main"] = "running" /\ pc["stdin"] = "closed"
  /\ Goto("main", "clean_read")
  /\ UNCHANGED <<host, process>>

\* Once main has returned, the task is dropped: Ctrl+C is a kill then.
ctrl_c ==
  /\ pc["ctrlc"] = "waiting" /\ pc["main"] # "returned" /\ CanShutDown
  /\ Goto("ctrlc", "clean_read")
  /\ UNCHANGED <<host, process>>

\* Mutant: without the peer's address the cleanup is given up.
current_remote_ip_or_quit(t) ==
  /\ pc[t] = "clean_read"
  /\ clean_ip' = [clean_ip EXCEPT ![t] = remote_shared]
  /\ Goto(t, IF pc["stdin"] = "store" THEN "clean_state" ELSE "clean_ip")
  /\ UNCHANGED <<host, tap_guid, remote_shared, options, sync>>

\* try_read fails while the stdin task holds the write guard: then 0.0.0.0.
current_remote_ip(t) ==
  /\ pc[t] = "clean_read"
  /\ clean_ip' = [clean_ip EXCEPT
                    ![t] = IF pc["stdin"] = "store" THEN None ELSE remote_shared]
  /\ Goto(t, "clean_ip")
  /\ UNCHANGED <<host, tap_guid, remote_shared, options, sync>>

cleanup_ip(t) ==
  /\ pc[t] = "clean_ip"
  /\ tap_clear_ip(tap_guid)
  /\ Goto(t, "clean_route")
  /\ UNCHANGED <<taps, routes, state_file, process>>

\* Mutant: the route is taken to exist only if an IP/prefix was given.
cleanup_route_if_prefix(t) ==
  /\ pc[t] = "clean_route"
  /\ IF tap_ip_prefix THEN route_delete_host(clean_ip[t]) ELSE UNCHANGED routes
  /\ Goto(t, "clean_tap")
  /\ UNCHANGED <<taps, tap_static, state_file, process>>

cleanup_route(t) ==
  /\ pc[t] = "clean_route"
  /\ route_delete_host(clean_ip[t])
  /\ Goto(t, "clean_tap")
  /\ UNCHANGED <<taps, tap_static, state_file, process>>

cleanup_tap(t) ==
  /\ pc[t] = "clean_tap"
  /\ tap_delete(tap_guid)
  /\ Goto(t, "clean_state")
  /\ UNCHANGED <<state_file, process>>

\* Mutant: the Ctrl+C task cleans up and leaves the exit to the main task.
cleanup_state_no_exit(t) ==
  /\ pc[t] = "clean_state"
  /\ state_remove /\ Goto(t, "returned")
  /\ UNCHANGED <<taps, tap_static, routes, process>>

\* The Ctrl+C task then calls exit(0); the main task returns Ok from run().
cleanup_state(t) ==
  /\ pc[t] = "clean_state"
  /\ state_remove
  /\ IF t = "ctrlc" THEN Die("ok") ELSE Goto("main", "returned")
  /\ UNCHANGED <<taps, tap_static, routes, process>>

cleanup(t) ==
  current_remote_ip(t) \/ cleanup_ip(t) \/ cleanup_route(t) \/ cleanup_tap(t)
    \/ cleanup_state(t)

(* The runtime is dropped: it waits for the blocking read of stdin, and    *)
(* for a cleanup that the Ctrl+C task is running.                          *)
main_returned ==
  /\ pc["main"] = "returned" /\ pc["stdin"] = "closed" /\ pc["ctrlc"] = "waiting"
  /\ Die("ok")
  /\ UNCHANGED <<host, process>>

----------------------------------------------------------------------------
\* The environment.

Killable == \A t \in Threads : pc[t] # "down" => <<t, pc[t]>> \in CrashPoints

\* Killed: by the task manager, a closed console, an early Ctrl+C, a crash.
Kill ==
  /\ pc["main"] # "down" /\ Killable
  /\ Die("killed")
  /\ UNCHANGED <<host, process>>

\* Routes added without -p are gone after a reboot; the rest is still there.
Reboot ==
  /\ pc["main"] = "down"
  /\ routes' = [ip \in IPs |-> None]
  /\ UNCHANGED <<taps, tap_static, state_file, pc, process, exit_status>>

Startup ==
  residue_read \/ residue_route \/ residue_tap \/ residue_file \/ create_tap
    \/ name_tap \/ record_open \/ record_fill \/ set_ip \/ bring_up

\* The steps of the program; whatever else happens is up to its users.
MainStep  == Startup \/ sync_tap_route("main") \/ stdin_ended \/ cleanup("main")
               \/ main_returned
StdinStep == sync_tap_route("stdin") \/ switch_lock \/ switch_store
CtrlCStep == cleanup("ctrlc")

Next ==
  \/ MainStep \/ StdinStep \/ CtrlCStep
  \/ Launch \/ \E ip \in SwitchTargets : switch(ip)
  \/ stdin_closed \/ task_ended \/ ctrl_c
  \/ Kill \/ Reboot

Spec == Init /\ [][Next]_vars

\* Threads that can run, do: nothing in the program waits for the user but
\* the read of stdin and the wait for Ctrl+C.
Fairness == WF_vars(MainStep) /\ WF_vars(StdinStep) /\ WF_vars(CtrlCStep)
FairSpec == Spec /\ Fairness
=============================================================================
