-------------------------- MODULE ClientProperties --------------------------
(***************************************************************************)
(* What client mode promises about the host: which residue a restart can   *)
(* still find, what a clean exit leaves behind, and where the underlay     *)
(* traffic goes.  The first group holds (under the fault assumptions its   *)
(* runs and theorems name); the last group quotes the repository and is    *)
(* refuted.                                                                *)
(***************************************************************************)
EXTENDS ClientLifecycle

\* An adapter exists that the state file does not name yet, or no longer.
TapWindow ==
  ({"main"} \X {"name_tap", "record_open", "record_fill"})
    \cup ({"main", "stdin"} \X {"sync_fill"})

\* A host route exists that the state file does not name yet, or no longer.
RouteWindow ==
  ({"main", "stdin"} \X {"sync_open", "sync_fill"})
    \cup {<<"stdin", "sync_delete_old">>}

In(window) == \E t \in Threads : <<t, pc[t]>> \in window

Running   == pc["main"] = "running" /\ pc["ctrlc"] = "waiting"
Quiescent == Running /\ pc["stdin"] \in {"reading", "closed"}
Pinned    == {ip \in IPs : routes[ip] # None}

----------------------------------------------------------------------------
(* Outside the windows every adapter on the host is the one the state file *)
(* names, whoever is running or not: a restart finds and removes it, and   *)
(* adapters never pile up.  (tap_create, state_write, cleanup_residue and  *)
(* cleanup in that order.)                                                 *)
TapRecorded == In(TapWindow) \/ \A g \in taps : state_file.tap_guid = g

(* Outside the windows every host route on the host is the one the state   *)
(* file names: a restart deletes it, so `route add` for the same peer does *)
(* not collide with it.  (sync_tap_route's add, write, delete order.)      *)
RouteRecorded ==
  In(RouteWindow) \/ \A ip \in Pinned : state_file.tap_route = ip

(* A process that ended with status 0 has left no adapter, no host route   *)
(* and no state file, whichever of the two cleaners got there first, and   *)
(* whatever earlier processes left.                                        *)
CleanExitLeavesNothing ==
  exit_status = "ok" => taps = {} /\ Pinned = {} /\ state_file = NoFile

(* Even if a switch is under way, and commands other than tapctl remove    *)
(* fail, a process that exits with status 0 has removed its own adapter.   *)
ExitDeletesOwnTap == exit_status = "ok" => tap_guid \notin taps

(* Between switches exactly one host route is pinned, the current peer's,  *)
(* and the state file names it and the adapter ("keep the underlay host    *)
(* route aligned with the current remote peer").                           *)
RouteAligned ==
  Quiescent => /\ Pinned = {remote_shared}
               /\ state_file = Entry(tap_guid, remote_shared)

(* While the process is up, a peer's host route goes only to be pinned     *)
(* anew, or once the next peer's is pinned and on record: a switch to      *)
(* another address that fails half-way, whichever command fails, leaves    *)
(* the old peer its route (the order of the calls in sync_tap_route).      *)
MakeBeforeBreak ==
  [][Running => \A ip \in Pinned \ Pinned' :
       \/ ip = sync.old /\ sync.new = sync.old
       \/ sync.new \in Pinned' /\ state_file = Entry(tap_guid, sync.new)]_vars

(* Between switches the underlay traffic to the current peer leaves by the *)
(* physical interface and never into a TAP, left over ones included.       *)
UnderlayOnPhys == Quiescent => get_best_route(remote_shared) = {Phys}

----------------------------------------------------------------------------
(* The adapters and host routes as resources, the state file as the record *)
(* of them.  What is there while cleanup_residue runs was left by earlier  *)
(* processes.                                                              *)
Resources == ({"tap"} \X Guids) \cup ({"route"} \X IPs)
Held      == ({"tap"} \X taps) \cup ({"route"} \X Pinned)
Recorded  == ({"tap"} \X ({state_file.tap_guid} \ {None}))
               \cup ({"route"} \X ({state_file.tap_route} \ {None}))
Residue   == {"residue_read", "residue_route", "residue_tap", "residue_file"}

ledger == INSTANCE HostLedger WITH
  held      <- Held,
  inherited <- IF pc["main"] \in Residue THEN Held ELSE {},
  recorded  <- Recorded,
  status    <- IF pc["main"] # "down" THEN "on"
               ELSE IF exit_status = "ok" THEN "finished" ELSE "off"

(* Whatever ends a process, what it leaves is in the state file; the next  *)
(* one removes all of it before it creates an adapter or adds a route of   *)
(* its own; and one that exits with status 0 leaves neither (state_write,  *)
(* cleanup_residue and cleanup, and the order they are called in).         *)
KeepsLedger == ledger!LedgerSpec

----------------------------------------------------------------------------
(* However the previous process ended, its residue never keeps the next    *)
(* one from starting: no `route add` collides, no command finds leftovers. *)
(* But one: the address of its TAP, if --local 0.0.0.0 was resolved to it. *)
StartReachesRunning ==
  pc["main"] = "residue_read" /\ ~local_on_tap
    ~> (pc["main"] = "running" \/ exit_status = "killed")

(* A switch that was accepted takes effect, also one back to a peer that   *)
(* was left before, unless the process is killed or shut down meanwhile.   *)
SwitchTakesEffect ==
  \A ip \in IPs :
    pc["stdin"] \in {"sync_delete_same", "sync_best"} /\ sync.new = ip
      ~> (pc["stdin"] = "reading" /\ remote_shared = ip) \/ exit_status = "killed"

(* Ctrl+C ends the process, also when the main task cleans up at the same  *)
(* time or stdin is blocked in a read.                                     *)
CtrlCEndsProcess == pc["ctrlc"] = "clean_read" ~> pc["main"] = "down"

----------------------------------------------------------------------------
(* Stated by the repository, and not so.                                   *)

(* docs/design/L2Portal-design.md:338: the pinned host route keeps the     *)
(* underlay traffic from being hijacked into the TAP.                      *)
UnderlayNeverHijacked ==
  Quiescent => get_best_route(remote_shared) \cap taps = {}

(* src/main.rs:156: --local 0.0.0.0 is resolved to the actual outbound     *)
(* interface address.                                                      *)
LocalIsOutbound ==
  Quiescent /\ get_best_route(remote_shared) = {Phys} => ~local_on_tap
=============================================================================
