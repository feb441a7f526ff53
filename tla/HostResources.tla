--------------------------- MODULE HostResources ---------------------------
(***************************************************************************)
(* What one run of the L2Portal client leaves on the Windows host, and the *)
(* commands it changes it with: TAP adapters (tapctl, netsh), /32 host     *)
(* routes (route.exe, GetBestRoute2) and the state file in %APPDATA%.      *)
(* All of it outlives the process.  src/tap.rs, src/routing.rs and         *)
(* src/state.rs wrap the commands; one operator here is one command.       *)
(*                                                                         *)
(* An operator with a parameter ok is a command whose caller sees its      *)
(* failure; one without is a command whose failure is swallowed.           *)
(***************************************************************************)

CONSTANTS
  Guids,      \* adapter GUIDs tapctl can hand out
  IPs,        \* IPv4 addresses of the peers
  TapSubnet,  \* the peers' addresses that the TAP's own IP/prefix covers
  Phys,       \* the physical interface, the egress of the default route
  None,       \* absent: no route, no GUID, no address (0.0.0.0)
  MayFail     \* the commands that may fail in this environment

Commands == {"get_best_route", "route_add_host", "route_delete_host",
             "tap_create", "tap_name_from_guid", "tap_set_ip",
             "tap_clear_ip", "tap_delete", "state_read", "state_write",
             "state_remove", "bring_up"}

ASSUME HostAssumption ==
  /\ TapSubnet \subseteq IPs
  /\ Phys \notin Guids
  /\ None \notin Guids \cup IPs \cup {Phys}
  /\ MayFail \subseteq Commands

VARIABLES
  taps,        \* the TAP adapters that exist
  tap_static,  \* those that carry the static IP/prefix
  routes,      \* IP -> interface its host route goes through, or None
  state_file   \* %APPDATA%\L2Portal\state

host == <<taps, tap_static, routes, state_file>>

\* What the state file holds: its two fields, or nothing at all.
Entry(g, ip) == [exists |-> TRUE, tap_guid |-> g, tap_route |-> ip]
NoFile       == [exists |-> FALSE, tap_guid |-> None, tap_route |-> None]
Blank        == Entry(None, None)   \* truncated, not yet written

StateFiles   == [exists : BOOLEAN, tap_guid : Guids \cup {None},
                 tap_route : IPs \cup {None}]

HostTypeOK ==
  /\ taps \subseteq Guids
  /\ tap_static \subseteq taps
  /\ routes \in [IPs -> Guids \cup {Phys, None}]
  /\ state_file \in StateFiles

HostInit ==
  /\ taps = {} /\ tap_static = {}
  /\ routes = [ip \in IPs |-> None]
  /\ state_file = NoFile

----------------------------------------------------------------------------
\* src/routing.rs

(* The egress interfaces the routing table may answer for dest.  A host    *)
(* route wins; otherwise the on-link prefix of a TAP with a static address *)
(* beats the default route, which is why routes are pinned before tap_set_ip. *)
get_best_route(dest) ==
  IF routes[dest] # None THEN {routes[dest]}
  ELSE IF dest \in TapSubnet /\ tap_static # {} THEN tap_static
  ELSE {Phys}

(* `route add` refuses a destination that already has a host route, and an *)
(* interface that does not exist.                                          *)
route_add_host(ip, via, ok) ==
  LET possible == routes[ip] = None /\ via \in taps \cup {Phys}
  IN  \/ /\ ok /\ possible
         /\ routes' = [routes EXCEPT ![ip] = via]
      \/ /\ ~ok /\ (~possible \/ "route_add_host" \in MayFail)
         /\ UNCHANGED routes

route_delete_host(ip) ==
  \/ routes' = [i \in IPs |-> IF i = ip THEN None ELSE routes[i]]
  \/ "route_delete_host" \in MayFail /\ UNCHANGED routes

----------------------------------------------------------------------------
\* src/tap.rs

tapctl_create(g, ok) ==
  \/ ok /\ taps' = taps \cup {g}
  \/ /\ ~ok /\ ("tap_create" \in MayFail \/ taps = Guids)
     /\ UNCHANGED taps

tap_set_ip(g, ok) ==
  \/ ok /\ g \in taps /\ tap_static' = tap_static \cup {g}
  \/ ~ok /\ (g \notin taps \/ "tap_set_ip" \in MayFail) /\ UNCHANGED tap_static

tap_clear_ip(g) ==
  \/ tap_static' = tap_static \ {g}
  \/ "tap_clear_ip" \in MayFail /\ UNCHANGED tap_static

\* Mutant: the adapter goes, its address configuration stays behind.
tap_delete_keeps_ip(g) ==
  /\ taps' = taps \ {g}
  /\ routes' = [i \in IPs |-> IF routes[i] = g THEN None ELSE routes[i]]
  /\ UNCHANGED tap_static

(* Windows drops the routes of an interface together with the interface.   *)
tap_delete(g) ==
  \/ /\ taps' = taps \ {g}
     /\ tap_static' = tap_static \ {g}
     /\ routes' = [i \in IPs |-> IF routes[i] = g THEN None ELSE routes[i]]
  \/ "tap_delete" \in MayFail /\ UNCHANGED <<taps, tap_static, routes>>

----------------------------------------------------------------------------
\* src/state.rs.  std::fs::write opens and truncates the file, then writes.

state_open(ok) ==
  \/ ok /\ state_file' = Blank
  \/ ~ok /\ "state_write" \in MayFail /\ UNCHANGED state_file

state_fill(g, ip, ok) ==
  \/ ok /\ state_file' = Entry(g, ip)
  \/ ~ok /\ "state_write" \in MayFail /\ UNCHANGED state_file

state_remove ==
  \/ state_file' = NoFile
  \/ "state_remove" \in MayFail /\ UNCHANGED state_file

=============================================================================
