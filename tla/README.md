# L2Portal in TLA+

L2Portal bridges two Ethernet segments over UDP. On the *server* side it captures
and injects frames on a physical NIC (Npcap); on the *client* side it creates a
TAP adapter and reads and writes frames there. This directory holds TLA+ modules
of the program, the TLC runs that check them, and TLAPS proofs of the main results.

Paths below are relative to the repository's root; `client.rs` is `src/client.rs`, "design" is
`docs/design/L2Portal-design.md`. In `PROJECT.json` the repository's root is `src/`.

## 1. Inventory

| Part | State it keeps | Operations | Interacts with | Hard because |
|---|---|---|---|---|
| Wrappers `tap.rs`, `routing.rs`, `state.rs` | on the host: TAP adapters, their address, /32 routes, `%APPDATA%\L2Portal\state` | `tap_create/delete/set_ip/clear_ip`, `get_best_route`, `route_add/delete_host`, `state_write/remove`, `cleanup_residue` | external programs: tapctl, netsh, route, GetBestRoute2 | the state outlives the process; each command may fail, some failures are swallowed; `fs::write` is not atomic |
| Client lifecycle (`client.rs` `run`, `sync_tap_route`, `cleanup`) | adapter GUID, shared peer address (`RwLock`), tasks | start-up, `switch <IP:PORT>`, Ctrl+C, normal exit | calls the wrappers from three threads | kills between any two commands, start-up errors, switch racing cleanup, two cleaners, a second client |
| Client data plane (`client.rs` TAP threads, UDP tasks) | two channels of 256 frames, the peer marked unreachable | TAP read → UDP send, UDP receive → TAP write | lifecycle (shared address), the network | two OS threads `select!` does not watch, a mark three tasks write, the peer switched under frames and resets |
| Server data plane (`server.rs`) | two channels of 256 frames, the unreachable flag | capture → UDP send, UDP receive → inject | the network, Npcap | as above; a capture loop if the filter is missing |
| Tunnel | datagrams under way | | both data planes | UDP loses, duplicates, reorders; the server stops and comes back |
| Command line, dispatch (`main.rs`, `cli.rs`) | none | argument parsing, address resolution, capture filter | server, client | same-NIC detection decides whether frames loop |
| Interfaces (`iface.rs`) | none | listing, `resolve_iface`, injection probe | Windows, Npcap | two sources of names; index 0; text columns |
| `pcap.rs`, `logger.rs` | none | `pcap_init`; log format | | |
| Installer (`installer/`, `build.rs`) | PATH | `NeedsAddPath`, `RemoveFromPath` | registry | not modelled |

What makes each part correct:

* **Host state.** No adapter or route without a record in the state file, or only
  at points that are known; a clean exit leaves nothing; a restart finds and
  removes what a kill left.
* **Lifecycle.** The underlay never enters the TAP; a switch takes effect; the
  pinned route is the current peer's; Ctrl+C ends the process.
* **Data planes.** Frames cross in order and once, none lost in a channel; what is
  sent after a switch goes to the new peer; each outage is reported; a dead thread
  brings the process down.
* **Tunnel.** Both ends together add no disorder, loss or deadlock of their own.
* **Dispatch.** The capture filter is there exactly when capture and underlay share
  a NIC; an index `--list` shows, other than 0, selects its row as `--if`.

`PROJECT.json` lists the hazards one by one, with their lines and the properties
that cover them.

## 2. Modules

| Module | Contents |
|---|---|
| `HostResources` | what lives on the host, and one operator per external command |
| `ClientLifecycle` | client mode: three threads, one action per external command, kills and reboots |
| `ClientProperties`, `MCClient` | what client mode promises, and what the repository says of it that is not so; values for the constants of its runs |
| `HostLedger` | abstract: resources acquired on the host, what earlier processes left of them, and the record of them |
| `TwoClients` | two instances of `ClientLifecycle` over one host |
| `FrameWire` | abstract: a bounded wire that keeps order, duplicates nothing and loses only at its end; the proof that it delivers in order and once |
| `ClientData`, `ClientDataProperties` | the client's TAP threads, UDP tasks, channels and switches; its promises and its two refinements of `FrameWire` |
| `ServerTunnel`, `ServerProperties` | server mode: capture filter, two threads, two tasks, two channels, the unreachable flag; its promises and its two refinements of `FrameWire` |
| `Tunnel`, `TunnelProperties` | `ServerTunnel` and `ClientData` over a network with faults |
| `StartUp`, `MCStartUp` | the command line, the interface tables, the selection of the device, the filter and the arguments of the client |
| `ClientLifecycle_proofs`, `ClientUnderlay_proofs`, `ClientData_proofs`, `ServerTunnel_proofs`, `Tunnel_proofs`, `StartUp_proofs` | inductive invariants and theorems |
| `FrameSequences` | `Numbers` of frames, `Increasing`, `UpTo`, and lemmas on the sequences the data planes use |

### HostResources

`taps`, `tap_static` (the adapters with the configured IP/prefix), `routes` (per
peer, the interface of its host route) and `state_file` (its two fields, or none).
A command whose error the caller sees has a parameter `ok`; a command whose error
is only logged does not. `MayFail` names the commands that may fail. A command
also fails where Windows refuses it: a second route for an address that has one,
an address on an adapter that is gone.

`get_best_route` is external: GetBestRoute2 is used as the code relies on it, a
host route first, then the on-link prefix of a TAP that has an address (in force
as soon as the address is set, as design:338 says, and, pessimistically, also for
an adapter left over from a killed process), then the default route.

`state_write` is two steps, `state_open` (create and truncate) and `state_fill`,
because `std::fs::write` is.

### ClientLifecycle

`pc[t]` is the next command of thread `t`: `main` (start-up, the `select!`,
cleanup), `stdin` (the switch task) and `ctrlc` (the handler). Start-up is
`residue_*` (`cleanup_residue`), `create_tap`, `name_tap` (the rest of
`tap_create`), `record_*` (`state_write`), `sync_*` (`sync_tap_route`), `set_ip`,
`bring_up`. A `?` that fails in start-up ends the process with status 1 and no
cleanup; in the stdin task it drops the switch (`Try`). A switch is `switch(ip)`,
the same `sync_*` steps and the two halves of `*remote.write().await = addr`
(`switch_lock`, `switch_store`). Cleanup is `current_remote_ip` and the four steps
of `cleanup`, run by the main task when a task ends, by the handler on Ctrl+C, or
by both. `Kill` may strike between any two steps that `CrashPoints` allows;
`Launch` starts the next process on what is left; `Reboot` drops the routes.

`local_on_tap` says that `--local 0.0.0.0` was resolved, by the `Launch` step and so
before `cleanup_residue`, to the address of a left-over TAP. Such an address can be
bound only if the new adapter has been given it again (`Bindable`).

Abstracted: addresses are model values and the port is left out (a switch to the
same address is a change of port); what moves frames is one step, `bring_up`, and
one event, `task_ended` (`ClientData` has the detail).

`TwoClients` takes the module twice, with the host shared and everything else
apart. The second client starts while the first is up; the first is not
interrupted half-way through its start-up or cleanup (`Settled`), which only makes the
counterexample plainer.

### HostLedger

The abstract specification of client mode's residue, implemented by `ClientLifecycle`
(`KeepsLedger` in `ClientProperties`). The resources are the adapters and the host routes, the
record is the state file, and `inherited` is what exists while `cleanup_residue` runs. A
process stops (an error, a kill) only with all that is held on record, acquires only when
all it inherited is released, and finishes (status 0) only with nothing held; then the
record goes too. A reboot is `Lose`. In between the record may lag: that is what
`TapWindow` and `RouteWindow` are, and why `Stop` needs the environment of the run.

### ClientData

`pc[t]` is what a thread does next and `held[t]` the frame it has in hand: `read` and
`write` are the OS threads, `tx`, `rx` and `stdin` the tasks, `main` the `select!` and
what follows. Each call in the loops is an action: `tap_read`, `tap_send`
(`blocking_send`), `tx_recv` (with the read lock that chooses the destination after
the frame has left the channel), `tx_send_to`, `rx_recv_from`, `rx_blame` (the read
lock in the error branch: it is the *present* peer that is blamed), `notice` and
`rx_clear` (the two write locks on `unreachable_peer`), `rx_send`, `write_recv`,
`tap_write`. A thread whose handle cannot be opened, or whose call fails, drops its
end of the channel. `switch` and `switch_reset` are the two stores at
client.rs:287 and 290; the route of a switch is `ClientLifecycle`'s.

`told` (the peers a warning has named since the last switch began) and `strays` (frames
sent to another peer than the current one since the last switch) record the past for
two properties; no action reads them.

### ServerTunnel

Written the same way: `capture` and `inject` are the OS threads, `tx` and `rx` the
tasks, `main` the dispatch of `main.rs`, the start-up and the `select!`.
`build_capture_filter` is the closure in `main.rs` reduced to its outcome (`StartUp` has
the detail); `capture_filter` is the set of kinds of frame the BPF expression
suppresses, `{}` for `None`. When `main` has returned nothing moves: the process
exits with it.

External: the NIC (`next_packet`'s choice of frame; packets of the tunnel are on it
only if it is also the underlay's and there are some), the socket (`datagram`), and
Winsock's report of an ICMP error by a later call on the socket (`port_unreachable`;
either task may get it).

### FrameWire

The abstract specification of a direction. It is used four times, twice in
`ClientDataProperties` and twice in `ServerProperties`: `transit` is what the
thread that sends, the channel and the thread that receives hold, `delivered` what has left.
`Room` is the channel and the two hands at its ends: what does not fit waits outside
(in Npcap's, the TAP's or the socket's buffer, whose losses are not the program's).
`Lossy` is false only of the client's way to the TAP, where an error of the write ends
the thread instead of costing a frame. Frames are numbers and enter in increasing
order; that no frame stays in the wire for ever is `Moves`, a property of its own, so
that `WireSpec` is a safety property and its implementation can be proved.

### Tunnel

The two data planes as they are, joined by `to_client` and `to_server`. Delivery takes
the oldest datagram, or, as a fault, a younger one, or leaves a copy; `lose` is the
other fault. `server_stops` is Ctrl+C, `server_restarts` a new process with empty
channels (its counters go on, so that frames keep their numbers); while the server is
down, `refuse` drops a datagram and may send the client an ICMP error. `lost` collects
the frames whose loss is accounted for. Failing calls, switches and the client's
shutdown are in the modules of the ends and left out here.

### StartUp

The steps of `main.rs` `run` as actions over what the host has: `npcap`'s list of
devices, Windows' data (`adapters`) of those it knows, the route to the peer
(`egress`), which may change in between (`route_moves`). `list_interfaces`,
`resolve_iface`, `find_iface_by_pcap_name`, `fit_str`, `truncate_str` and
`prefix_to_mask` are operators. A name is its text and whether it has the case the
system gives it, since a device name is compared without case but kept as it was
typed. Text in the tables is a sequence of display widths, 1 or 2; `Widths(s)[n]` is what
its first `n` characters take. `Numeral` are the texts that
parse as `u32`; some of them are also names of interfaces. Integers are `Bits` wide in
`shift_left`, and `Pow2` is the power of two (a recursive function, since the provers
know nothing of `^`). `CommandLines` puts together the sets of command lines in which
one thing varies each: the tables, the server's `--if` and `--local`, both addresses,
`--tap`, and what is refused.

## 3. Runs

| Run | Instance | Shows |
|---|---|---|
| `client_recovery` | kills outside both windows; commands work; all switches | `CleanExitLeavesNothing`, `RouteRecorded`, `RouteAligned`, `KeepsLedger`, `StartReachesRunning`, `SwitchTakesEffect` |
| `client_adapters` | kills outside `TapWindow`; all fail but tapctl remove, name lookup, the state file's reads and writes; switches, both cleaners and kills overlap; switches to `a`, `b` | `TapRecorded`, `UnderlayOnPhys`, `ExitDeletesOwnTap`, `MakeBeforeBreak`, `CtrlCEndsProcess` |
| `client_data` | `Capacity` 1, two peers, two switches, three frames out, one in, one reset; everything may fail | `AtMostOneStray`, `FreshAfterSwitch`, `ToPeerIsWire` |
| `client_wires` | `Capacity` 1, one peer, two frames out, three in, one reset; everything may fail; no switch | `ToTapIsWire`, `NothingSticks`, `EndsTogether`, `DeadWriterNoticed` |
| `server` | `Capacity` 1, three frames each way, both NICs the same or not, lookups work; every send, capture and receive may fail | `ToPeerIsWire`, `ToNicIsWire`, `NothingSticks`, `EndsTogether`, `WarnedOncePerOutage`, `OwnNeverForwarded` |
| `tunnel` | `Capacity` 1, three frames to the client, one to the server, one fault, one stop | `InOrderOnce`, `NoneVanishes`, `GetsThrough` |
| `startup` | two NICs and the loopback device in any order, known to Windows or not, any indices and names; all command lines that decide something; columns of 4 and 3, descriptions of up to 4 characters, 4-bit addresses, one change of the route | `RowSelectsDevice`, `ColumnsFit`, `FilterOnSharedNic`, `MaskMatchesPrefix` |

`client_recovery`, `client_data`, `server` and `startup` also check the type invariant of
their module.

**Client mode.** Two GUIDs (a left-over adapter and a new one) and three peers (the
old, the new and one more), one of them, `c`, inside the TAP's prefix. Switches,
kills, restarts and reboots are not bounded: every state reachable by any number of
them is visited. More GUIDs or peers would only add copies: a switch involves two
peers, a start at most one left-over adapter outside the unsafe windows. Deadlock is checked:
after an exit a new process can be launched. `RouteRecorded` is checked with commands
that work; that it holds if they fail as well rests on the theorem `RoutesRecorded`,
whose environment lets all but route delete and the state file's reads and writes fail.

`TapWindow` and `RouteWindow` are the points at which a kill loses an adapter or a
route. They are part of the result: the passing runs and the theorems show that there
are no others. What is lost within them no run shows (see the list below).
`Overlap = FALSE` means that nobody shuts the process down during a switch.
`CleanExitLeavesNothing` and `RouteRecorded` need it (see `switch_at_exit`);
`TapRecorded`, `UnderlayOnPhys` and `ExitDeletesOwnTap` do not.

**Data planes.** Three frames fill a direction: one in each hand and one in a channel of
one, which is full then, as the channel of 256 is when its consumer is slow. A fourth
frame would wait where the third can. Two frames of the direction that has three in
`server` or `client_data` are enough in `client_wires` for a frame given up and one
after it. A second switch is needed for a return to a peer that was left; the order of
the frames across switches is checked in `client_data`, the liveness of the client's
threads with one peer only, since no wait of theirs depends on the peer.
`CHECK_DEADLOCK FALSE` in these runs: the process stops for good at exit, or has moved
all its frames.

**Tunnel.** Three frames one way fill the server's channel and hands at once; the other
way repeats the same code the other way round, so one frame there serves to have both
directions and the resets at work together. One fault and one stop already meet at
every point of a frame's way. `CHECK_DEADLOCK FALSE`: it stops when all is delivered.

**StartUp.** Every branch of the functions compares at most two devices, or a device
and the route. Names include one that is a number, one that no interface has and the
empty one; a column of 4 with characters of width 1 and 2 has all cases of fitting,
filling exactly and cutting at or within a wide character; `wide_cut` needs one
NIC and the loopback only. `MaskMatchesPrefix` covers
every prefix from 0 to `Bits`. `CHECK_DEADLOCK FALSE`: `run` ends or hands over to a mode.

**Fairness.** Client mode: weak fairness of each of the three threads. The tasks run on
tokio's multi-threaded runtime and nothing in them waits for the user except the read
of stdin and the wait for Ctrl+C, which are not part of `MainStep`, `StdinStep` and
`CtrlCStep`; neither are kills, launches, switches and the end of a data task. Data
planes: weak fairness of each thread's own steps once it has what it waits for: a UDP
send, a TAP write and an injection return, and the scheduler (OS or tokio) runs a
thread that can run. Frames, datagrams, errors, switches and Ctrl+C are not fair. Tunnel: weak
fairness of each end and of delivery; a datagram that is not lost arrives. A server that
has stopped need not be started again: what the client sends then is refused.

### What the repository says and the code does not do

| Run | Statement | Behaviour |
|---|---|---|
| `switch_at_exit` | design:485, routes and TAP are cleaned up on exit | Ctrl+C while a switch has added its route leaves that route, unrecorded |
| `port_switch` | design:338, the host route keeps the underlay out of the TAP | a switch of the port alone deletes the route first and looks a peer inside the TAP's prefix up with the TAP configured |
| `stale_local` | main.rs:156, `0.0.0.0` is resolved to the actual outbound interface address | resolved before the residue is removed: the address of a left-over TAP is taken, and bound when the new TAP gets it again |
| `wide_cut` | iface.rs:172, `fit_str` gives exactly `col_width` columns, the remainder after a cut padded; iface.rs:65, CJK characters align | a name cut where a wide character lies across the cut is one column short (iface.rs:182 does not pad), and what follows is out of line |
| `second_client` | state.rs:8, an existing state file is a crash residue | it may be a running client's, whose adapter and route are then deleted |

Met while modelling, and without a run of their own:

* Killed between tapctl create (client.rs:60) and `state_write` (client.rs:73), the
  client leaves an adapter no restart finds, and killed between `route add`
  (client.rs:353) and `state_write` (client.rs:355) a route no restart finds (both
  against design:479). So does a `tap_create` that fails after tapctl has succeeded
  (tap.rs:58).
* An error during start-up returns without cleanup (client.rs:73–107, against client.rs:3);
  the next start removes what is left.
* The route is added and recorded without an IP/prefix too (client.rs:78, against
  state.rs:6).
* A failed switch to another port of the same peer leaves no route at all
  (client.rs:347 against the comment at client.rs:345).
* A switch away from a peer inside the TAP's prefix deletes its route before the
  shared address changes (client.rs:356 and 287): a frame in between goes into the
  TAP (against design:241).
* A datagram from any host clears the server's flag (server.rs:226, against
  server.rs:170), and the client's mark.
* When an interface index cannot be had on a shared NIC, the server starts without its
  filter (main.rs:210, against server.rs:99).
* The mark of the client is not reset by a successful send ("successful I/O",
  client.rs:116); a late reset after a switch marks the new peer, whose own first
  error is then not reported (client.rs:147 against 288–289).
* The `?` of the probe table (iface.rs:121) is never printed; `--if 0` selects the first
  device Windows has no data of (all are listed with 0, against design:192), and
  `--if ""` the first without a name.

## 4. Proofs

Every invariant, action property and refinement a passing run checks is a theorem for all values of
the constants. The constants are arbitrary, but for the assumptions of the modules and, in
client mode, an *environment*: a constant-level assumption of the theorem, the same
the runs make with `CrashPoints`, `MayFail` and `Overlap`. Each step lemma has one step
per action of `Next`.

The modules' assumptions: `HostAssumption`, `LifecycleAssumption`, `DataAssumption` and
`TunnelAssumption` type the bounds; `BoundsAssumption` does so for the tunnel, whose
instances of the two ends have theirs proved from it. `StartUpAssumption` says that there
are finitely many devices, that an index Windows hands out is not 0, that columns and
addresses are not empty, and that no device's name (`\Device\NPF_...`) parses as a number.

| Theorem | Property | Environment | Inductive invariant |
|---|---|---|---|
| `TypeCorrect` | `ClientLifecycle` `TypeOK` | none | `TypeInv`: which labels each thread reaches; `sync_tap_route` has an address to work on, without which `routes[sync.new]` has no type |
| `AdaptersRecorded` | `TapRecorded` | `TapEnvironment` | `TapInv`: no adapter between `cleanup_residue` and `create_tap`; a process that owns one owns the only one; none once a cleaner is about to remove the state file, which makes the two cleaners harmless to each other |
| `RoutesRecorded` | `RouteRecorded` | `RouteEnvironment` | `RouteInv`: which routes there can be at each step of a sync, and that a cleaner has read the address whose route exists; here `Overlap = FALSE` is needed |
| `OldRouteGoesLast` | `MakeBeforeBreak` | none | `SwitchInv`: from `sync_open` on the new peer's route is there, at `sync_delete_old` the state file names it; holds while the process is up, since the cleaners, and they alone, touch both beside a switch |
| `CleanExits` | `CleanExitLeavesNothing` | `ExitEnvironment` (both) | the three above and `ExitInv` |
| `LedgerKept` | `KeepsLedger` | `ExitEnvironment` | the same: outside the windows all that is held is on record, so every end of a process is a `Stop` or a `Finish`; between `cleanup_residue` and `create_tap` nothing is held, so nothing is acquired while anything is inherited |
| `OwnTapDeleted` | `ExitDeletesOwnTap` | tapctl remove works; all else fails and overlaps | `OwnTapInv`: behind its own tapctl remove a cleaner's process has no adapter |
| `UnderlayStaysOnPhys` | `UnderlayOnPhys` | `UnderlayEnvironment`: `TapEnvironment`, switches outside the prefix | `UnderlayInv`: no route leads into a TAP, and a peer inside the prefix a process was started with stays pinned (`Pinning`) |
| `RoutesAligned` | `RouteAligned` | `AlignEnvironment`: both, and lookups and `route add` work | `AlignInv`: which routes there are at least, and that `route add` finds nothing in its way |
| `DataTypeCorrect` | `ClientData` `TypeOK` | none | `ControlInv`, `HandInv`, `CountInv`, and which frames are where (`SendInv`, `RecvInv`) |
| `MarksAreFresh` | `FreshAfterSwitch` | none | `ControlInv` and `HandInv`: who is about to note a reset knows whom to blame |
| `OneStray` | `AtMostOneStray` | none | `StrayInv`: one stray at most so far, and none if one is still in hand |
| `ServerTypeCorrect` | `ServerTunnel` `TypeOK` | none | `ControlInv`; `IdleInv`: a thread has a frame only while it is about to hand it on; `SendInv`, `RecvInv`: frames sent, held and queued are no more than captured; `WarnInv`, `ClearInv`: warnings no more than resets, resets no more than frames sent, lines "reachable" no more than datagrams |
| `WarnsOnce` | `WarnedOncePerOutage` | none | `FlagInv`: every step that touches the flag is one swap |
| `WireKeepsOrder` | `InOrder` of `FrameWire` | none | what has been delivered, followed by what is in transit, is increasing |
| `ServerSendsInOrder`, `ServerInjectsInOrder` | `ToPeerIsWire`, `ToNicIsWire` of `ServerProperties` | none | `WireInv`: `ControlInv`, `IdleInv`, `SendInv`, `RecvInv`, and that the frames on their way and delivered are not beyond the last captured, or taken from the socket (`FreshSent`, `FreshRecv`), which holds the latest arrivals in a row (`SocketInv`) |
| `ClientSendsInOrder`, `ClientWritesInOrder` | `ToPeerIsWire`, `ToTapIsWire` of `ClientDataProperties` | none | the client's `WireInv`, alike |
| `ServerKeepsOrder`, `ClientKeepsOrder` | `InOrder` of the four wires | none | by the refinements and `WireKeepsOrder` |
| `ClientRuns` | `Tunnel` implements `ClientData` | none | each step is one of the client's or leaves it alone |
| `TunnelKeepsOrder` | `InOrderOnce` | none | `ServerSide`, `ClientSide`: `WireInv` and order at either end; `NetworkInv`: between the ends (`Way`) |
| `TunnelLosesNone` | `NoneVanishes` | none | `AccountInv`: each frame taken is held, sent or lost (`TakenInv`), each one sent is under way, arrived or lost (`SentInv`), each arrival is held, let go or lost (`ArrivedInv`); a server that has stopped holds nothing that is not lost, and one that runs has all its threads (`StopInv`) |
| `StartUpTypeOK` | `StartUp` `TypeOK` | none | `IInv`: the host is as it was, `ifaces` has the row of each device in npcap's order (`RowsOf`), and which of the results exist at which step (`Shows`, `OnItsWay`, `FilterBuilt`, `MaskSet`) |
| `RowsSelectDevices` | `RowSelectsDevice` | none | `IInv`; the indices of different devices differ |
| `ShortOnlyAtWideCut` | `ColumnsFit` | none | `IInv`; the longest prefix that fits falls short of the budget, by one column, exactly if a wide character lies across it (`WidthOfCut`) |
| `SharedNicIsFiltered` | `FilterOnSharedNic` | none | `IInv`; the row found by a name, in any case, is the row `--if` selected |
| `MaskIsThePrefix` | `MaskMatchesPrefix` | none | `IInv`; `Mask`: what is left of a shifted mask modulo `Pow2[Bits]` |
| `NoLoop` | `OwnNeverForwarded` | the lookups work (`~LookupsFail`) | `FilterOn`: the filter is in place before anything is captured; `OnlyLan`: all that is held on the way to the peer is LAN traffic |

**Refinement of `FrameWire`.** One wire is held by three parts of an end: the hand of the
thread that receives, the channel and the hand of the thread that sends. Taking a frame
(`next_packet`, `tap_read`, `rx_recv_from`) is `Enter`, its call at the other end
`Leave`, the end of the thread there or of the process `Close`; what moves a frame from hand to
channel or back leaves the concatenation of the three as it was and is a stutter. That
the new frame is beyond all others is where the numbering comes in, and that a wire never
holds more than `Room` is where a thread's hand has to be empty before it takes
(`IdleInv`). `FrameWire`'s lemmas `Enters`, `Leaves` and `Closes` are shared by the four
refinements.

**The tunnel.** `ServerTunnel` itself is not implemented by the server in the tunnel,
since it stops and starts again; but its invariants, and the order of all it has sent and
injected so far, survive a stop and a new start (`RestartKeepsServer`). As long as
nothing was duplicated or overtaken, what has reached an end and is under way to it is in the
order in which it was sent (`Way`), a loss takes one out of the middle, and the end keeps the
order of its arrivals; so the orders of the ends and of the network compose to
`InOrderOnce`. `NoneVanishes` needs no order: every step of an end takes a frame from one
place and puts it into the next, or into `lost` (`ServerWorks`, `ClientWorks`), and so does
the network (`NumbersInTaken`). What makes it inductive across a stop is `StopInv`: the new
process starts with nothing in hand, so all the old one held has to be on the account.

**Start-up.** `Widths` and `Pow2` are recursive functions. The library's theorems on
recursion and induction take operators, which the provers cannot instantiate; so
`StartUp_proofs` goes back to the least element of a set of numbers (`Least`, from the
well-foundedness of `<`), and has from it induction over sets of numbers (`Induction`) and that
the function a recursion defines exists (`Recursion`): TLA+ defines it by `CHOOSE`.

Only model-checked: liveness (and ENABLED), which is beyond the prover:
`StartReachesRunning`, `SwitchTakesEffect`, `CtrlCEndsProcess`, `NothingSticks`,
`EndsTogether`, `DeadWriterNoticed` and `GetsThrough`; and the five runs that
expect a violation, which are counterexamples and nothing to prove.

## 5. Plan

Done: client lifecycle and host state, and their refinement of `HostLedger`, proved; both data planes and their refinement of
`FrameWire`, proved; the tunnel and the proofs of its order and its accounts; two clients; start-up and the
interface tables, with the proofs about them. Nothing of the plan is left.

## 6. Not modelled

* The installer, `build.ps1` and `build.rs`: packaging. The one piece with logic is an
  edit of PATH by Inno Setup's script, sequential and with no other state.
* The logger: a format.
* The contents of frames and their truncation to a snap length of 1518 bytes on capture; the
  parsing of tapctl's and PowerShell's output, whose failure is a failing command; the
  buffers of `GetAdaptersInfo` and the wide strings of aliases, reduced to their
  outcomes.
* Whether an injected frame is seen again by the capture handle of the same NIC:
  Npcap's driver decides.
