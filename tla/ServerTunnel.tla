---------------------------- MODULE ServerTunnel ----------------------------
(***************************************************************************)
(* Server mode (src/server.rs, and its dispatch in src/main.rs): frames    *)
(* captured on a NIC go to the peer as UDP payloads, payloads from the     *)
(* peer are injected into the NIC.                                         *)
(*                                                                         *)
(* Four threads move frames: capture and inject, OS threads that block in  *)
(* Npcap, and tx and rx, tasks on one UDP socket.  A bounded channel       *)
(* joins capture to tx and another joins rx to inject.  main waits for tx, *)
(* rx or Ctrl+C.  pc[t] says what thread t does next, held[t] is the frame *)
(* it has in hand, a sequence of at most one.                              *)
(*                                                                         *)
(* Left out: the bytes of a frame (and its truncation to FRAME_BUF), pcap  *)
(* timeouts (the thread only tries again), and the order in which start-up *)
(* spawns the threads (one not spawned yet has just not moved).            *)
(***************************************************************************)
EXTENDS Naturals, Sequences, SequencesExt

CONSTANTS
  Capacity,    \* of each channel, 256 in the code
  MaxCaptured, \* bound: frames the NIC hands to the capture thread
  MaxArrived,  \* bound: datagrams that reach the socket
  LookupsFail  \* may the lookups of an interface index fail?

ASSUME TunnelAssumption ==
  /\ Capacity \in Nat \ {0}
  /\ LookupsFail \in BOOLEAN
  /\ MaxCaptured \in Nat /\ MaxArrived \in Nat

Threads == {"main", "capture", "tx", "rx", "inject"}
Labels  == {"dispatch", "start", "select", "returned", "failed", \* main
            "idle",   \* waits for a frame: next_packet, recv, recv_from
            "send",   \* has a frame to hand on
            "notice", \* has a WSAECONNRESET to note
            "clear",  \* rx has a datagram, and the flag to clear
            "ended"}

\* What a captured frame is: traffic of the segment, or a packet of this very
\* tunnel, to or from the peer, that the NIC carries.
OwnKinds == {"to_peer", "from_peer"}
Kinds    == {"lan"} \cup OwnKinds
Captured == [n : 1..MaxCaptured, kind : Kinds]
Arrived  == 1..MaxArrived \* datagrams, whoever sent them

VARIABLES
  shared_nic,       \* is the NIC to the peer the captured one?
  lookups_ok,       \* do both lookups of an interface index succeed?
  capture_filter,   \* the kinds of frame the BPF filter suppresses
  pc, held,
  cap_chan,         \* capture -> tx
  inj_chan,         \* rx -> inject
  captured, sent,   \* frames the capture thread took; frames sent to the peer
  arrived, socket,  \* datagrams that reached the host; those not yet received
  injected,         \* frames sent into the NIC
  peer_unreachable, \* the flag the two tasks share
  reset_pending,    \* an ICMP Port Unreachable came back, no call reported it
  resets,           \* how many came back
  warned, cleared   \* log lines "not open yet" and "now reachable"

nic     == <<shared_nic, lookups_ok, capture_filter>>
to_peer == <<cap_chan, captured, sent>>
to_nic  == <<inj_chan, arrived, socket, injected>>
flag    == <<peer_unreachable, warned, cleared>>
icmp    == <<reset_pending, resets>>
vars    == <<nic, pc, held, to_peer, to_nic, flag, icmp>>

TypeOK ==
  /\ shared_nic \in BOOLEAN /\ lookups_ok \in BOOLEAN
  /\ capture_filter \subseteq Kinds
  /\ pc \in [Threads -> Labels]
  /\ \A t \in Threads : Len(held[t]) <= 1
  /\ ToSet(held["capture"]) \cup ToSet(held["tx"]) \cup ToSet(cap_chan)
       \cup ToSet(sent) \subseteq Captured
  /\ ToSet(held["rx"]) \cup ToSet(held["inject"]) \cup ToSet(inj_chan)
       \cup ToSet(socket) \cup ToSet(injected) \subseteq Arrived
  /\ Len(cap_chan) <= Capacity /\ Len(inj_chan) <= Capacity
  /\ captured \in 0..MaxCaptured /\ arrived \in 0..MaxArrived
  /\ peer_unreachable \in BOOLEAN /\ reset_pending \in BOOLEAN
  /\ resets \in 0..MaxCaptured
  /\ warned \in 0..MaxCaptured /\ cleared \in 0..MaxArrived

Init ==
  /\ shared_nic \in BOOLEAN
  /\ lookups_ok \in IF LookupsFail THEN BOOLEAN ELSE {TRUE}
  /\ capture_filter = {}
  /\ pc = [t \in Threads |-> IF t = "main" THEN "dispatch" ELSE "idle"]
  /\ held = [t \in Threads |-> <<>>]
  /\ cap_chan = <<>> /\ inj_chan = <<>>
  /\ captured = 0 /\ sent = <<>>
  /\ arrived = 0 /\ socket = <<>> /\ injected = <<>>
  /\ peer_unreachable = FALSE /\ warned = 0 /\ cleared = 0
  /\ reset_pending = FALSE /\ resets = 0

Up == pc["main"] = "select"

Goto(t, label) == pc' = [pc EXCEPT ![t] = label]
Hold(t, frames) == held' = [held EXCEPT ![t] = frames]

----------------------------------------------------------------------------
\* main.rs: the filter, and server::run up to its select!.

\* Mutant: the filter has only its `dst` half.
suppress_sent_only == IF lookups_ok /\ shared_nic THEN {"to_peer"} ELSE {}

\* get_best_route and find_iface_by_pcap_name give the interface index of the
\* underlay and of the capture device, 0 when they fail.
SuppressedKinds == IF lookups_ok /\ shared_nic THEN OwnKinds ELSE {}

build_capture_filter ==
  /\ pc["main"] = "dispatch" /\ Goto("main", "start")
  /\ capture_filter' = SuppressedKinds
  /\ UNCHANGED <<shared_nic, lookups_ok, held, to_peer, to_nic, flag, icmp>>

\* The probe, the handles, the filter, the socket and the threads; any of
\* them that fails is fatal.
start ==
  /\ pc["main"] = "start"
  /\ \E label \in {"select", "failed"} : Goto("main", label)
  /\ UNCHANGED <<nic, held, to_peer, to_nic, flag, icmp>>

main_select ==
  /\ Up /\ "ended" \in {pc["tx"], pc["rx"]}
  /\ Goto("main", "returned")
  /\ UNCHANGED <<nic, held, to_peer, to_nic, flag, icmp>>

ctrl_c ==
  /\ Up /\ Goto("main", "returned")
  /\ UNCHANGED <<nic, held, to_peer, to_nic, flag, icmp>>

----------------------------------------------------------------------------
\* Thread A, pcap capture -> channel.

\* The NIC carries packets of the tunnel only if there are any.
OnNic(kind) ==
  \/ kind = "lan"
  \/ shared_nic /\ kind = "to_peer" /\ sent # <<>>
  \/ shared_nic /\ kind = "from_peer" /\ arrived > 0

next_packet ==
  /\ Up /\ pc["capture"] = "idle" /\ captured < MaxCaptured
  /\ \E kind \in Kinds \ capture_filter :
       /\ OnNic(kind)
       /\ Hold("capture", <<[n |-> captured + 1, kind |-> kind]>>)
  /\ captured' = captured + 1
  /\ Goto("capture", "send")
  /\ UNCHANGED <<nic, cap_chan, sent, to_nic, flag, icmp>>

\* Mutants: try_send instead of blocking_send, which drops the frame when the
\* channel is full; an unbounded channel.
capture_try_send ==
  /\ Up /\ pc["capture"] = "send"
  /\ cap_chan' = IF Len(cap_chan) < Capacity THEN cap_chan \o held["capture"]
                 ELSE cap_chan
  /\ Hold("capture", <<>>) /\ Goto("capture", "idle")
  /\ UNCHANGED <<nic, captured, sent, to_nic, flag, icmp>>

capture_send_unbounded ==
  /\ Up /\ pc["capture"] = "send"
  /\ cap_chan' = cap_chan \o held["capture"]
  /\ Hold("capture", <<>>) /\ Goto("capture", "idle")
  /\ UNCHANGED <<nic, captured, sent, to_nic, flag, icmp>>

\* blocking_send waits for room, and fails when tx has dropped the receiver.
capture_send ==
  /\ Up /\ pc["capture"] = "send"
  /\ \/ /\ pc["tx"] = "ended"
        /\ Goto("capture", "ended") /\ UNCHANGED cap_chan
     \/ /\ pc["tx"] # "ended" /\ Len(cap_chan) < Capacity
        /\ cap_chan' = cap_chan \o held["capture"]
        /\ Goto("capture", "idle")
  /\ Hold("capture", <<>>)
  /\ UNCHANGED <<nic, captured, sent, to_nic, flag, icmp>>

----------------------------------------------------------------------------
\* Mutant: every reset is logged.
note_unreachable_always ==
  warned' = warned + 1 /\ peer_unreachable' = TRUE /\ UNCHANGED cleared

\* The flag: swap(true) warns if it was clear, swap(false) reports if it was
\* set.
note_unreachable ==
  /\ warned' = IF peer_unreachable THEN warned ELSE warned + 1
  /\ peer_unreachable' = TRUE
  /\ UNCHANGED cleared

note_reachable ==
  /\ cleared' = IF peer_unreachable THEN cleared + 1 ELSE cleared
  /\ peer_unreachable' = FALSE
  /\ UNCHANGED warned

\* A task notes the WSAECONNRESET a call reported, and goes on.
notice(t) ==
  /\ Up /\ pc[t] = "notice" /\ Goto(t, "idle")
  /\ note_unreachable
  /\ UNCHANGED <<nic, held, to_peer, to_nic, icmp>>

\* Any pcap error but a timeout ends the capture thread, any other error of
\* recv_from (a datagram longer than UDP_BUF among them) task B.
io_error(t) ==
  /\ Up /\ pc[t] = "idle" /\ Goto(t, "ended")
  /\ UNCHANGED <<nic, held, to_peer, to_nic, flag, icmp>>

----------------------------------------------------------------------------
\* Task A, channel -> UDP.

\* Mutant: another sender stays in scope, and the channel never closes.
tx_recv_open ==
  /\ Up /\ pc["tx"] = "idle" /\ cap_chan # <<>>
  /\ Hold("tx", <<Head(cap_chan)>>) /\ cap_chan' = Tail(cap_chan)
  /\ Goto("tx", "send")
  /\ UNCHANGED <<nic, captured, sent, to_nic, flag, icmp>>

\* recv gives what is left in the channel before it reports that capture has
\* dropped the sender.
tx_recv ==
  /\ Up /\ pc["tx"] = "idle"
  /\ \/ /\ cap_chan # <<>>
        /\ Hold("tx", <<Head(cap_chan)>>) /\ cap_chan' = Tail(cap_chan)
        /\ Goto("tx", "send")
     \/ /\ cap_chan = <<>> /\ pc["capture"] = "ended"
        /\ Goto("tx", "ended") /\ UNCHANGED <<held, cap_chan>>
  /\ UNCHANGED <<nic, captured, sent, to_nic, flag, icmp>>

\* send_to succeeds, reports an earlier WSAECONNRESET, in which case this
\* frame is given up, or fails, which ends the task and drops the channel.
tx_send_to ==
  /\ Up /\ pc["tx"] = "send" /\ Hold("tx", <<>>)
  /\ \/ /\ sent' = sent \o held["tx"]
        /\ Goto("tx", "idle")
        /\ UNCHANGED <<cap_chan, reset_pending>>
     \/ /\ reset_pending /\ reset_pending' = FALSE
        /\ Goto("tx", "notice")
        /\ UNCHANGED <<cap_chan, sent>>
     \/ /\ Goto("tx", "ended") /\ cap_chan' = <<>>
        /\ UNCHANGED <<sent, reset_pending>>
  /\ UNCHANGED <<nic, captured, to_nic, flag, resets>>

----------------------------------------------------------------------------
\* Task B, UDP -> channel.

\* recv_from takes any datagram, whoever sent it.
rx_recv_from ==
  /\ Up /\ pc["rx"] = "idle"
  /\ \/ /\ socket # <<>>
        /\ Hold("rx", <<Head(socket)>>) /\ socket' = Tail(socket)
        /\ Goto("rx", "clear") /\ UNCHANGED reset_pending
     \/ /\ reset_pending /\ reset_pending' = FALSE
        /\ Goto("rx", "notice") /\ UNCHANGED <<held, socket>>
  /\ UNCHANGED <<nic, to_peer, inj_chan, arrived, injected, flag, resets>>

rx_clear ==
  /\ Up /\ pc["rx"] = "clear" /\ Goto("rx", "send")
  /\ note_reachable
  /\ UNCHANGED <<nic, held, to_peer, to_nic, icmp>>

\* Mutant: try_send instead of send.
rx_try_send ==
  /\ Up /\ pc["rx"] = "send"
  /\ inj_chan' = IF Len(inj_chan) < Capacity THEN inj_chan \o held["rx"]
                 ELSE inj_chan
  /\ Hold("rx", <<>>) /\ Goto("rx", "idle")
  /\ UNCHANGED <<nic, to_peer, arrived, socket, injected, flag, icmp>>

\* Mutant: send waits for a slot more than it needs.
rx_send_two_slots ==
  /\ Up /\ pc["rx"] = "send" /\ Len(inj_chan) + 1 < Capacity
  /\ inj_chan' = inj_chan \o held["rx"]
  /\ Hold("rx", <<>>) /\ Goto("rx", "idle")
  /\ UNCHANGED <<nic, to_peer, arrived, socket, injected, flag, icmp>>

\* send waits for room; the inject thread outlives this task, so it never
\* fails.
rx_send ==
  /\ Up /\ pc["rx"] = "send" /\ Len(inj_chan) < Capacity
  /\ inj_chan' = inj_chan \o held["rx"]
  /\ Hold("rx", <<>>) /\ Goto("rx", "idle")
  /\ UNCHANGED <<nic, to_peer, arrived, socket, injected, flag, icmp>>

----------------------------------------------------------------------------
\* Thread B, channel -> pcap inject.

blocking_recv ==
  /\ Up /\ pc["inject"] = "idle"
  /\ \/ /\ inj_chan # <<>>
        /\ Hold("inject", <<Head(inj_chan)>>) /\ inj_chan' = Tail(inj_chan)
        /\ Goto("inject", "send")
     \/ /\ inj_chan = <<>> /\ pc["rx"] = "ended"
        /\ Goto("inject", "ended") /\ UNCHANGED <<held, inj_chan>>
  /\ UNCHANGED <<nic, to_peer, arrived, socket, injected, flag, icmp>>

\* An error of sendpacket loses the frame, and nothing else.
sendpacket ==
  /\ Up /\ pc["inject"] = "send"
  /\ Goto("inject", "idle") /\ Hold("inject", <<>>)
  /\ injected' \in {injected, injected \o held["inject"]}
  /\ UNCHANGED <<nic, to_peer, inj_chan, arrived, socket, flag, icmp>>

----------------------------------------------------------------------------
\* The network.

datagram ==
  /\ Up /\ arrived < MaxArrived
  /\ socket' = Append(socket, arrived + 1)
  /\ arrived' = arrived + 1
  /\ UNCHANGED <<nic, pc, held, to_peer, inj_chan, injected, flag, icmp>>

\* The peer's port is closed: at most one reply for each datagram sent.
port_unreachable ==
  /\ Up /\ ~reset_pending /\ resets < Len(sent)
  /\ reset_pending' = TRUE /\ resets' = resets + 1
  /\ UNCHANGED <<nic, pc, held, to_peer, to_nic, flag>>

----------------------------------------------------------------------------
MainStep    == build_capture_filter \/ start \/ main_select
CaptureStep == capture_send
TxStep      == tx_recv \/ tx_send_to \/ notice("tx")
RxStep      == rx_recv_from \/ notice("rx") \/ rx_clear \/ rx_send
InjectStep  == blocking_recv \/ sendpacket
Environment == \/ next_packet \/ datagram \/ port_unreachable \/ ctrl_c
               \/ \E t \in {"capture", "rx"} : io_error(t)

Next ==
  \/ MainStep \/ CaptureStep \/ TxStep \/ RxStep \/ InjectStep
  \/ Environment

Spec == Init /\ [][Next]_vars
FairSpec ==
  /\ Spec
  /\ WF_vars(MainStep) /\ WF_vars(CaptureStep) /\ WF_vars(TxStep)
  /\ WF_vars(RxStep) /\ WF_vars(InjectStep)
=============================================================================
