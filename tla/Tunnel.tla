------------------------------- MODULE Tunnel -------------------------------
(***************************************************************************)
(* The two ends of a tunnel and the UDP network between them: a server     *)
(* (ServerTunnel) that may stop and be started again, and a client         *)
(* (ClientData) that runs on meanwhile.  What one sends is what reaches    *)
(* the other; the network may lose a datagram, deliver it twice or out of  *)
(* turn, and answers for the server's host while its port is closed.       *)
(*                                                                         *)
(* Left out, because each end has them in its own module: calls that fail  *)
(* and end a thread, the shutdown of the client, switches, and a NIC that  *)
(* carries the tunnel as well.                                             *)
(***************************************************************************)
EXTENDS Naturals, Sequences, SequencesExt

CONSTANTS
  Capacity,    \* of each channel
  MaxCaptured, \* bound: frames the server captures
  MaxRead,     \* bound: frames the client reads
  MaxFaults,   \* bound: faults of the network
  MaxStops     \* bound: how often the server stops

ASSUME BoundsAssumption ==
  /\ Capacity \in Nat \ {0}
  /\ {MaxCaptured, MaxRead, MaxFaults, MaxStops} \subseteq Nat

VARIABLES \* of the server
  shared_nic, lookups_ok, capture_filter, pc, held, cap_chan, inj_chan,
  captured, sent, arrived, socket, injected, peer_unreachable, reset_pending,
  resets, warned, cleared

VARIABLES \* of the client
  c_pc, c_held, tap_chan, udp_chan, read, c_sent, c_arrived, c_socket, written,
  remote_shared, unreachable_peer, blamed, c_reset_pending, c_resets, switches,
  told, strays

VARIABLES
  to_client, to_server, \* the datagrams under way, oldest first
  reached_client,       \* the frames that reached each end, in the order in
  reached_server,       \*   which its module numbers them
  faults, stops,        \* how many so far
  orderly,              \* no datagram delivered twice or out of turn so far
  lost                  \* frames known to be lost, by the end they came from

Server == INSTANCE ServerTunnel WITH
  MaxArrived <- MaxRead + MaxFaults, LookupsFail <- FALSE

Client == INSTANCE ClientData WITH
  MaxArrived <- MaxCaptured + MaxFaults, MaxSwitches <- 0, MaxResets <- MaxRead,
  Peers <- {"server"}, None <- "none", pc <- c_pc, held <- c_held, sent <- c_sent,
  arrived <- c_arrived, socket <- c_socket, resets <- c_resets,
  reset_pending <- c_reset_pending

server  == <<shared_nic, lookups_ok, capture_filter, pc, held, cap_chan, inj_chan,
             captured, sent, arrived, socket, injected, peer_unreachable,
             reset_pending, resets, warned, cleared>>
client  == <<c_pc, c_held, tap_chan, udp_chan, read, c_sent, c_arrived, c_socket,
             written, remote_shared, unreachable_peer, blamed, c_reset_pending,
             c_resets, switches, told, strays>>
network == <<to_client, to_server, reached_client, reached_server>>
faulty  == <<faults, stops, orderly>>
vars    == <<server, client, network, faulty, lost>>

Init ==
  /\ Server!Init /\ Client!Init /\ ~shared_nic
  /\ to_client = <<>> /\ to_server = <<>>
  /\ reached_client = <<>> /\ reached_server = <<>>
  /\ faults = 0 /\ stops = 0 /\ orderly = TRUE
  /\ lost = [server |-> {}, client |-> {}]

NumbersIn(frames) == {f.n : f \in ToSet(frames)}
Lose(end, frames) == lost' = [lost EXCEPT ![end] = @ \cup frames]

----------------------------------------------------------------------------
\* The ends at work.  What a socket is given is under way to the other end.

New(before, after) == SubSeq(after, Len(before) + 1, Len(after))

\* The frames behind the server's arrivals.
FromClient(arrivals) == {reached_server[a] : a \in ToSet(arrivals)}

server_works ==
  /\ \/ Server!MainStep \/ Server!CaptureStep \/ Server!TxStep \/ Server!RxStep
     \/ Server!InjectStep
  /\ \A t \in Server!Threads : pc'[t] \notin {"ended", "failed"}
  /\ to_client' = to_client \o New(sent, sent')
  \* The NIC may refuse a frame.
  /\ IF pc["inject"] = "send" /\ pc'["inject"] = "idle" /\ injected' = injected
     THEN Lose("client", FromClient(held["inject"])) ELSE UNCHANGED lost
  /\ UNCHANGED <<client, to_server, reached_client, reached_server, faulty>>

client_works ==
  /\ \/ Client!ReadStep \/ Client!TxStep \/ Client!RxStep \/ Client!WriteStep
  /\ \A t \in Client!Threads : c_pc'[t] # "ended"
  /\ to_server' = to_server \o New(c_sent, c_sent')
  \* A send_to that reports an earlier reset gives its frame up.
  /\ IF c_pc["tx"] = "send" /\ c_pc'["tx"] = "notice"
     THEN Lose("client", NumbersIn(c_held["tx"])) ELSE UNCHANGED lost
  /\ UNCHANGED <<server, to_client, reached_client, reached_server, faulty>>

server_captures ==
  Server!next_packet /\ UNCHANGED <<client, network, faulty, lost>>

client_reads ==
  Client!tap_read /\ UNCHANGED <<server, network, faulty, lost>>

\* A server that stops takes with it what it holds.
server_stops ==
  /\ stops < MaxStops /\ stops' = stops + 1
  /\ Server!ctrl_c
  /\ lost' = [server |-> lost.server
                \cup NumbersIn(held["capture"] \o cap_chan \o held["tx"]),
              client |-> lost.client
                \cup FromClient(held["rx"] \o inj_chan \o held["inject"] \o socket)]
  /\ UNCHANGED <<client, network, faults, orderly>>

\* A new process; captured, arrived and what was sent and injected go on
\* counting.
server_restarts ==
  /\ pc["main"] = "returned"
  /\ pc' = [t \in Server!Threads |-> IF t = "main" THEN "dispatch" ELSE "idle"]
  /\ held' = [t \in Server!Threads |-> <<>>] /\ capture_filter' = {}
  /\ cap_chan' = <<>> /\ inj_chan' = <<>> /\ socket' = <<>>
  /\ peer_unreachable' = FALSE /\ reset_pending' = FALSE
  /\ warned' = 0 /\ cleared' = 0
  /\ UNCHANGED <<shared_nic, lookups_ok, captured, sent, arrived, injected, resets,
                 client, network, faulty, lost>>

----------------------------------------------------------------------------
\* The network.

\* What is left under way when datagram i is taken out, and whether that took
\* a fault: one that overtakes another, or leaves a copy behind.
Takes(way, i, left) ==
  \/ i = 1 /\ left = Tail(way) /\ UNCHANGED <<faults, orderly>>
  \/ /\ faults < MaxFaults /\ faults' = faults + 1 /\ orderly' = FALSE
     /\ left \in {way} \cup (IF i = 1 THEN {} ELSE {RemoveAt(way, i)})

deliver_to_client ==
  /\ \E i \in DOMAIN to_client :
       /\ \E left \in {to_client, RemoveAt(to_client, i)} :
            Takes(to_client, i, left) /\ to_client' = left
       /\ reached_client' = Append(reached_client, to_client[i].n)
  /\ Client!datagram
  /\ UNCHANGED <<server, to_server, reached_server, stops, lost>>

deliver_to_server ==
  /\ Server!Up
  /\ \E i \in DOMAIN to_server :
       /\ \E left \in {to_server, RemoveAt(to_server, i)} :
            Takes(to_server, i, left) /\ to_server' = left
       /\ reached_server' = Append(reached_server, to_server[i].n)
  /\ Server!datagram
  /\ UNCHANGED <<client, to_client, reached_client, stops, lost>>

\* The port is closed: the datagram is lost, and an ICMP Port Unreachable may
\* reach the client.
refuse ==
  /\ ~Server!Up /\ to_server # <<>>
  /\ to_server' = Tail(to_server) /\ Lose("client", {Head(to_server).n})
  /\ Client!port_unreachable \/ UNCHANGED client
  /\ UNCHANGED <<server, to_client, reached_client, reached_server, faulty>>

lose ==
  /\ faults < MaxFaults /\ faults' = faults + 1
  /\ \/ /\ to_client # <<>> /\ to_client' = Tail(to_client)
        /\ Lose("server", {Head(to_client).n}) /\ UNCHANGED to_server
     \/ /\ to_server # <<>> /\ to_server' = Tail(to_server)
        /\ Lose("client", {Head(to_server).n}) /\ UNCHANGED to_client
  /\ UNCHANGED <<server, client, reached_client, reached_server, stops,
                 orderly>>

----------------------------------------------------------------------------
Delivers == deliver_to_client \/ deliver_to_server \/ refuse

Next ==
  \/ server_works \/ client_works \/ Delivers
  \/ server_captures \/ client_reads \/ server_stops \/ server_restarts \/ lose

Spec == Init /\ [][Next]_vars
FairSpec ==
  /\ Spec
  /\ WF_vars(server_works) /\ WF_vars(client_works) /\ WF_vars(Delivers)
=============================================================================
