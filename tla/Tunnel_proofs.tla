----------------------------- MODULE Tunnel_proofs -----------------------------
(***************************************************************************)
(* What is proved of the tunnel as a whole, for channels of any capacity   *)
(* and any number of frames, faults of the network and stops of the        *)
(* server: the two ends run as their own modules say, so what is proved of *)
(* each holds here, and the network between them keeps their frames in     *)
(* order as long as it delivers in order.                                  *)
(***************************************************************************)
EXTENDS TunnelProperties, TLAPS

ServerP == INSTANCE ServerTunnel_proofs WITH
  MaxArrived <- MaxRead + MaxFaults, LookupsFail <- FALSE

ClientP == INSTANCE ClientData_proofs WITH
  MaxArrived <- MaxCaptured + MaxFaults, MaxSwitches <- 0, MaxResets <- MaxRead,
  Peers <- {"server"}, None <- "none", pc <- c_pc, held <- c_held, sent <- c_sent,
  arrived <- c_arrived, socket <- c_socket, resets <- c_resets,
  reset_pending <- c_reset_pending

LEMMA Bounds ==
  /\ Capacity \in Nat /\ Capacity > 0 /\ MaxCaptured \in Nat /\ MaxRead \in Nat
  /\ MaxFaults \in Nat
BY BoundsAssumption

\* What the modules of the ends assume of their constants.
LEMMA EndConstants ==
  /\ Capacity \in Nat \ {0}
  /\ {"server"} # {} /\ "none" \notin {"server"} /\ FALSE \in BOOLEAN
  /\ {MaxRead, MaxCaptured + MaxFaults, 0, MaxRead} \subseteq Nat
  /\ MaxCaptured \in Nat /\ MaxRead + MaxFaults \in Nat
BY BoundsAssumption

----------------------------------------------------------------------------
(* The ends.  Client and ClientP are the same module, with and without its  *)
(* proofs, and so are Server and ServerP.                                  *)

LEMMA SameClient ==
  /\ Client!Init <=> ClientP!Init
  /\ Client!Next <=> ClientP!Next
  /\ UNCHANGED Client!vars <=> UNCHANGED ClientP!vars
<1>1. Client!Init <=> ClientP!Init
  BY DEF Client!Init, ClientP!Init, Client!Threads, ClientP!Threads, Client!Senders,
     ClientP!Senders
<1>2. Client!Next <=> ClientP!Next
  BY DEF Client!MainStep, ClientP!MainStep, Client!ReadStep, ClientP!ReadStep,
     Client!TxStep, ClientP!TxStep, Client!RxStep, ClientP!RxStep,
     Client!WriteStep, ClientP!WriteStep, Client!StdinStep, ClientP!StdinStep,
     Client!Environment, ClientP!Environment, Client!main_select,
     ClientP!main_select, Client!ctrl_c, ClientP!ctrl_c, Client!cleaned_up,
     ClientP!cleaned_up, Client!open_device, ClientP!open_device,
     Client!tap_read, ClientP!tap_read, Client!io_error, ClientP!io_error,
     Client!tap_send, ClientP!tap_send, Client!tx_recv, ClientP!tx_recv,
     Client!tx_send_to, ClientP!tx_send_to, Client!notice, ClientP!notice,
     Client!rx_clear, ClientP!rx_clear, Client!rx_recv_from,
     ClientP!rx_recv_from, Client!rx_blame, ClientP!rx_blame, Client!rx_send,
     ClientP!rx_send, Client!write_recv, ClientP!write_recv, Client!tap_write,
     ClientP!tap_write, Client!switch, ClientP!switch, Client!switch_reset,
     ClientP!switch_reset, Client!stdin_closed, ClientP!stdin_closed,
     Client!datagram, ClientP!datagram, Client!port_unreachable,
     ClientP!port_unreachable, Client!Up, ClientP!Up, Client!Goto, ClientP!Goto,
     Client!Hold, ClientP!Hold, Client!to_peer, ClientP!to_peer, Client!to_tap,
     ClientP!to_tap, Client!mark, ClientP!mark, Client!icmp, ClientP!icmp,
     Client!peer, ClientP!peer, Client!Next, ClientP!Next
<1>3. UNCHANGED Client!vars <=> UNCHANGED ClientP!vars
  BY DEF Client!vars, ClientP!vars, Client!to_peer, ClientP!to_peer, Client!to_tap,
     ClientP!to_tap, Client!mark, ClientP!mark, Client!icmp, ClientP!icmp,
     Client!peer, ClientP!peer
<1>4. QED
  BY <1>1, <1>2, <1>3

LEMMA SameServer ==
  /\ Server!Init <=> ServerP!Init
  /\ Server!Next <=> ServerP!Next
  /\ UNCHANGED Server!vars <=> UNCHANGED ServerP!vars
<1>1. Server!Init <=> ServerP!Init
  BY DEF Server!Init, ServerP!Init, Server!Threads, ServerP!Threads
<1>2. Server!Next <=> ServerP!Next
  BY DEF Server!MainStep, ServerP!MainStep, Server!CaptureStep, ServerP!CaptureStep,
     Server!TxStep, ServerP!TxStep, Server!RxStep, ServerP!RxStep,
     Server!InjectStep, ServerP!InjectStep, Server!Environment,
     ServerP!Environment, Server!build_capture_filter,
     ServerP!build_capture_filter, Server!start, ServerP!start,
     Server!main_select, ServerP!main_select, Server!ctrl_c, ServerP!ctrl_c,
     Server!next_packet, ServerP!next_packet, Server!capture_send,
     ServerP!capture_send, Server!notice, ServerP!notice,
     Server!note_unreachable, ServerP!note_unreachable, Server!note_reachable,
     ServerP!note_reachable, Server!io_error, ServerP!io_error, Server!tx_recv,
     ServerP!tx_recv, Server!tx_send_to, ServerP!tx_send_to, Server!rx_recv_from,
     ServerP!rx_recv_from, Server!rx_clear, ServerP!rx_clear, Server!rx_send,
     ServerP!rx_send, Server!blocking_recv, ServerP!blocking_recv,
     Server!sendpacket, ServerP!sendpacket, Server!datagram, ServerP!datagram,
     Server!port_unreachable, ServerP!port_unreachable, Server!OnNic,
     ServerP!OnNic, Server!SuppressedKinds, ServerP!SuppressedKinds,
     Server!OwnKinds, ServerP!OwnKinds, Server!Kinds, ServerP!Kinds, Server!Up,
     ServerP!Up, Server!Goto, ServerP!Goto, Server!Hold, ServerP!Hold,
     Server!nic, ServerP!nic, Server!to_peer, ServerP!to_peer, Server!to_nic,
     ServerP!to_nic, Server!flag, ServerP!flag, Server!icmp, ServerP!icmp,
     Server!Next, ServerP!Next
<1>3. UNCHANGED Server!vars <=> UNCHANGED ServerP!vars
  BY DEF Server!vars, ServerP!vars, Server!nic, ServerP!nic, Server!to_peer,
     ServerP!to_peer, Server!to_nic, ServerP!to_nic, Server!flag, ServerP!flag,
     Server!icmp, ServerP!icmp
<1>4. QED
  BY <1>1, <1>2, <1>3

LEMMA ClientStep == [Next]_vars => [Client!Next]_(Client!vars)
<1> SUFFICES ASSUME [Next]_vars PROVE [Client!Next]_(Client!vars)
  OBVIOUS
<1>1. CASE UNCHANGED client
  BY <1>1 DEF client, Client!vars, Client!to_peer, Client!to_tap, Client!mark,
     Client!icmp, Client!peer
<1>2. CASE client_works \/ client_reads
  BY <1>2 DEF client_works, client_reads, Client!Next, Client!Environment
<1>3. CASE deliver_to_client \/ refuse
  BY <1>1, <1>3 DEF deliver_to_client, refuse, Client!Next, Client!Environment
<1>4. QED
  BY <1>1, <1>2, <1>3 DEF Next, Delivers, server_works, deliver_to_server,
     server_captures, server_stops, server_restarts, lose, vars

LEMMA ServerStep == [Next]_vars => [Server!Next]_(Server!vars) \/ server_restarts
<1> SUFFICES ASSUME [Next]_vars PROVE [Server!Next]_(Server!vars) \/ server_restarts
  OBVIOUS
<1>1. CASE UNCHANGED server
  BY <1>1 DEF server, Server!vars, Server!nic, Server!to_peer, Server!to_nic,
     Server!flag, Server!icmp
<1>2. CASE server_works \/ server_captures \/ server_stops \/ deliver_to_server
  BY <1>2 DEF server_works, server_captures, server_stops, deliver_to_server,
     Server!Next, Server!Environment
<1>3. QED
  BY <1>1, <1>2 DEF Next, Delivers, client_works, client_reads, deliver_to_client,
     refuse, lose, vars

\* Whatever the server and the network do, the client in the tunnel does what
\* ClientData says of one with a single peer and no switch (src/client.rs).
THEOREM ClientRuns == Spec => Client!Spec
<1>1. Init => Client!Init
  BY DEF Init
<1>2. QED
  BY <1>1, ClientStep, PTL DEF Spec, Client!Spec

----------------------------------------------------------------------------
(* Each end keeps its order, the server also across a stop and a new start. *)

ClientSide == ClientP!WireInv /\ ClientP!peer_wire!InOrder /\ ClientP!tap_wire!InOrder

ServerSide == ServerP!WireInv /\ ServerP!peer_wire!InOrder /\ ServerP!nic_wire!InOrder

LEMMA WireFrames == 1..MaxRead \subseteq Nat /\ 1..MaxCaptured \subseteq Nat
                    /\ 1..(MaxCaptured + MaxFaults) \subseteq Nat
                    /\ 1..(MaxRead + MaxFaults) \subseteq Nat
BY Bounds

LEMMA ClientSideInit == Init => ClientSide
<1> SUFFICES ASSUME Init PROVE ClientSide
  OBVIOUS
<1>1. ClientP!WireInv /\ ClientP!peer_wire!InitWire /\ ClientP!tap_wire!InitWire
  BY EndConstants, SameClient, ClientP!WireInvInit DEF Init
<1>2. ClientP!peer_wire!InOrder
  BY <1>1, EndConstants, ClientP!peer_wire!InOrderInit
<1>3. ClientP!tap_wire!InOrder
  BY <1>1, EndConstants, ClientP!tap_wire!InOrderInit
<1>4. QED
  BY <1>1, <1>2, <1>3 DEF ClientSide

LEMMA ClientSideStep == ClientSide /\ [Next]_vars => ClientSide'
<1> SUFFICES ASSUME ClientSide, [Next]_vars PROVE ClientSide'
  OBVIOUS
<1>1. ClientP!WireInv /\ [ClientP!Next]_(ClientP!vars)
  BY ClientStep, SameClient DEF ClientSide
<1>2. /\ ClientP!WireInv'
      /\ [ClientP!peer_wire!NextWire]_(ClientP!peer_wire!wire)
      /\ [ClientP!tap_wire!NextWire]_(ClientP!tap_wire!wire)
  BY <1>1, EndConstants, ClientP!WireInvStep
<1>3. ClientP!peer_wire!InOrder'
  BY <1>2, EndConstants, WireFrames, ClientP!peer_wire!InOrderStep DEF ClientSide
<1>4. ClientP!tap_wire!InOrder'
  BY <1>2, EndConstants, WireFrames, ClientP!tap_wire!InOrderStep DEF ClientSide
<1>5. QED
  BY <1>2, <1>3, <1>4 DEF ClientSide

LEMMA ServerSideInit == Init => ServerSide
<1> SUFFICES ASSUME Init PROVE ServerSide
  OBVIOUS
<1>1. ServerP!WireInv /\ ServerP!peer_wire!InitWire /\ ServerP!nic_wire!InitWire
  BY EndConstants, SameServer, ServerP!WireInvInit DEF Init
<1>2. ServerP!peer_wire!InOrder
  BY <1>1, EndConstants, ServerP!peer_wire!InOrderInit
<1>3. ServerP!nic_wire!InOrder
  BY <1>1, EndConstants, ServerP!nic_wire!InOrderInit
<1>4. QED
  BY <1>1, <1>2, <1>3 DEF ServerSide

LEMMA ServerSideStep ==
  ServerSide /\ [Server!Next]_(Server!vars) => ServerSide'
<1> SUFFICES ASSUME ServerSide, [Server!Next]_(Server!vars) PROVE ServerSide'
  OBVIOUS
<1>1. ServerP!WireInv /\ [ServerP!Next]_(ServerP!vars)
  BY SameServer DEF ServerSide
<1>2. /\ ServerP!WireInv'
      /\ [ServerP!peer_wire!NextWire]_(ServerP!peer_wire!wire)
      /\ [ServerP!nic_wire!NextWire]_(ServerP!nic_wire!wire)
  BY <1>1, EndConstants, ServerP!WireInvStep
<1>3. ServerP!peer_wire!InOrder'
  BY <1>2, EndConstants, WireFrames, ServerP!peer_wire!InOrderStep DEF ServerSide
<1>4. ServerP!nic_wire!InOrder'
  BY <1>2, EndConstants, WireFrames, ServerP!nic_wire!InOrderStep DEF ServerSide
<1>5. QED
  BY <1>2, <1>3, <1>4 DEF ServerSide

LEMMA OnlySent ==
  ASSUME NEW p \in Nat, NEW t \in Nat, NEW q \in Nat, NEW n \in Nat, NEW m \in Nat,
         p + t + q + n <= m
  PROVE  p + 0 + 0 + 0 <= m
OBVIOUS

LEMMA RestartKeepsServer == ServerSide /\ server_restarts => ServerSide'
<1> SUFFICES ASSUME ServerSide, server_restarts PROVE ServerSide'
  OBVIOUS
<1> DEFINE Threads == {"main", "capture", "tx", "rx", "inject"}
<1>1. /\ ServerP!ControlInv /\ ServerP!SendInv /\ ServerP!RecvInv
      /\ ServerP!FreshSent /\ ServerP!SocketInv /\ ServerP!FreshRecv
      /\ ServerP!peer_wire!InOrder /\ ServerP!nic_wire!InOrder
  BY DEF ServerSide, ServerP!WireInv
<1>2. /\ held' = [t \in Threads |-> <<>>]
      /\ pc' = [t \in Threads |-> IF t = "main" THEN "dispatch" ELSE "idle"]
      /\ cap_chan' = <<>> /\ inj_chan' = <<>> /\ socket' = <<>>
      /\ capture_filter' = {} /\ peer_unreachable' = FALSE /\ reset_pending' = FALSE
      /\ UNCHANGED <<shared_nic, lookups_ok, captured, sent, arrived, injected>>
  BY DEF server_restarts, Server!Threads
<1>3. /\ held'["capture"] = <<>> /\ held'["tx"] = <<>> /\ held'["rx"] = <<>>
      /\ held'["inject"] = <<>> /\ held'["main"] = <<>>
  BY <1>2
<1> USE DEF ServerP!Threads
<1>4. ServerP!ControlInv'
  <2>1. pc' \in [Threads -> ServerP!Labels]
    BY <1>2 DEF ServerP!Labels
  <2>2. QED
    BY <1>1, <1>2, <2>1 DEF ServerP!ControlInv
<1>5. ServerP!IdleInv'
  BY <1>3 DEF ServerP!IdleInv
<1>6. ServerP!SendInv'
  <2>1. /\ captured \in Nat /\ Len(sent) \in Nat /\ Len(held["tx"]) \in Nat
        /\ Len(cap_chan) \in Nat /\ Len(held["capture"]) \in Nat
        /\ sent \in Seq(ServerP!Captured)
    <3>1. captured \in 0..MaxCaptured /\ sent \in Seq(ServerP!Captured)
          /\ held["tx"] \in Seq(ServerP!Captured) /\ cap_chan \in Seq(ServerP!Captured)
          /\ held["capture"] \in Seq(ServerP!Captured)
      BY <1>1 DEF ServerP!SendInv
    <3>2. QED
      BY <3>1, Lengths
  <2>2. Len(sent) + Len(held["tx"]) + Len(cap_chan) + Len(held["capture"]) <= captured
    BY <1>1 DEF ServerP!SendInv, ServerP!AtPeer, ServerP!AtTx, ServerP!Queued,
       ServerP!AtNic
  <2>3. Len(sent) + 0 + 0 + 0 <= captured
    BY <2>1, <2>2, OnlySent
  <2>4. ServerP!AtPeer' = Len(sent) /\ ServerP!AtTx' = 0 /\ ServerP!Queued' = 0
        /\ ServerP!AtNic' = 0
    BY <1>2, <1>3, Empty DEF ServerP!AtPeer, ServerP!AtTx, ServerP!Queued, ServerP!AtNic
  <2>5. captured \in 0..MaxCaptured /\ Len(<<>>) <= Capacity /\ Len(<<>>) <= 1
    BY <1>1, Bounds, Empty DEF ServerP!SendInv
  <2>6. QED
    BY <1>2, <1>3, <2>1, <2>3, <2>4, <2>5, Empty DEF ServerP!SendInv
<1>7. ServerP!RecvInv'
  <2>1. Len(<<>>) <= Capacity /\ Len(<<>>) <= 1
    BY Bounds, Empty
  <2>2. QED
    BY <1>1, <1>2, <1>3, <2>1, Empty DEF ServerP!RecvInv
<1>8. ServerP!ToPeer' = <<>> /\ ServerP!ToNic' = <<>>
  BY <1>2, <1>3 DEF ServerP!ToPeer, ServerP!ToNic
<1>9. ServerP!FreshSent'
  BY <1>1, <1>2, <1>8 DEF ServerP!FreshSent, ServerP!ToSet
<1>10. arrived \in Nat /\ Len(socket) \in Nat /\ arrived - Len(socket) \in Nat
  <2>1. arrived \in 0..(MaxRead + MaxFaults) /\ socket \in Seq(ServerP!Arrived)
    BY <1>1 DEF ServerP!RecvInv
  <2>2. arrived - Len(socket) \in Nat
    BY <1>1 DEF ServerP!SocketInv, ServerP!Latest
  <2>3. QED
    BY <2>1, <2>2, Lengths
<1>11. ServerP!SocketInv'
  BY <1>2, <1>10, Empty DEF ServerP!SocketInv, ServerP!Latest
<1>12. ServerP!FreshRecv'
  <2>1. ServerP!Taken' = arrived
    BY <1>2, <1>10, Empty DEF ServerP!Taken
  <2>2. ServerP!nic_wire!UpTo(injected, arrived)
    <3>1. ServerP!nic_wire!UpTo(injected, arrived - Len(socket))
      BY <1>1 DEF ServerP!FreshRecv, ServerP!nic_wire!Known, ServerP!Taken
    <3>2. QED
      BY <1>10, <3>1, EndConstants, ServerP!nic_wire!UpToMore
  <2>3. ServerP!nic_wire!UpTo(<<>>, arrived)
    BY EndConstants, ServerP!nic_wire!UpToNone
  <2>4. QED
    BY <1>2, <1>8, <2>1, <2>2, <2>3 DEF ServerP!FreshRecv, ServerP!nic_wire!Known
<1>13. ServerP!peer_wire!InOrder'
  BY <1>1, <1>2, <1>8, ServerP!NumbersOfNone, EndConstants,
     ServerP!peer_wire!InOrderEmptied
<1>14. ServerP!nic_wire!InOrder'
  BY <1>1, <1>2, <1>8, EndConstants, ServerP!nic_wire!InOrderEmptied
<1>15. QED
  BY <1>4, <1>5, <1>6, <1>7, <1>9, <1>11, <1>12, <1>13, <1>14
  DEF ServerSide, ServerP!WireInv

----------------------------------------------------------------------------
(* The network.  One way of it: what is under way and what has arrived was  *)
(* sent; as long as the order is kept, the arrivals and then what is under  *)
(* way are in the order in which they were sent.                           *)

Way(kept, way, reached, out) ==
  /\ ToSet(reached) \cup ToSet(Numbers(way)) \subseteq ToSet(Numbers(out))
  /\ kept => Increasing(reached \o Numbers(way))

\* A frame is sent.
LEMMA WaySent ==
  ASSUME NEW S, \A f \in S : f.n \in Nat, NEW kept, NEW way \in Seq(S),
         NEW reached \in Seq(Nat), NEW out \in Seq(S), NEW f \in S,
         Increasing(Numbers(Append(out, f))), Way(kept, way, reached, out)
  PROVE  Way(kept, Append(way, f), reached, Append(out, f))
<1> DEFINE w == Numbers(way)
           o == Numbers(out)
<1>1. w \in Seq(Nat) /\ o \in Seq(Nat) /\ f.n \in Nat
  BY NumbersType
<1>2. /\ Numbers(Append(way, f)) = Append(w, f.n)
      /\ Numbers(Append(out, f)) = Append(o, f.n)
  BY NumbersOfAppend
<1> HIDE DEF w, o
<1>3. ToSet(Append(w, f.n)) = ToSet(w) \cup {f.n}
      /\ ToSet(Append(o, f.n)) = ToSet(o) \cup {f.n}
  BY <1>1, MembersOfAppend
<1>4. ToSet(reached) \cup ToSet(w) \subseteq ToSet(o)
      /\ (kept => Increasing(reached \o w))
  BY DEF Way, w, o
<1>5. ASSUME kept PROVE Increasing(reached \o Append(w, f.n))
  <2>1. \A y \in ToSet(o) : y < f.n
    BY <1>1, <1>2, IncreasingLast
  <2>2. ToSet(reached \o w) \subseteq ToSet(o)
    BY <1>1, <1>4, MembersOfBoth
  <2>3. reached \o w \in Seq(Nat) /\ \A y \in ToSet(reached \o w) : y < f.n
    BY <1>1, <2>1, <2>2
  <2>4. QED
    BY <1>1, <1>4, <1>5, <2>3, IncreasingAdded
<1>6. QED
  BY <1>2, <1>3, <1>4, <1>5 DEF Way

\* A frame is delivered, or copied, or overtakes others.
LEMMA WayDelivered ==
  ASSUME NEW S, \A f \in S : f.n \in Nat, NEW kept, NEW keeps, NEW way \in Seq(S),
         NEW reached \in Seq(Nat), NEW out, Way(kept, way, reached, out),
         NEW i \in DOMAIN way, NEW left \in {way, RemoveAt(way, i)},
         keeps => kept /\ i = 1 /\ left = Tail(way)
  PROVE  Way(keeps, left, Append(reached, way[i].n), out)
<1> DEFINE w == Numbers(way)
           x == way[i].n
<1>1. w \in Seq(Nat) /\ x \in Nat
  <2>1. way[i] \in S
    OBVIOUS
  <2>2. w \in Seq(Nat)
    BY NumbersType
  <2>3. QED
    BY <2>1, <2>2
<1>2. x \in ToSet(w)
  BY DEF Numbers, ToSet
<1>3. left \in Seq(S) /\ ToSet(left) \subseteq ToSet(way)
  BY Removed
<1>4. ToSet(Numbers(left)) \subseteq ToSet(w)
  BY <1>3, NumbersOfFewer
<1>5. way # <<>>
  OBVIOUS
<1> HIDE DEF w, x
<1>6. ToSet(reached) \cup ToSet(w) \subseteq ToSet(Numbers(out))
      /\ (kept => Increasing(reached \o w))
  BY DEF Way, w
<1>7. ToSet(Append(reached, x)) = ToSet(reached) \cup {x}
  BY <1>1, MembersOfAppend
<1>8. ASSUME keeps PROVE Increasing(Append(reached, x) \o Numbers(left))
  <2>1. w # <<>> /\ Head(w) = Head(way).n /\ Numbers(left) = Tail(w)
    BY <1>5, <1>8, NumbersOfTail DEF w
  <2>2. Head(way) = way[1]
    BY <1>5
  <2>3. x = Head(w)
    BY <1>8, <2>1, <2>2 DEF x
  <2>4. Append(reached, x) \o Numbers(left) = reached \o w
    BY <1>1, <2>1, <2>3, MovedOn
  <2>5. QED
    BY <1>6, <1>8, <2>4
<1>9. QED
  BY <1>2, <1>4, <1>6, <1>7, <1>8 DEF Way, x

\* The oldest under way is lost.
LEMMA WayLost ==
  ASSUME NEW S, \A f \in S : f.n \in Nat, NEW kept, NEW way \in Seq(S), way # <<>>,
         NEW reached \in Seq(Nat), NEW out, Way(kept, way, reached, out)
  PROVE  Way(kept, Tail(way), reached, out)
<1> DEFINE w == Numbers(way)
<1>1. w \in Seq(Nat) /\ w # <<>> /\ Numbers(Tail(way)) = Tail(w)
  BY NumbersType, NumbersOfTail
<1> HIDE DEF w
<1>2. ToSet(Tail(w)) \subseteq ToSet(w)
  BY <1>1, MembersOfTail
<1>3. ToSet(reached) \cup ToSet(w) \subseteq ToSet(Numbers(out))
      /\ (kept => Increasing(reached \o w))
  BY DEF Way, w
<1>4. kept => Increasing(reached \o Tail(w))
  BY <1>1, <1>3, IncreasingWithout
<1>5. QED
  BY <1>1, <1>2, <1>3, <1>4 DEF Way

LEMMA WayKept ==
  ASSUME NEW kept, NEW keeps, keeps => kept, NEW way, NEW reached, NEW out,
         Way(kept, way, reached, out)
  PROVE  Way(keeps, way, reached, out)
BY DEF Way

\* What a socket is given.
LEMMA NewFrame ==
  ASSUME NEW S, NEW s \in Seq(S), NEW x \in S PROVE New(s, Append(s, x)) = <<x>>
<1> DEFINE t == Append(s, x)
           u == SubSeq(t, Len(s) + 1, Len(t))
<1>1. Len(s) \in Nat /\ t \in Seq(S) /\ Len(t) = Len(s) + 1 /\ t[Len(s) + 1] = x
  OBVIOUS
<1> HIDE DEF t
<1>2. u \in Seq(S) /\ Len(u) = 1 /\ u[1] = x
  BY <1>1
<1> HIDE DEF u
<1>3. u = <<x>>
  BY <1>2
<1>4. QED
  BY <1>3 DEF New, t, u

LEMMA NoNewFrame == ASSUME NEW S, NEW s \in Seq(S) PROVE New(s, s) = <<>>
BY DEF New

LEMMA AddedOne ==
  ASSUME NEW S, NEW s \in Seq(S), NEW x \in S
  PROVE  s \o <<x>> = Append(s, x)
OBVIOUS

LEMMA AddedAll == ASSUME NEW S, NEW s \in Seq(S) PROVE s \o <<>> = s
OBVIOUS

----------------------------------------------------------------------------
(* The two ways, and what the ends make of them.                           *)

FromServer == Server!Captured
OfClient   == Client!Outgoing

NetworkInv ==
  /\ to_client \in Seq(FromServer) /\ to_server \in Seq(OfClient)
  /\ reached_client \in Seq(Nat) /\ c_arrived = Len(reached_client)
  /\ reached_server \in Seq(Nat) /\ arrived = Len(reached_server)
  /\ Way(orderly, to_client, reached_client, sent)
  /\ Way(orderly, to_server, reached_server, c_sent)

LEMMA FrameNumbers ==
  /\ \A f \in FromServer : f.n \in Nat
  /\ \A f \in OfClient : f.n \in Nat
<1>1. 1..MaxCaptured \subseteq Nat /\ 1..MaxRead \subseteq Nat
  BY WireFrames
<1>2. QED
  BY <1>1 DEF FromServer, OfClient, Server!Captured, Client!Outgoing

\* What the two sides say of the frames they hold and have sent.
LEMMA ServerFrames ==
  ServerSide => /\ held["tx"] \in Seq(FromServer) /\ Len(held["tx"]) <= 1
                /\ sent \in Seq(FromServer) /\ Increasing(Numbers(sent))
                /\ injected \in Seq(Nat) /\ Increasing(injected)
                /\ arrived \in Nat /\ UpTo(injected, arrived)
<1> SUFFICES ASSUME ServerSide
             PROVE  /\ held["tx"] \in Seq(FromServer) /\ Len(held["tx"]) <= 1
                    /\ sent \in Seq(FromServer) /\ Increasing(Numbers(sent))
                    /\ injected \in Seq(Nat) /\ Increasing(injected)
                    /\ arrived \in Nat /\ UpTo(injected, arrived)
  OBVIOUS
<1>1. /\ ServerP!SendInv /\ ServerP!RecvInv /\ ServerP!SocketInv /\ ServerP!FreshRecv
      /\ ServerP!peer_wire!InOrder /\ ServerP!nic_wire!InOrder
  BY DEF ServerSide, ServerP!WireInv
<1>2. FromServer = ServerP!Captured
  BY DEF FromServer, Server!Captured, ServerP!Captured, Server!Kinds, ServerP!Kinds,
     Server!OwnKinds, ServerP!OwnKinds
<1>3. held["tx"] \in Seq(FromServer) /\ Len(held["tx"]) <= 1 /\ sent \in Seq(FromServer)
  BY <1>1, <1>2 DEF ServerP!SendInv
<1>4. Increasing(Numbers(sent))
  <2>1. /\ ServerP!Numbers(sent) \in Seq(Nat)
        /\ ServerP!Numbers(ServerP!ToPeer) \in Seq(Nat)
        /\ Increasing(ServerP!Numbers(sent) \o ServerP!Numbers(ServerP!ToPeer))
    BY <1>1 DEF ServerP!peer_wire!InOrder, ServerP!peer_wire!Increasing, Increasing
  <2>2. Increasing(ServerP!Numbers(sent))
    BY <2>1, IncreasingStart
  <2>3. QED
    BY <2>2 DEF ServerP!Numbers, Numbers
<1>5. injected \in Seq(Nat) /\ Increasing(injected)
  <2>1. /\ injected \in Seq(Nat) /\ ServerP!ToNic \in Seq(Nat)
        /\ Increasing(injected \o ServerP!ToNic)
    BY <1>1 DEF ServerP!nic_wire!InOrder, ServerP!nic_wire!Increasing, Increasing
  <2>2. QED
    BY <2>1, IncreasingStart
<1>6. arrived \in Nat /\ UpTo(injected, arrived)
  <2>1. arrived \in 0..(MaxRead + MaxFaults) /\ socket \in Seq(ServerP!Arrived)
    BY <1>1 DEF ServerP!RecvInv
  <2>2. arrived - Len(socket) \in Nat
    BY <1>1 DEF ServerP!SocketInv, ServerP!Latest
  <2>3. UpTo(injected, arrived - Len(socket))
    BY <1>1 DEF ServerP!FreshRecv, ServerP!nic_wire!Known, ServerP!Taken,
       ServerP!nic_wire!UpTo, ServerP!nic_wire!ToSet, UpTo, ToSet
  <2>4. arrived \in Nat /\ Len(socket) \in Nat
    BY <2>1, Lengths
  <2>5. QED
    BY <2>2, <2>3, <2>4, UpToMore
<1>7. QED
  BY <1>3, <1>4, <1>5, <1>6

LEMMA ClientFrames ==
  ClientSide => /\ c_held["tx"] \in Seq(OfClient) /\ Len(c_held["tx"]) <= 1
                /\ c_sent \in Seq(OfClient) /\ Increasing(Numbers(c_sent))
                /\ written \in Seq(Nat) /\ Increasing(written)
                /\ c_arrived \in Nat /\ UpTo(written, c_arrived)
<1> SUFFICES ASSUME ClientSide
             PROVE  /\ c_held["tx"] \in Seq(OfClient) /\ Len(c_held["tx"]) <= 1
                    /\ c_sent \in Seq(OfClient) /\ Increasing(Numbers(c_sent))
                    /\ written \in Seq(Nat) /\ Increasing(written)
                    /\ c_arrived \in Nat /\ UpTo(written, c_arrived)
  OBVIOUS
<1>1. /\ ClientP!CountInv /\ ClientP!SendInv /\ ClientP!RecvInv /\ ClientP!SocketInv
      /\ ClientP!FreshRecv /\ ClientP!peer_wire!InOrder /\ ClientP!tap_wire!InOrder
  BY DEF ClientSide, ClientP!WireInv
<1>2. OfClient = ClientP!Outgoing
  BY DEF OfClient, Client!Outgoing, ClientP!Outgoing
<1>3. c_held["tx"] \in Seq(OfClient) /\ Len(c_held["tx"]) <= 1 /\ c_sent \in Seq(OfClient)
  BY <1>1, <1>2 DEF ClientP!SendInv
<1>4. Increasing(Numbers(c_sent))
  <2>1. /\ ClientP!Numbers(c_sent) \in Seq(Nat) /\ ClientP!ToPeer \in Seq(Nat)
        /\ Increasing(ClientP!Numbers(c_sent) \o ClientP!ToPeer)
    BY <1>1 DEF ClientP!peer_wire!InOrder, ClientP!peer_wire!Increasing, Increasing
  <2>2. Increasing(ClientP!Numbers(c_sent))
    BY <2>1, IncreasingStart
  <2>3. QED
    BY <2>2 DEF ClientP!Numbers, Numbers
<1>5. written \in Seq(Nat) /\ Increasing(written)
  <2>1. /\ written \in Seq(Nat) /\ ClientP!ToTap \in Seq(Nat)
        /\ Increasing(written \o ClientP!ToTap)
    BY <1>1 DEF ClientP!tap_wire!InOrder, ClientP!tap_wire!Increasing, Increasing
  <2>2. QED
    BY <2>1, IncreasingStart
<1>6. c_arrived \in Nat /\ UpTo(written, c_arrived)
  <2>1. c_arrived \in 0..(MaxCaptured + MaxFaults)
        /\ c_socket \in Seq(ClientP!Received)
    BY <1>1 DEF ClientP!CountInv, ClientP!RecvInv
  <2>2. c_arrived - Len(c_socket) \in Nat
    BY <1>1 DEF ClientP!SocketInv, ClientP!Latest
  <2>3. UpTo(written, c_arrived - Len(c_socket))
    BY <1>1 DEF ClientP!FreshRecv, ClientP!tap_wire!Known, ClientP!FromSocket,
       ClientP!tap_wire!UpTo, ClientP!tap_wire!ToSet, UpTo, ToSet
  <2>4. c_arrived \in Nat /\ Len(c_socket) \in Nat
    BY <2>1, Lengths
  <2>5. QED
    BY <2>2, <2>3, <2>4, UpToMore
<1>7. QED
  BY <1>3, <1>4, <1>5, <1>6

----------------------------------------------------------------------------
\* A step of an end gives its socket at most the frame the TX task holds.
LEMMA ServerSends ==
  ASSUME ServerSide, Server!TxStep \/ UNCHANGED sent
  PROVE  sent' = sent \/ \E f \in FromServer : sent' = Append(sent, f)
<1>1. held["tx"] \in Seq(FromServer) /\ Len(held["tx"]) <= 1 /\ sent \in Seq(FromServer)
  BY ServerFrames
<1>2. sent' \in {sent, sent \o held["tx"]}
  BY DEF Server!TxStep, Server!tx_recv, Server!tx_send_to, Server!notice, Server!to_peer
<1>3. CASE held["tx"] = <<>>
  BY <1>1, <1>2, <1>3, AddedAll
<1>4. CASE held["tx"] # <<>>
  <2> DEFINE f == held["tx"][1]
  <2>1. f \in FromServer /\ held["tx"] = <<f>>
    BY <1>1, <1>4, Only
  <2> HIDE DEF f
  <2>2. sent \o held["tx"] = Append(sent, f)
    BY <1>1, <2>1, AddedOne
  <2>3. QED
    BY <1>2, <2>1, <2>2
<1>5. QED
  BY <1>3, <1>4

LEMMA ClientSends ==
  ASSUME ClientSide, Client!TxStep \/ UNCHANGED c_sent
  PROVE  c_sent' = c_sent \/ \E f \in OfClient : c_sent' = Append(c_sent, f)
<1>1. c_held["tx"] \in Seq(OfClient) /\ Len(c_held["tx"]) <= 1 /\ c_sent \in Seq(OfClient)
  BY ClientFrames
<1>2. c_sent' \in {c_sent, c_sent \o c_held["tx"]}
  BY DEF Client!TxStep, Client!tx_recv, Client!tx_send_to, Client!notice, Client!to_peer
<1>3. CASE c_held["tx"] = <<>>
  BY <1>1, <1>2, <1>3, AddedAll
<1>4. CASE c_held["tx"] # <<>>
  <2> DEFINE f == c_held["tx"][1]
  <2>1. f \in OfClient /\ c_held["tx"] = <<f>>
    BY <1>1, <1>4, Only
  <2> HIDE DEF f
  <2>2. c_sent \o c_held["tx"] = Append(c_sent, f)
    BY <1>1, <2>1, AddedOne
  <2>3. QED
    BY <1>2, <2>1, <2>2
<1>5. QED
  BY <1>3, <1>4

LEMMA NetworkInvInit == Init => NetworkInv
<1> SUFFICES ASSUME Init PROVE NetworkInv
  OBVIOUS
<1>1. /\ to_client = <<>> /\ to_server = <<>> /\ reached_client = <<>>
      /\ reached_server = <<>> /\ sent = <<>> /\ c_sent = <<>> /\ arrived = 0
      /\ c_arrived = 0
  BY DEF Init, Server!Init, Client!Init
<1>2. Way(orderly, <<>>, <<>>, <<>>)
  BY NumbersOfNone DEF Way, ToSet, Increasing
<1>3. QED
  BY <1>1, <1>2, Empty DEF NetworkInv

LEMMA NetworkInvStep ==
  ServerSide /\ ServerSide' /\ ClientSide /\ ClientSide' /\ NetworkInv /\ [Next]_vars
    => NetworkInv'
<1> SUFFICES ASSUME ServerSide, ServerSide', ClientSide, ClientSide', NetworkInv,
                    [Next]_vars
             PROVE  NetworkInv'
  OBVIOUS
<1>1. /\ to_client \in Seq(FromServer) /\ to_server \in Seq(OfClient)
      /\ reached_client \in Seq(Nat) /\ c_arrived = Len(reached_client)
      /\ reached_server \in Seq(Nat) /\ arrived = Len(reached_server)
      /\ Way(orderly, to_client, reached_client, sent)
      /\ Way(orderly, to_server, reached_server, c_sent)
  BY DEF NetworkInv
<1>2. sent \in Seq(FromServer) /\ c_sent \in Seq(OfClient)
  BY ServerFrames, ClientFrames
<1>3. Increasing(Numbers(sent')) /\ Increasing(Numbers(c_sent'))
  <2>1. Increasing(Numbers(sent))'
    BY ServerFrames, PTL
  <2>2. Increasing(Numbers(c_sent))'
    BY ClientFrames, PTL
  <2>3. QED
    BY <2>1, <2>2
<1>4. CASE server_works
  <2>1. UNCHANGED <<client, to_server, reached_client, reached_server, orderly>>
        /\ to_client' = to_client \o New(sent, sent') /\ arrived' = arrived
    BY <1>4 DEF server_works, faulty, Server!MainStep, Server!CaptureStep, Server!TxStep,
       Server!RxStep, Server!InjectStep, Server!build_capture_filter, Server!start,
       Server!main_select, Server!capture_send, Server!tx_recv, Server!tx_send_to,
       Server!notice, Server!rx_recv_from, Server!rx_clear, Server!rx_send,
       Server!blocking_recv, Server!sendpacket, Server!to_nic
  <2>2. c_arrived' = c_arrived /\ c_sent' = c_sent
    BY <2>1 DEF client
  <2>3. Server!TxStep \/ UNCHANGED sent
    BY <1>4 DEF server_works, Server!MainStep, Server!CaptureStep,
       Server!RxStep, Server!InjectStep, Server!build_capture_filter, Server!start,
       Server!main_select, Server!capture_send,
       Server!notice, Server!rx_recv_from, Server!rx_clear, Server!rx_send,
       Server!blocking_recv, Server!sendpacket, Server!to_peer
  <2>4. CASE sent' = sent
    <3>1. to_client' = to_client
      BY <1>1, <1>2, <2>1, <2>4, NoNewFrame, AddedAll
    <3>2. QED
      BY <1>1, <2>1, <2>2, <2>4, <3>1 DEF NetworkInv
  <2>5. ASSUME NEW f \in FromServer, sent' = Append(sent, f) PROVE NetworkInv'
    <3>1. to_client' = Append(to_client, f)
      BY <1>1, <1>2, <2>1, <2>5, NewFrame, AddedOne
    <3>2. to_client' \in Seq(FromServer)
      BY <1>1, <3>1, Appended
    <3>3. Increasing(Numbers(Append(sent, f)))
      BY <1>3, <2>5
    <3>4. Way(orderly, Append(to_client, f), reached_client, Append(sent, f))
      BY <1>1, <1>2, <3>3, FrameNumbers, WaySent
    <3>5. QED
      BY <1>1, <2>1, <2>2, <2>5, <3>1, <3>2, <3>4 DEF NetworkInv
  <2>6. QED
    BY <2>3, <2>4, <2>5, ServerSends
<1>5. CASE client_works
  <2>1. UNCHANGED <<server, to_client, reached_client, reached_server, orderly>>
        /\ to_server' = to_server \o New(c_sent, c_sent') /\ c_arrived' = c_arrived
    BY <1>5 DEF client_works, faulty, Client!ReadStep, Client!TxStep, Client!RxStep,
       Client!WriteStep, Client!open_device, Client!tap_send, Client!tx_recv,
       Client!tx_send_to, Client!notice, Client!rx_recv_from, Client!rx_blame,
       Client!rx_clear, Client!rx_send, Client!write_recv, Client!tap_write,
       Client!to_tap
  <2>2. arrived' = arrived /\ sent' = sent
    BY <2>1 DEF server
  <2>3. Client!TxStep \/ UNCHANGED c_sent
    BY <1>5 DEF client_works, Client!ReadStep, Client!RxStep,
       Client!WriteStep, Client!open_device, Client!tap_send,
       Client!notice, Client!rx_recv_from, Client!rx_blame,
       Client!rx_clear, Client!rx_send, Client!write_recv, Client!tap_write,
       Client!to_peer
  <2>4. CASE c_sent' = c_sent
    <3>1. to_server' = to_server
      BY <1>1, <1>2, <2>1, <2>4, NoNewFrame, AddedAll
    <3>2. QED
      BY <1>1, <2>1, <2>2, <2>4, <3>1 DEF NetworkInv
  <2>5. ASSUME NEW f \in OfClient, c_sent' = Append(c_sent, f) PROVE NetworkInv'
    <3>1. to_server' = Append(to_server, f)
      BY <1>1, <1>2, <2>1, <2>5, NewFrame, AddedOne
    <3>2. to_server' \in Seq(OfClient)
      BY <1>1, <3>1, Appended
    <3>3. Increasing(Numbers(Append(c_sent, f)))
      BY <1>3, <2>5
    <3>4. Way(orderly, Append(to_server, f), reached_server, Append(c_sent, f))
      BY <1>1, <1>2, <3>3, FrameNumbers, WaySent
    <3>5. QED
      BY <1>1, <2>1, <2>2, <2>5, <3>1, <3>2, <3>4 DEF NetworkInv
  <2>6. QED
    BY <2>3, <2>4, <2>5, ClientSends
<1>6. CASE deliver_to_client
  <2>1. PICK i \in DOMAIN to_client :
          /\ \E left \in {to_client, RemoveAt(to_client, i)} :
               Takes(to_client, i, left) /\ to_client' = left
          /\ reached_client' = Append(reached_client, to_client[i].n)
    BY <1>6 DEF deliver_to_client
  <2>2. PICK left \in {to_client, RemoveAt(to_client, i)} :
          Takes(to_client, i, left) /\ to_client' = left
    BY <2>1
  <2>3. orderly' => orderly /\ i = 1 /\ left = Tail(to_client)
    BY <2>2 DEF Takes
  <2>4. Way(orderly', left, reached_client', sent)
    BY <1>1, <2>1, <2>3, FrameNumbers, WayDelivered
  <2>5. Way(orderly', to_server, reached_server, c_sent)
    BY <1>1, <2>3, WayKept
  <2>6. /\ UNCHANGED <<to_server, reached_server, sent, c_sent, arrived>>
        /\ c_arrived' = c_arrived + 1
    BY <1>6 DEF deliver_to_client, server, Client!datagram, Client!to_peer
  <2>7. to_client' \in Seq(FromServer)
    BY <1>1, <2>2, Removed
  <2>8. to_client[i].n \in Nat
    BY <1>1, FrameNumbers
  <2>9. reached_client' \in Seq(Nat) /\ Len(reached_client') = Len(reached_client) + 1
    BY <1>1, <2>1, <2>8, Appended
  <2>10. QED
    BY <1>1, <2>2, <2>4, <2>5, <2>6, <2>7, <2>9 DEF NetworkInv
<1>7. CASE deliver_to_server
  <2>1. PICK i \in DOMAIN to_server :
          /\ \E left \in {to_server, RemoveAt(to_server, i)} :
               Takes(to_server, i, left) /\ to_server' = left
          /\ reached_server' = Append(reached_server, to_server[i].n)
    BY <1>7 DEF deliver_to_server
  <2>2. PICK left \in {to_server, RemoveAt(to_server, i)} :
          Takes(to_server, i, left) /\ to_server' = left
    BY <2>1
  <2>3. orderly' => orderly /\ i = 1 /\ left = Tail(to_server)
    BY <2>2 DEF Takes
  <2>4. Way(orderly', left, reached_server', c_sent)
    BY <1>1, <2>1, <2>3, FrameNumbers, WayDelivered
  <2>5. Way(orderly', to_client, reached_client, sent)
    BY <1>1, <2>3, WayKept
  <2>6. /\ UNCHANGED <<to_client, reached_client, sent, c_sent, c_arrived>>
        /\ arrived' = arrived + 1
    BY <1>7 DEF deliver_to_server, client, Server!datagram, Server!to_peer
  <2>7. to_server' \in Seq(OfClient)
    BY <1>1, <2>2, Removed
  <2>8. to_server[i].n \in Nat
    BY <1>1, FrameNumbers
  <2>9. reached_server' \in Seq(Nat) /\ Len(reached_server') = Len(reached_server) + 1
    BY <1>1, <2>1, <2>8, Appended
  <2>10. QED
    BY <1>1, <2>2, <2>4, <2>5, <2>6, <2>7, <2>9 DEF NetworkInv
<1>8. CASE refuse \/ lose
  <2>1. /\ UNCHANGED <<reached_client, reached_server, orderly, sent, c_sent, arrived,
                       c_arrived>>
        /\ \/ to_client # <<>> /\ to_client' = Tail(to_client) /\ UNCHANGED to_server
           \/ to_server # <<>> /\ to_server' = Tail(to_server) /\ UNCHANGED to_client
    BY <1>8 DEF refuse, lose, server, client, faulty, Client!port_unreachable,
       Client!to_peer, Client!to_tap
  <2>2. CASE to_client # <<>> /\ to_client' = Tail(to_client) /\ UNCHANGED to_server
    <3>1. to_client' \in Seq(FromServer)
      BY <1>1, <2>2, Popped
    <3>2. Way(orderly, Tail(to_client), reached_client, sent)
      BY <1>1, <2>2, FrameNumbers, WayLost
    <3>3. QED
      BY <1>1, <2>1, <2>2, <3>1, <3>2 DEF NetworkInv
  <2>3. CASE to_server # <<>> /\ to_server' = Tail(to_server) /\ UNCHANGED to_client
    <3>1. to_server' \in Seq(OfClient)
      BY <1>1, <2>3, Popped
    <3>2. Way(orderly, Tail(to_server), reached_server, c_sent)
      BY <1>1, <2>3, FrameNumbers, WayLost
    <3>3. QED
      BY <1>1, <2>1, <2>3, <3>1, <3>2 DEF NetworkInv
  <2>4. QED
    BY <2>1, <2>2, <2>3
<1>9. CASE UNCHANGED <<network, orderly, sent, c_sent, arrived, c_arrived>>
  BY <1>1, <1>9 DEF NetworkInv, network
<1>10. CASE server_captures \/ client_reads \/ server_stops \/ server_restarts
            \/ UNCHANGED vars
  <2>1. UNCHANGED <<network, orderly, sent, c_sent, arrived, c_arrived>>
    BY <1>10 DEF server_captures, client_reads, server_stops, server_restarts, vars,
       server, client, faulty, Server!next_packet, Server!to_nic, Server!ctrl_c,
       Server!to_peer, Client!tap_read, Client!to_tap
  <2>2. QED
    BY <1>9, <2>1
<1>11. QED
  BY <1>4, <1>5, <1>6, <1>7, <1>8, <1>10 DEF Next, Delivers

LEMMA OrderFollows == ServerSide /\ ClientSide /\ NetworkInv => InOrderOnce
<1> SUFFICES ASSUME ServerSide, ClientSide, NetworkInv, orderly
             PROVE  Increasing(OnTap) /\ Increasing(OnNic)
  BY DEF InOrderOnce
<1>1. /\ to_client \in Seq(FromServer) /\ to_server \in Seq(OfClient)
      /\ reached_client \in Seq(Nat) /\ c_arrived = Len(reached_client)
      /\ reached_server \in Seq(Nat) /\ arrived = Len(reached_server)
      /\ Increasing(reached_client \o Numbers(to_client))
      /\ Increasing(reached_server \o Numbers(to_server))
  BY DEF NetworkInv, Way
<1>2. Numbers(to_client) \in Seq(Nat) /\ Numbers(to_server) \in Seq(Nat)
  BY <1>1, FrameNumbers, NumbersType
<1>3. Increasing(reached_client) /\ Increasing(reached_server)
  BY <1>1, <1>2, IncreasingStart
<1>4. Increasing(OnTap)
  BY <1>1, <1>3, ClientFrames, IncreasingThrough DEF OnTap
<1>5. Increasing(OnNic)
  BY <1>1, <1>3, ServerFrames, IncreasingThrough DEF OnNic
<1>6. QED
  BY <1>4, <1>5

\* If the network keeps the order, so does the tunnel, whatever its two ends,
\* full channels, losses and stops of the server come to: the TAP gets frames in
\* the order of their capture, the NIC in the order in which the TAP gave them,
\* none twice (src/client.rs, src/server.rs).
THEOREM TunnelKeepsOrder == Spec => []InOrderOnce
<1>1. ServerSide /\ [Next]_vars => ServerSide'
  BY ServerStep, ServerSideStep, RestartKeepsServer
<1>2. QED
  BY <1>1, ServerSideInit, ClientSideInit, ClientSideStep, NetworkInvInit,
     NetworkInvStep, OrderFollows, PTL DEF Spec

----------------------------------------------------------------------------
(* No frame vanishes.  For each end: where the frames are that it took and *)
(* has not sent, and the arrivals that it has not let go.                  *)

ServerOut == NumbersIn(held["capture"]) \cup NumbersIn(cap_chan) \cup NumbersIn(held["tx"])
ServerIn  == ToSet(socket) \cup ToSet(held["rx"]) \cup ToSet(inj_chan)
               \cup ToSet(held["inject"])
ClientOut == ToSet(c_held["read"]) \cup ToSet(tap_chan) \cup NumbersIn(c_held["tx"])
ClientIn  == ToSet(c_socket) \cup ToSet(c_held["rx"]) \cup ToSet(udp_chan)
               \cup ToSet(c_held["write"])

\* Each frame an end took it holds, has sent or knows to be lost.
TakenInv ==
  /\ captured \in Nat /\ 1..captured \subseteq ServerOut \cup NumbersIn(sent) \cup lost.server
  /\ read \in Nat /\ 1..read \subseteq ClientOut \cup NumbersIn(c_sent) \cup lost.client

\* Each frame sent is under way, has reached the other end or is lost.
SentInv ==
  /\ NumbersIn(sent) \subseteq NumbersIn(to_client) \cup ToSet(reached_client) \cup lost.server
  /\ NumbersIn(c_sent) \subseteq NumbersIn(to_server) \cup ToSet(reached_server) \cup lost.client

\* Each arrival is held, let go or lost.
ArrivedInv ==
  /\ 1..c_arrived \subseteq ClientIn \cup ToSet(written)
  /\ \A a \in 1..arrived :
       a \in ServerIn \cup ToSet(injected) \/ reached_server[a] \in lost.client

\* A server that runs has all its threads; what one that stopped held is lost.
StopInv ==
  /\ ~reset_pending
  /\ \A t \in {"capture", "tx", "rx", "inject"} : pc[t] # "ended"
  /\ pc["main"] = "returned" =>
       /\ ServerOut \subseteq lost.server
       /\ \A a \in ServerIn : reached_server[a] \in lost.client

LostInv == lost = [server |-> lost.server, client |-> lost.client]

AccountInv == TakenInv /\ SentInv /\ ArrivedInv /\ StopInv /\ LostInv

LEMMA NumbersInBoth ==
  ASSUME NEW S, NEW s \in Seq(S), NEW t \in Seq(S)
  PROVE  NumbersIn(s \o t) = NumbersIn(s) \cup NumbersIn(t)
BY MembersOfBoth DEF NumbersIn

LEMMA NumbersInRest ==
  ASSUME NEW S, NEW s \in Seq(S), s # <<>>
  PROVE  NumbersIn(s) = {Head(s).n} \cup NumbersIn(Tail(s))
BY MembersOfRest DEF NumbersIn

LEMMA NumbersInAppend ==
  ASSUME NEW S, NEW s \in Seq(S), NEW x \in S
  PROVE  NumbersIn(Append(s, x)) = NumbersIn(s) \cup {x.n}
BY MembersOfAppend DEF NumbersIn

LEMMA NumbersInFew ==
  NumbersIn(<<>>) = {} /\ \A x : NumbersIn(<<x>>) = {x.n}
BY MembersOfNone, MembersOfOne DEF NumbersIn

\* One frame is taken from a way of the network, or only copied.
LEMMA NumbersInTaken ==
  ASSUME NEW S, NEW way \in Seq(S), NEW i \in DOMAIN way, NEW left, Takes(way, i, left)
  PROVE  NumbersIn(way) \subseteq NumbersIn(left) \cup {way[i].n}
<1>1. CASE i = 1 /\ left = Tail(way)
  <2>1. way # <<>> /\ Head(way) = way[i]
    BY <1>1
  <2>2. QED
    BY <1>1, <2>1, NumbersInRest
<1>2. CASE left = way
  BY <1>2
<1>3. CASE left = RemoveAt(way, i)
  BY <1>3, MembersButOne DEF NumbersIn
<1>4. QED
  BY <1>1, <1>2, <1>3 DEF Takes

LEMMA ServerHands ==
  ServerSide => /\ pc \in [Server!Threads -> Server!Labels] /\ DOMAIN held = Server!Threads
                /\ held["capture"] \in Seq(FromServer) /\ cap_chan \in Seq(FromServer)
                /\ held["tx"] \in Seq(FromServer) /\ sent \in Seq(FromServer)
                /\ held["rx"] \in Seq(Nat) /\ inj_chan \in Seq(Nat)
                /\ held["inject"] \in Seq(Nat) /\ socket \in Seq(Nat) /\ injected \in Seq(Nat)
                /\ captured \in Nat /\ arrived \in Nat
<1> SUFFICES ASSUME ServerSide
             PROVE  /\ pc \in [Server!Threads -> Server!Labels]
                    /\ DOMAIN held = Server!Threads
                    /\ held["capture"] \in Seq(FromServer) /\ cap_chan \in Seq(FromServer)
                    /\ held["tx"] \in Seq(FromServer) /\ sent \in Seq(FromServer)
                    /\ held["rx"] \in Seq(Nat) /\ inj_chan \in Seq(Nat)
                    /\ held["inject"] \in Seq(Nat) /\ socket \in Seq(Nat)
                    /\ injected \in Seq(Nat) /\ captured \in Nat /\ arrived \in Nat
  OBVIOUS
<1>1. ServerP!ControlInv /\ ServerP!SendInv /\ ServerP!RecvInv
  BY DEF ServerSide, ServerP!WireInv
<1>2. FromServer = ServerP!Captured
  BY DEF FromServer, Server!Captured, ServerP!Captured, Server!Kinds, ServerP!Kinds,
     Server!OwnKinds, ServerP!OwnKinds
<1>3. \A s \in Seq(ServerP!Arrived) : s \in Seq(Nat)
  BY WireFrames, Within DEF ServerP!Arrived
<1>4. Server!Threads = ServerP!Threads /\ Server!Labels = ServerP!Labels
  BY DEF Server!Threads, ServerP!Threads, Server!Labels, ServerP!Labels
<1>5. captured \in Nat /\ arrived \in Nat
  BY <1>1 DEF ServerP!SendInv, ServerP!RecvInv
<1>6. QED
  BY <1>1, <1>2, <1>3, <1>4, <1>5 DEF ServerP!ControlInv, ServerP!SendInv, ServerP!RecvInv

LEMMA ClientHands ==
  ClientSide => /\ c_pc \in [Client!Threads -> Client!Labels]
                /\ DOMAIN c_held = Client!Threads
                /\ c_held["read"] \in Seq(Nat) /\ tap_chan \in Seq(Nat)
                /\ c_held["tx"] \in Seq(OfClient) /\ c_sent \in Seq(OfClient)
                /\ c_held["rx"] \in Seq(Nat) /\ udp_chan \in Seq(Nat)
                /\ c_held["write"] \in Seq(Nat) /\ c_socket \in Seq(Nat)
                /\ written \in Seq(Nat) /\ read \in Nat /\ c_arrived \in Nat
<1> SUFFICES ASSUME ClientSide
             PROVE  /\ c_pc \in [Client!Threads -> Client!Labels]
                    /\ DOMAIN c_held = Client!Threads
                    /\ c_held["read"] \in Seq(Nat) /\ tap_chan \in Seq(Nat)
                    /\ c_held["tx"] \in Seq(OfClient) /\ c_sent \in Seq(OfClient)
                    /\ c_held["rx"] \in Seq(Nat) /\ udp_chan \in Seq(Nat)
                    /\ c_held["write"] \in Seq(Nat) /\ c_socket \in Seq(Nat)
                    /\ written \in Seq(Nat) /\ read \in Nat /\ c_arrived \in Nat
  OBVIOUS
<1>1. ClientP!ControlInv /\ ClientP!HandInv /\ ClientP!CountInv /\ ClientP!SendInv
      /\ ClientP!RecvInv
  BY DEF ClientSide, ClientP!WireInv
<1>2. OfClient = ClientP!Outgoing
  BY DEF OfClient, Client!Outgoing, ClientP!Outgoing
<1>3. /\ \A s \in Seq(ClientP!Received) : s \in Seq(Nat)
      /\ \A s \in Seq(ClientP!Taken) : s \in Seq(Nat)
  BY WireFrames, Within DEF ClientP!Received, ClientP!Taken
<1>4. Client!Threads = ClientP!Threads /\ Client!Labels = ClientP!Labels
  BY DEF Client!Threads, ClientP!Threads, Client!Labels, ClientP!Labels
<1>5. read \in Nat /\ c_arrived \in Nat
  BY <1>1 DEF ClientP!CountInv
<1>6. QED
  BY <1>1, <1>2, <1>3, <1>4, <1>5
  DEF ClientP!ControlInv, ClientP!HandInv, ClientP!SendInv, ClientP!RecvInv

----------------------------------------------------------------------------
\* The ends at work.  Who takes from one place puts it into the next.

LEMMA Lost ==
  ASSUME LostInv, NEW end \in {"server", "client"}, NEW frames, Lose(end, frames)
  PROVE  /\ LostInv' /\ lost.server \subseteq lost'.server /\ lost.client \subseteq lost'.client
         /\ frames \subseteq lost'[end]
BY DEF LostInv, Lose

LEMMA LostNot ==
  ASSUME LostInv, UNCHANGED lost
  PROVE  LostInv' /\ lost.server \subseteq lost'.server /\ lost.client \subseteq lost'.client
BY DEF LostInv

ServerKeeps ==
  /\ ServerOut \cup NumbersIn(sent) \subseteq ServerOut' \cup NumbersIn(sent')
  /\ \A a \in ServerIn \cup ToSet(injected) :
       a \in ServerIn' \cup ToSet(injected') \/ reached_server[a] \in lost'.client
  /\ LostInv' /\ lost.server \subseteq lost'.server /\ lost.client \subseteq lost'.client
  /\ StopInv' /\ captured' = captured /\ arrived' = arrived

ClientKeeps ==
  /\ ClientOut \cup NumbersIn(c_sent)
       \subseteq ClientOut' \cup NumbersIn(c_sent') \cup lost'.client
  /\ ClientIn \cup ToSet(written) \subseteq ClientIn' \cup ToSet(written')
  /\ LostInv' /\ lost.server \subseteq lost'.server /\ lost.client \subseteq lost'.client
  /\ read' = read /\ c_arrived' = c_arrived

LEMMA ServerWorks ==
  ASSUME ServerSide, StopInv, LostInv, server_works
  PROVE  ServerKeeps
<1>1. /\ pc \in [Server!Threads -> Server!Labels] /\ DOMAIN held = Server!Threads
      /\ held["capture"] \in Seq(FromServer) /\ cap_chan \in Seq(FromServer)
      /\ held["tx"] \in Seq(FromServer) /\ sent \in Seq(FromServer)
      /\ held["rx"] \in Seq(Nat) /\ inj_chan \in Seq(Nat)
      /\ held["inject"] \in Seq(Nat) /\ socket \in Seq(Nat) /\ injected \in Seq(Nat)
  BY ServerHands
<1>2. ASSUME NEW t \in Server!Threads, NEW frames, Server!Hold(t, frames)
      PROVE  held'[t] = frames /\ \A u \in Server!Threads \ {t} : held'[u] = held[u]
  BY <1>1, <1>2 DEF Server!Hold
<1>3. ASSUME NEW t \in Server!Threads, NEW label, Server!Goto(t, label)
      PROVE  pc'[t] = label /\ \A u \in Server!Threads \ {t} : pc'[u] = pc[u]
  BY <1>1, <1>3 DEF Server!Goto
<1>4. \A t \in Server!Threads : pc'[t] \notin {"ended", "failed"}
  BY DEF server_works
<1>5. ~reset_pending /\ \A t \in {"capture", "tx", "rx", "inject"} : pc[t] # "ended"
  BY DEF StopInv
<1>6. LostInv' /\ lost.server \subseteq lost'.server /\ lost.client \subseteq lost'.client
  BY Lost, LostNot DEF server_works
<1>7. /\ {"main", "capture", "tx", "rx", "inject"} = Server!Threads
      /\ UNCHANGED reached_server
  BY DEF Server!Threads, server_works, network
<1>8. ASSUME ~reset_pending', pc["main"] # "returned" /\ pc'["main"] # "returned"
      PROVE  StopInv'
  BY <1>4, <1>7, <1>8 DEF StopInv
<1>9. ASSUME UNCHANGED <<cap_chan, sent, captured, reset_pending, held, inj_chan, socket,
                         injected, arrived>>,
             pc["main"] # "returned" /\ pc'["main"] # "returned"
      PROVE  ServerKeeps
  BY <1>5, <1>6, <1>8, <1>9 DEF ServerOut, ServerIn, ServerKeeps
<1>10. ASSUME UNCHANGED <<inj_chan, socket, injected, arrived, captured, reset_pending>>,
              \A t \in {"rx", "inject"} : held'[t] = held[t],
              pc["main"] # "returned" /\ pc'["main"] # "returned",
              ServerOut \cup NumbersIn(sent) \subseteq ServerOut' \cup NumbersIn(sent')
       PROVE  ServerKeeps
  BY <1>5, <1>6, <1>8, <1>10 DEF ServerIn, ServerKeeps
<1>11. ASSUME UNCHANGED <<cap_chan, sent, captured, arrived, reset_pending>>,
              \A t \in {"capture", "tx"} : held'[t] = held[t],
              pc["main"] # "returned" /\ pc'["main"] # "returned",
              \A a \in ServerIn \cup ToSet(injected) :
                a \in ServerIn' \cup ToSet(injected') \/ reached_server[a] \in lost'.client
       PROVE  ServerKeeps
  BY <1>5, <1>6, <1>8, <1>11 DEF ServerOut, ServerKeeps
<1>12. CASE Server!build_capture_filter \/ Server!start \/ Server!main_select
  <2>1. UNCHANGED <<cap_chan, sent, captured, reset_pending, held, inj_chan, socket,
                    injected, arrived>>
    BY <1>12 DEF Server!build_capture_filter, Server!start, Server!main_select,
       Server!to_peer, Server!to_nic, Server!icmp
  <2>2. ~Server!main_select
    BY <1>5 DEF Server!main_select
  <2>3. pc["main"] # "returned" /\ pc'["main"] # "returned"
    BY <1>3, <1>7, <1>12, <2>2 DEF Server!build_capture_filter, Server!start
  <2>4. QED
    BY <1>9, <2>1, <2>3
<1>13. CASE Server!Up
  <2>1. pc["main"] # "returned"
    BY <1>13 DEF Server!Up
  <2>2. CASE Server!capture_send
    <3>1. cap_chan' = cap_chan \o held["capture"] /\ Server!Hold("capture", <<>>)
          /\ Server!Goto("capture", "idle")
      BY <1>4, <1>5, <2>2 DEF Server!capture_send
    <3>2. UNCHANGED <<inj_chan, socket, injected, arrived, captured, sent, reset_pending>>
      BY <2>2 DEF Server!capture_send, Server!to_nic, Server!icmp
    <3>3. /\ held'["capture"] = <<>> /\ held'["tx"] = held["tx"]
          /\ \A t \in {"rx", "inject"} : held'[t] = held[t]
      BY <1>2, <1>7, <3>1
    <3>4. pc'["main"] = pc["main"]
      BY <1>3, <1>7, <3>1
    <3>5. NumbersIn(cap_chan') = NumbersIn(cap_chan) \cup NumbersIn(held["capture"])
      BY <1>1, <3>1, NumbersInBoth
    <3>6. ServerOut \cup NumbersIn(sent) \subseteq ServerOut' \cup NumbersIn(sent')
      BY <3>2, <3>3, <3>5 DEF ServerOut
    <3>7. QED
      BY <1>10, <2>1, <3>2, <3>3, <3>4, <3>6
  <2>3. CASE Server!tx_recv
    <3>1. cap_chan # <<>> /\ Server!Hold("tx", <<Head(cap_chan)>>) /\ cap_chan' = Tail(cap_chan)
          /\ Server!Goto("tx", "send")
      BY <1>5, <2>3 DEF Server!tx_recv
    <3>2. UNCHANGED <<inj_chan, socket, injected, arrived, captured, sent, reset_pending>>
      BY <2>3 DEF Server!tx_recv, Server!to_nic, Server!icmp
    <3>3. /\ held'["tx"] = <<Head(cap_chan)>> /\ held'["capture"] = held["capture"]
          /\ \A t \in {"rx", "inject"} : held'[t] = held[t]
      BY <1>2, <1>7, <3>1
    <3>4. pc'["main"] = pc["main"]
      BY <1>3, <1>7, <3>1
    <3>5. NumbersIn(cap_chan) = NumbersIn(held'["tx"]) \cup NumbersIn(cap_chan')
      BY <1>1, <3>1, <3>3, NumbersInRest, NumbersInFew
    <3>6. held["tx"] = <<>>
      BY <2>3 DEF ServerSide, ServerP!WireInv, ServerP!IdleInv, Server!tx_recv
    <3>7. ServerOut \cup NumbersIn(sent) \subseteq ServerOut' \cup NumbersIn(sent')
      BY <3>2, <3>3, <3>5, <3>6, NumbersInFew DEF ServerOut
    <3>8. QED
      BY <1>10, <2>1, <3>2, <3>3, <3>4, <3>7
  <2>4. CASE Server!tx_send_to
    <3>1. sent' = sent \o held["tx"] /\ Server!Hold("tx", <<>>) /\ Server!Goto("tx", "idle")
          /\ UNCHANGED <<cap_chan, reset_pending>>
      <4>1. ~Server!Goto("tx", "ended")
        BY <1>3, <1>4, <1>7
      <4>2. QED
        BY <1>5, <2>4, <4>1 DEF Server!tx_send_to
    <3>2. UNCHANGED <<inj_chan, socket, injected, arrived, captured>>
      BY <2>4 DEF Server!tx_send_to, Server!to_nic
    <3>3. /\ held'["tx"] = <<>> /\ held'["capture"] = held["capture"]
          /\ \A t \in {"rx", "inject"} : held'[t] = held[t]
      BY <1>2, <1>7, <3>1
    <3>4. pc'["main"] = pc["main"]
      BY <1>3, <1>7, <3>1
    <3>5. NumbersIn(sent') = NumbersIn(sent) \cup NumbersIn(held["tx"])
      BY <1>1, <3>1, NumbersInBoth
    <3>6. ServerOut \cup NumbersIn(sent) \subseteq ServerOut' \cup NumbersIn(sent')
      BY <3>1, <3>3, <3>5 DEF ServerOut
    <3>7. QED
      BY <1>10, <2>1, <3>1, <3>2, <3>3, <3>4, <3>6
  <2>5. CASE Server!notice("tx") \/ Server!notice("rx") \/ Server!rx_clear
    <3>1. UNCHANGED <<cap_chan, sent, captured, reset_pending, held, inj_chan, socket,
                      injected, arrived>>
      BY <2>5 DEF Server!notice, Server!rx_clear, Server!to_peer, Server!to_nic, Server!icmp
    <3>2. pc'["main"] = pc["main"]
      BY <1>3, <1>7, <2>5 DEF Server!notice, Server!rx_clear
    <3>3. QED
      BY <1>9, <2>1, <3>1, <3>2
  <2>6. CASE Server!rx_recv_from
    <3>1. /\ socket # <<>> /\ Server!Hold("rx", <<Head(socket)>>) /\ socket' = Tail(socket)
          /\ Server!Goto("rx", "clear") /\ UNCHANGED reset_pending
      BY <1>5, <2>6 DEF Server!rx_recv_from
    <3>2. UNCHANGED <<cap_chan, sent, captured, arrived, inj_chan, injected>>
      BY <2>6 DEF Server!rx_recv_from, Server!to_peer
    <3>3. /\ held'["rx"] = <<Head(socket)>> /\ held'["inject"] = held["inject"]
          /\ \A t \in {"capture", "tx"} : held'[t] = held[t]
      BY <1>2, <1>7, <3>1
    <3>4. pc'["main"] = pc["main"]
      BY <1>3, <1>7, <3>1
    <3>5. ToSet(socket) = ToSet(held'["rx"]) \cup ToSet(socket')
      BY <1>1, <3>1, <3>3, MembersOfRest, MembersOfOne
    <3>6. held["rx"] = <<>>
      BY <2>6 DEF ServerSide, ServerP!WireInv, ServerP!IdleInv, Server!rx_recv_from
    <3>7. \A a \in ServerIn \cup ToSet(injected) : a \in ServerIn' \cup ToSet(injected')
      BY <3>2, <3>3, <3>5, <3>6, MembersOfNone DEF ServerIn
    <3>8. QED
      BY <1>11, <2>1, <3>1, <3>2, <3>3, <3>4, <3>7
  <2>7. CASE Server!rx_send
    <3>1. inj_chan' = inj_chan \o held["rx"] /\ Server!Hold("rx", <<>>)
          /\ Server!Goto("rx", "idle")
      BY <2>7 DEF Server!rx_send
    <3>2. UNCHANGED <<cap_chan, sent, captured, arrived, socket, injected, reset_pending>>
      BY <2>7 DEF Server!rx_send, Server!to_peer, Server!icmp
    <3>3. /\ held'["rx"] = <<>> /\ held'["inject"] = held["inject"]
          /\ \A t \in {"capture", "tx"} : held'[t] = held[t]
      BY <1>2, <1>7, <3>1
    <3>4. pc'["main"] = pc["main"]
      BY <1>3, <1>7, <3>1
    <3>5. ToSet(inj_chan') = ToSet(inj_chan) \cup ToSet(held["rx"])
      BY <1>1, <3>1, MembersOfBoth
    <3>6. \A a \in ServerIn \cup ToSet(injected) : a \in ServerIn' \cup ToSet(injected')
      BY <3>2, <3>3, <3>5 DEF ServerIn
    <3>7. QED
      BY <1>11, <2>1, <3>2, <3>3, <3>4, <3>6
  <2>8. CASE Server!blocking_recv
    <3>1. inj_chan # <<>> /\ Server!Hold("inject", <<Head(inj_chan)>>)
          /\ inj_chan' = Tail(inj_chan) /\ Server!Goto("inject", "send")
      BY <1>5, <2>8 DEF Server!blocking_recv
    <3>2. UNCHANGED <<cap_chan, sent, captured, arrived, socket, injected, reset_pending>>
      BY <2>8 DEF Server!blocking_recv, Server!to_peer, Server!icmp
    <3>3. /\ held'["inject"] = <<Head(inj_chan)>> /\ held'["rx"] = held["rx"]
          /\ \A t \in {"capture", "tx"} : held'[t] = held[t]
      BY <1>2, <1>7, <3>1
    <3>4. pc'["main"] = pc["main"]
      BY <1>3, <1>7, <3>1
    <3>5. ToSet(inj_chan) = ToSet(held'["inject"]) \cup ToSet(inj_chan')
      BY <1>1, <3>1, <3>3, MembersOfRest, MembersOfOne
    <3>6. held["inject"] = <<>>
      BY <2>8 DEF ServerSide, ServerP!WireInv, ServerP!IdleInv, Server!blocking_recv
    <3>7. \A a \in ServerIn \cup ToSet(injected) : a \in ServerIn' \cup ToSet(injected')
      BY <3>2, <3>3, <3>5, <3>6, MembersOfNone DEF ServerIn
    <3>8. QED
      BY <1>11, <2>1, <3>2, <3>3, <3>4, <3>7
  <2>9. CASE Server!sendpacket
    <3>1. Server!Hold("inject", <<>>) /\ Server!Goto("inject", "idle")
          /\ pc["inject"] = "send" /\ injected' \in {injected, injected \o held["inject"]}
      BY <2>9 DEF Server!sendpacket
    <3>2. UNCHANGED <<cap_chan, sent, captured, arrived, socket, inj_chan, reset_pending>>
      BY <2>9 DEF Server!sendpacket, Server!to_peer, Server!icmp
    <3>3. /\ held'["inject"] = <<>> /\ held'["rx"] = held["rx"]
          /\ \A t \in {"capture", "tx"} : held'[t] = held[t]
      BY <1>2, <1>7, <3>1
    <3>4. pc'["main"] = pc["main"] /\ pc'["inject"] = "idle"
      BY <1>3, <1>7, <3>1
    <3>5. CASE injected' = injected
      <4>1. Lose("client", FromClient(held["inject"]))
        BY <3>1, <3>4, <3>5 DEF server_works
      <4>2. FromClient(held["inject"]) \subseteq lost'["client"]
        BY <4>1, Lost
      <4>3. \A a \in ToSet(held["inject"]) : reached_server[a] \in lost'.client
        BY <4>2 DEF FromClient
      <4>4. \A a \in ServerIn \cup ToSet(injected) :
              a \in ServerIn' \cup ToSet(injected') \/ reached_server[a] \in lost'.client
        BY <3>2, <3>3, <3>5, <4>3 DEF ServerIn
      <4>5. QED
        BY <1>11, <2>1, <3>2, <3>3, <3>4, <4>4
    <3>6. CASE injected' = injected \o held["inject"]
      <4>1. ToSet(injected') = ToSet(injected) \cup ToSet(held["inject"])
        BY <1>1, <3>6, MembersOfBoth
      <4>2. \A a \in ServerIn \cup ToSet(injected) : a \in ServerIn' \cup ToSet(injected')
        BY <3>2, <3>3, <4>1 DEF ServerIn
      <4>3. QED
        BY <1>11, <2>1, <3>2, <3>3, <3>4, <4>2
    <3>7. QED
      BY <3>1, <3>5, <3>6
  <2>10. QED
    BY <1>12, <2>2, <2>3, <2>4, <2>5, <2>6, <2>7, <2>8, <2>9
    DEF server_works, Server!MainStep, Server!CaptureStep, Server!TxStep, Server!RxStep,
        Server!InjectStep
<1>14. QED
  BY <1>12, <1>13
  DEF server_works, Server!MainStep, Server!CaptureStep, Server!TxStep, Server!RxStep,
      Server!InjectStep, Server!capture_send, Server!tx_recv, Server!tx_send_to,
      Server!notice, Server!rx_recv_from, Server!rx_clear, Server!rx_send,
      Server!blocking_recv, Server!sendpacket

LEMMA ClientWorks ==
  ASSUME ClientSide, LostInv, client_works
  PROVE  ClientKeeps
<1>1. /\ c_pc \in [Client!Threads -> Client!Labels] /\ DOMAIN c_held = Client!Threads
      /\ c_held["read"] \in Seq(Nat) /\ tap_chan \in Seq(Nat)
      /\ c_held["tx"] \in Seq(OfClient) /\ c_sent \in Seq(OfClient)
      /\ c_held["rx"] \in Seq(Nat) /\ udp_chan \in Seq(Nat)
      /\ c_held["write"] \in Seq(Nat) /\ c_socket \in Seq(Nat) /\ written \in Seq(Nat)
  BY ClientHands
<1>2. ASSUME NEW t \in Client!Threads, NEW frames, Client!Hold(t, frames)
      PROVE  c_held'[t] = frames /\ \A u \in Client!Threads \ {t} : c_held'[u] = c_held[u]
  BY <1>1, <1>2 DEF Client!Hold
<1>3. ASSUME NEW t \in Client!Threads, NEW label, Client!Goto(t, label)
      PROVE  c_pc'[t] = label
  BY <1>1, <1>3 DEF Client!Goto
<1>4. \A t \in Client!Threads : c_pc'[t] # "ended"
  BY DEF client_works
<1>5. LostInv' /\ lost.server \subseteq lost'.server /\ lost.client \subseteq lost'.client
  BY Lost, LostNot DEF client_works
<1>6. {"read", "tx", "rx", "write"} \subseteq Client!Threads
  BY DEF Client!Threads
<1>7. \A t \in {"read", "tx", "rx", "write"} : ~Client!Goto(t, "ended")
  BY <1>3, <1>4, <1>6
<1>8. ASSUME UNCHANGED <<read, c_arrived, c_socket, udp_chan, written>>,
             \A t \in {"rx", "write"} : c_held'[t] = c_held[t],
             ClientOut \cup NumbersIn(c_sent)
               \subseteq ClientOut' \cup NumbersIn(c_sent') \cup lost'.client
      PROVE  ClientKeeps
  BY <1>5, <1>8 DEF ClientIn, ClientKeeps
<1>9. ASSUME UNCHANGED <<read, c_arrived, tap_chan, c_sent>>,
             \A t \in {"read", "tx"} : c_held'[t] = c_held[t],
             ClientIn \cup ToSet(written) \subseteq ClientIn' \cup ToSet(written')
      PROVE  ClientKeeps
  BY <1>5, <1>9 DEF ClientOut, ClientKeeps
<1>10. CASE \/ Client!open_device("read") \/ Client!open_device("write")
            \/ Client!notice("tx") \/ Client!notice("rx") \/ Client!rx_blame
            \/ Client!rx_clear
  <2>1. UNCHANGED <<read, c_arrived, c_socket, udp_chan, written, tap_chan, c_sent, c_held>>
    BY <1>10 DEF Client!open_device, Client!notice, Client!rx_blame, Client!rx_clear,
       Client!to_peer, Client!to_tap
  <2>2. QED
    BY <1>8, <2>1 DEF ClientOut
<1>11. CASE Client!tap_send
  <2>1. tap_chan' = tap_chan \o c_held["read"] /\ Client!Hold("read", <<>>)
    BY <1>7, <1>11 DEF Client!tap_send
  <2>2. UNCHANGED <<read, c_arrived, c_socket, udp_chan, written, c_sent>>
    BY <1>11 DEF Client!tap_send, Client!to_tap
  <2>3. /\ c_held'["read"] = <<>> /\ c_held'["tx"] = c_held["tx"]
        /\ \A t \in {"rx", "write"} : c_held'[t] = c_held[t]
    BY <1>2, <1>6, <2>1
  <2>4. ToSet(tap_chan') = ToSet(tap_chan) \cup ToSet(c_held["read"])
    BY <1>1, <2>1, MembersOfBoth
  <2>5. QED
    BY <1>8, <2>2, <2>3, <2>4 DEF ClientOut
<1>12. CASE Client!tx_recv
  <2>1. /\ tap_chan # <<>> /\ tap_chan' = Tail(tap_chan)
        /\ Client!Hold("tx", <<[n |-> Head(tap_chan), to |-> remote_shared]>>)
    BY <1>7, <1>12 DEF Client!tx_recv
  <2>2. UNCHANGED <<read, c_arrived, c_socket, udp_chan, written, c_sent>>
    BY <1>12 DEF Client!tx_recv, Client!to_tap
  <2>3. /\ c_held'["tx"] = <<[n |-> Head(tap_chan), to |-> remote_shared]>>
        /\ c_held'["read"] = c_held["read"]
        /\ \A t \in {"rx", "write"} : c_held'[t] = c_held[t]
    BY <1>2, <1>6, <2>1
  <2>4. NumbersIn(c_held'["tx"]) = {Head(tap_chan)}
    BY <2>3, NumbersInFew
  <2>5. ToSet(tap_chan) = {Head(tap_chan)} \cup ToSet(tap_chan')
    BY <1>1, <2>1, MembersOfRest
  <2>6. c_held["tx"] = <<>>
    BY <1>12 DEF ClientSide, ClientP!WireInv, ClientP!IdleInv, Client!tx_recv
  <2>7. QED
    BY <1>8, <2>2, <2>3, <2>4, <2>5, <2>6, NumbersInFew DEF ClientOut
<1>13. CASE Client!tx_send_to
  <2>1. /\ Client!Hold("tx", <<>>) /\ c_pc["tx"] = "send" /\ UNCHANGED tap_chan
        /\ \/ c_sent' = c_sent \o c_held["tx"]
           \/ Client!Goto("tx", "notice") /\ UNCHANGED c_sent
    BY <1>7, <1>13 DEF Client!tx_send_to
  <2>2. UNCHANGED <<read, c_arrived, c_socket, udp_chan, written>>
    BY <1>13 DEF Client!tx_send_to, Client!to_tap
  <2>3. /\ c_held'["tx"] = <<>> /\ c_held'["read"] = c_held["read"]
        /\ \A t \in {"rx", "write"} : c_held'[t] = c_held[t]
    BY <1>2, <1>6, <2>1
  <2>4. CASE c_sent' = c_sent \o c_held["tx"]
    <3>1. NumbersIn(c_sent') = NumbersIn(c_sent) \cup NumbersIn(c_held["tx"])
      BY <1>1, <2>4, NumbersInBoth
    <3>2. QED
      BY <1>8, <2>1, <2>2, <2>3, <3>1 DEF ClientOut
  <2>5. CASE Client!Goto("tx", "notice") /\ UNCHANGED c_sent
    <3>1. c_pc'["tx"] = "notice"
      BY <1>3, <1>6, <2>5
    <3>2. Lose("client", NumbersIn(c_held["tx"]))
      BY <2>1, <3>1 DEF client_works
    <3>3. NumbersIn(c_held["tx"]) \subseteq lost'["client"]
      BY <3>2, Lost
    <3>4. QED
      BY <1>8, <2>1, <2>2, <2>3, <2>5, <3>3 DEF ClientOut
  <2>6. QED
    BY <2>1, <2>4, <2>5
<1>14. CASE Client!rx_recv_from
  <2>1. UNCHANGED <<read, c_arrived, tap_chan, c_sent, udp_chan, written>>
    BY <1>14 DEF Client!rx_recv_from, Client!to_peer
  <2>2. CASE UNCHANGED <<c_held, c_socket>>
    BY <1>9, <2>1, <2>2 DEF ClientIn
  <2>3. CASE c_socket # <<>> /\ c_socket' = Tail(c_socket)
             /\ Client!Hold("rx", <<Head(c_socket)>>)
    <3>1. /\ c_held'["rx"] = <<Head(c_socket)>> /\ c_held'["write"] = c_held["write"]
          /\ \A t \in {"read", "tx"} : c_held'[t] = c_held[t]
      BY <1>2, <1>6, <2>3
    <3>2. ToSet(c_socket) = ToSet(c_held'["rx"]) \cup ToSet(c_socket')
      BY <1>1, <2>3, <3>1, MembersOfRest, MembersOfOne
    <3>3. c_held["rx"] = <<>>
      BY <1>14 DEF ClientSide, ClientP!WireInv, ClientP!IdleInv, Client!rx_recv_from
    <3>4. QED
      BY <1>9, <2>1, <3>1, <3>2, <3>3, MembersOfNone DEF ClientIn
  <2>4. QED
    BY <1>14, <2>2, <2>3 DEF Client!rx_recv_from
<1>15. CASE Client!rx_send
  <2>1. udp_chan' = udp_chan \o c_held["rx"] /\ Client!Hold("rx", <<>>)
    BY <1>7, <1>15 DEF Client!rx_send
  <2>2. UNCHANGED <<read, c_arrived, tap_chan, c_sent, c_socket, written>>
    BY <1>15 DEF Client!rx_send, Client!to_peer
  <2>3. /\ c_held'["rx"] = <<>> /\ c_held'["write"] = c_held["write"]
        /\ \A t \in {"read", "tx"} : c_held'[t] = c_held[t]
    BY <1>2, <1>6, <2>1
  <2>4. ToSet(udp_chan') = ToSet(udp_chan) \cup ToSet(c_held["rx"])
    BY <1>1, <2>1, MembersOfBoth
  <2>5. QED
    BY <1>9, <2>2, <2>3, <2>4 DEF ClientIn
<1>16. CASE Client!write_recv
  <2>1. udp_chan # <<>> /\ udp_chan' = Tail(udp_chan)
        /\ Client!Hold("write", <<Head(udp_chan)>>)
    BY <1>7, <1>16 DEF Client!write_recv
  <2>2. UNCHANGED <<read, c_arrived, tap_chan, c_sent, c_socket, written>>
    BY <1>16 DEF Client!write_recv, Client!to_peer
  <2>3. /\ c_held'["write"] = <<Head(udp_chan)>> /\ c_held'["rx"] = c_held["rx"]
        /\ \A t \in {"read", "tx"} : c_held'[t] = c_held[t]
    BY <1>2, <1>6, <2>1
  <2>4. ToSet(udp_chan) = ToSet(c_held'["write"]) \cup ToSet(udp_chan')
    BY <1>1, <2>1, <2>3, MembersOfRest, MembersOfOne
  <2>5. c_held["write"] = <<>>
    BY <1>16 DEF ClientSide, ClientP!WireInv, ClientP!IdleInv, Client!write_recv
  <2>6. QED
    BY <1>9, <2>2, <2>3, <2>4, <2>5, MembersOfNone DEF ClientIn
<1>17. CASE Client!tap_write
  <2>1. /\ Client!Hold("write", <<>>) /\ written' = written \o c_held["write"]
        /\ UNCHANGED udp_chan
    BY <1>7, <1>17 DEF Client!tap_write
  <2>2. UNCHANGED <<read, c_arrived, tap_chan, c_sent, c_socket>>
    BY <1>17 DEF Client!tap_write, Client!to_peer
  <2>3. /\ c_held'["write"] = <<>> /\ c_held'["rx"] = c_held["rx"]
        /\ \A t \in {"read", "tx"} : c_held'[t] = c_held[t]
    BY <1>2, <1>6, <2>1
  <2>4. ToSet(written') = ToSet(written) \cup ToSet(c_held["write"])
    BY <1>1, <2>1, MembersOfBoth
  <2>5. QED
    BY <1>9, <2>1, <2>2, <2>3, <2>4 DEF ClientIn
<1>18. QED
  BY <1>10, <1>11, <1>12, <1>13, <1>14, <1>15, <1>16, <1>17
  DEF client_works, Client!ReadStep, Client!TxStep, Client!RxStep, Client!WriteStep

----------------------------------------------------------------------------
\* The whole: what an end gives its socket is under way, and what the network
\* takes from there arrives or is known to be lost.

LEMMA AccountInit == Init => AccountInv
<1> SUFFICES ASSUME Init PROVE AccountInv
  OBVIOUS
<1>1. /\ captured = 0 /\ read = 0 /\ sent = <<>> /\ c_sent = <<>> /\ arrived = 0
      /\ c_arrived = 0 /\ reset_pending = FALSE /\ lost = [server |-> {}, client |-> {}]
      /\ pc = [t \in Server!Threads |-> IF t = "main" THEN "dispatch" ELSE "idle"]
  BY DEF Init, Server!Init, Client!Init
<1>2. TakenInv
  BY <1>1 DEF TakenInv
<1>3. SentInv
  BY <1>1, NumbersInFew DEF SentInv
<1>4. ArrivedInv
  BY <1>1 DEF ArrivedInv
<1>5. StopInv
  BY <1>1 DEF StopInv, Server!Threads
<1>6. LostInv
  BY <1>1 DEF LostInv
<1>7. QED
  BY <1>2, <1>3, <1>4, <1>5, <1>6 DEF AccountInv

LEMMA OneMore == ASSUME NEW n \in Nat PROVE 1..(n + 1) = 1..n \cup {n + 1}
OBVIOUS

\* One step of the server, the client or the network leaves the rest alone.
LEMMA ServerWorksAccount ==
  ASSUME ServerSide, NetworkInv, AccountInv, server_works PROVE AccountInv'
<1>1. ServerKeeps
  BY ServerWorks DEF AccountInv
<1>2. /\ UNCHANGED <<client, to_server, reached_client, reached_server>>
      /\ to_client' = to_client \o New(sent, sent')
  BY DEF server_works
<1>3. UNCHANGED <<read, c_sent, c_arrived, ClientOut, ClientIn, written>>
  BY <1>2 DEF client, ClientOut, ClientIn
<1>4. TakenInv'
  BY <1>1, <1>3 DEF AccountInv, TakenInv, ServerKeeps
<1>5. SentInv'
  <2>1. to_client \in Seq(FromServer) /\ sent \in Seq(FromServer)
    BY ServerHands DEF NetworkInv
  <2>2. Server!TxStep \/ UNCHANGED sent
    BY DEF server_works, Server!MainStep, Server!CaptureStep,
       Server!RxStep, Server!InjectStep, Server!build_capture_filter, Server!start,
       Server!main_select, Server!capture_send,
       Server!notice, Server!rx_recv_from, Server!rx_clear, Server!rx_send,
       Server!blocking_recv, Server!sendpacket, Server!to_peer
  <2>3. CASE sent' = sent
    <3>1. to_client' = to_client
      BY <1>2, <2>1, <2>3, NoNewFrame, AddedAll
    <3>2. QED
      BY <1>1, <1>2, <1>3, <2>3, <3>1 DEF AccountInv, SentInv, ServerKeeps
  <2>4. ASSUME NEW f \in FromServer, sent' = Append(sent, f) PROVE SentInv'
    <3>1. to_client' = Append(to_client, f)
      BY <1>2, <2>1, <2>4, NewFrame, AddedOne
    <3>2. /\ NumbersIn(to_client') = NumbersIn(to_client) \cup {f.n}
          /\ NumbersIn(sent') = NumbersIn(sent) \cup {f.n}
      BY <2>1, <2>4, <3>1, NumbersInAppend
    <3>3. QED
      BY <1>1, <1>2, <1>3, <3>2 DEF AccountInv, SentInv, ServerKeeps
  <2>5. QED
    BY <2>2, <2>3, <2>4, ServerSends
<1>6. ArrivedInv'
  BY <1>1, <1>2, <1>3 DEF AccountInv, ArrivedInv, ServerKeeps
<1>7. QED
  BY <1>1, <1>4, <1>5, <1>6 DEF AccountInv, ServerKeeps

LEMMA ClientWorksAccount ==
  ASSUME ClientSide, NetworkInv, AccountInv, client_works PROVE AccountInv'
<1>1. ClientKeeps
  BY ClientWorks DEF AccountInv
<1>2. /\ UNCHANGED <<server, to_client, reached_client, reached_server>>
      /\ to_server' = to_server \o New(c_sent, c_sent')
  BY DEF client_works
<1>3. UNCHANGED <<captured, sent, arrived, ServerOut, ServerIn, injected, pc, reset_pending>>
  BY <1>2 DEF server, ServerOut, ServerIn
<1>4. TakenInv'
  BY <1>1, <1>3 DEF AccountInv, TakenInv, ClientKeeps
<1>5. SentInv'
  <2>1. to_server \in Seq(OfClient) /\ c_sent \in Seq(OfClient)
    BY ClientHands DEF NetworkInv
  <2>2. Client!TxStep \/ UNCHANGED c_sent
    BY DEF client_works, Client!ReadStep, Client!RxStep,
       Client!WriteStep, Client!open_device, Client!tap_send,
       Client!notice, Client!rx_recv_from, Client!rx_blame,
       Client!rx_clear, Client!rx_send, Client!write_recv, Client!tap_write,
       Client!to_peer
  <2>3. CASE c_sent' = c_sent
    <3>1. to_server' = to_server
      BY <1>2, <2>1, <2>3, NoNewFrame, AddedAll
    <3>2. QED
      BY <1>1, <1>2, <1>3, <2>3, <3>1 DEF AccountInv, SentInv, ClientKeeps
  <2>4. ASSUME NEW f \in OfClient, c_sent' = Append(c_sent, f) PROVE SentInv'
    <3>1. to_server' = Append(to_server, f)
      BY <1>2, <2>1, <2>4, NewFrame, AddedOne
    <3>2. /\ NumbersIn(to_server') = NumbersIn(to_server) \cup {f.n}
          /\ NumbersIn(c_sent') = NumbersIn(c_sent) \cup {f.n}
      BY <2>1, <2>4, <3>1, NumbersInAppend
    <3>3. QED
      BY <1>1, <1>2, <1>3, <3>2 DEF AccountInv, SentInv, ClientKeeps
  <2>5. QED
    BY <2>2, <2>3, <2>4, ClientSends
<1>6. ArrivedInv'
  BY <1>1, <1>2, <1>3 DEF AccountInv, ArrivedInv, ClientKeeps
<1>7. StopInv'
  BY <1>1, <1>2, <1>3 DEF AccountInv, StopInv, ClientKeeps
<1>8. QED
  BY <1>1, <1>4, <1>5, <1>6, <1>7 DEF AccountInv, ClientKeeps

LEMMA DeliveredAccount ==
  ASSUME ServerSide, ClientSide, NetworkInv, AccountInv,
         deliver_to_client \/ deliver_to_server
  PROVE  AccountInv'
<1>1. /\ to_client \in Seq(FromServer) /\ to_server \in Seq(OfClient)
      /\ reached_client \in Seq(Nat) /\ c_arrived = Len(reached_client)
      /\ reached_server \in Seq(Nat) /\ arrived = Len(reached_server)
  BY DEF NetworkInv
<1>2. LostInv' /\ lost' = lost
  BY DEF deliver_to_client, deliver_to_server, AccountInv, LostInv
<1>3. CASE deliver_to_client
  <2>1. PICK i \in DOMAIN to_client :
          /\ Takes(to_client, i, to_client')
          /\ reached_client' = Append(reached_client, to_client[i].n)
    BY <1>3 DEF deliver_to_client
  <2>2. to_client[i].n \in Nat
    BY <1>1, FrameNumbers
  <2>3. ToSet(reached_client') = ToSet(reached_client) \cup {to_client[i].n}
    <3> DEFINE n == to_client[i].n
    <3>1. n \in Nat /\ reached_client' = Append(reached_client, n)
      BY <2>1, <2>2
    <3> HIDE DEF n
    <3>2. reached_client \in Seq(Nat)
      BY <1>1
    <3>3. ToSet(Append(reached_client, n)) = ToSet(reached_client) \cup {n}
      BY <3>1, <3>2, MembersOfAppend
    <3>4. QED
      BY <3>1, <3>3 DEF n
  <2>4. NumbersIn(to_client) \subseteq NumbersIn(to_client') \cup {to_client[i].n}
    BY <1>1, <2>1, NumbersInTaken
  <2>5. /\ UNCHANGED <<server, to_server, reached_server>>
        /\ UNCHANGED <<read, c_sent, ClientOut, written, c_held, udp_chan>>
        /\ c_socket' = Append(c_socket, c_arrived + 1) /\ c_arrived' = c_arrived + 1
    BY <1>3 DEF deliver_to_client, Client!datagram, Client!to_peer, ClientOut
  <2>6. UNCHANGED <<captured, sent, arrived, ServerOut, ServerIn, injected, pc,
                    reset_pending>>
    BY <2>5 DEF server, ServerOut, ServerIn
  <2>7. TakenInv' /\ StopInv'
    BY <1>2, <2>5, <2>6 DEF AccountInv, TakenInv, StopInv
  <2>8. SentInv'
    BY <1>2, <2>3, <2>4, <2>5, <2>6 DEF AccountInv, SentInv
  <2>9. ArrivedInv'
    <3>1. c_arrived \in Nat /\ c_arrived + 1 \in Nat /\ c_socket \in Seq(Nat)
      BY ClientHands
    <3>2. ToSet(c_socket') = ToSet(c_socket) \cup {c_arrived + 1}
      BY <2>5, <3>1, MembersOfAppend
    <3>3. 1..c_arrived' = 1..c_arrived \cup {c_arrived + 1}
      BY <2>5, <3>1, OneMore
    <3>4. 1..c_arrived' \subseteq ClientIn' \cup ToSet(written')
      BY <2>5, <3>2, <3>3 DEF AccountInv, ArrivedInv, ClientIn
    <3>5. QED
      BY <1>2, <2>5, <2>6, <3>4 DEF AccountInv, ArrivedInv
  <2>10. QED
    BY <1>2, <2>7, <2>8, <2>9 DEF AccountInv
<1>4. CASE deliver_to_server
  <2>1. PICK i \in DOMAIN to_server :
          /\ Takes(to_server, i, to_server')
          /\ reached_server' = Append(reached_server, to_server[i].n)
    BY <1>4 DEF deliver_to_server
  <2>2. to_server[i].n \in Nat
    BY <1>1, FrameNumbers
  <2>3. ToSet(reached_server') = ToSet(reached_server) \cup {to_server[i].n}
    <3> DEFINE n == to_server[i].n
    <3>1. n \in Nat /\ reached_server' = Append(reached_server, n)
      BY <2>1, <2>2
    <3> HIDE DEF n
    <3>2. reached_server \in Seq(Nat)
      BY <1>1
    <3>3. ToSet(Append(reached_server, n)) = ToSet(reached_server) \cup {n}
      BY <3>1, <3>2, MembersOfAppend
    <3>4. QED
      BY <3>1, <3>3 DEF n
  <2>4. NumbersIn(to_server) \subseteq NumbersIn(to_server') \cup {to_server[i].n}
    BY <1>1, <2>1, NumbersInTaken
  <2>5. /\ UNCHANGED <<client, to_client, reached_client>>
        /\ UNCHANGED <<captured, sent, ServerOut, injected, held, inj_chan, pc,
                       reset_pending>>
        /\ socket' = Append(socket, arrived + 1) /\ arrived' = arrived + 1
        /\ pc["main"] = "select"
    BY <1>4 DEF deliver_to_server, Server!datagram, Server!to_peer, Server!icmp,
       Server!Up, ServerOut
  <2>6. UNCHANGED <<read, c_sent, c_arrived, ClientOut, ClientIn, written>>
    BY <2>5 DEF client, ClientOut, ClientIn
  <2>7. TakenInv' /\ StopInv'
    BY <1>2, <2>5, <2>6 DEF AccountInv, TakenInv, StopInv
  <2>8. SentInv'
    BY <1>2, <2>3, <2>4, <2>5, <2>6 DEF AccountInv, SentInv
  <2>9. ArrivedInv'
    <3>1. arrived \in Nat /\ arrived + 1 \in Nat /\ socket \in Seq(Nat)
      BY ServerHands
    <3>2. ToSet(socket') = ToSet(socket) \cup {arrived + 1}
      BY <2>5, <3>1, MembersOfAppend
    <3>3. 1..arrived' = 1..arrived \cup {arrived + 1}
      BY <2>5, <3>1, OneMore
    <3>4. \A a \in 1..arrived : reached_server'[a] = reached_server[a]
      BY <1>1, <2>1, <2>2
    <3>5. \A a \in 1..arrived' :
            a \in ServerIn' \cup ToSet(injected') \/ reached_server'[a] \in lost'.client
      BY <1>2, <2>5, <3>2, <3>3, <3>4 DEF AccountInv, ArrivedInv, ServerIn
    <3>6. QED
      BY <2>6, <3>5 DEF AccountInv, ArrivedInv
  <2>10. QED
    BY <1>2, <2>7, <2>8, <2>9 DEF AccountInv
<1>5. QED
  BY <1>3, <1>4

LEMMA GoneAccount ==
  ASSUME NetworkInv, AccountInv, refuse \/ lose PROVE AccountInv'
<1>1. to_client \in Seq(FromServer) /\ to_server \in Seq(OfClient)
  BY DEF NetworkInv
<1>2. /\ UNCHANGED <<server, reached_client, reached_server, read, c_sent, c_arrived,
                     c_held, tap_chan, udp_chan, c_socket, written>>
      /\ \/ /\ to_client # <<>> /\ to_client' = Tail(to_client) /\ UNCHANGED to_server
            /\ Lose("server", {Head(to_client).n})
         \/ /\ to_server # <<>> /\ to_server' = Tail(to_server) /\ UNCHANGED to_client
            /\ Lose("client", {Head(to_server).n})
  BY DEF refuse, lose, client, Client!port_unreachable, Client!to_peer, Client!to_tap
<1>3. LostInv' /\ lost.server \subseteq lost'.server /\ lost.client \subseteq lost'.client
  BY <1>2, Lost DEF AccountInv
<1>4. UNCHANGED <<captured, sent, arrived, ServerOut, ServerIn, injected, pc,
                  reset_pending, ClientOut, ClientIn>>
  BY <1>2 DEF server, ServerOut, ServerIn, ClientOut, ClientIn
<1>5. TakenInv' /\ ArrivedInv' /\ StopInv'
  BY <1>2, <1>3, <1>4 DEF AccountInv, TakenInv, ArrivedInv, StopInv
<1>6. SentInv'
  <2>1. CASE to_client # <<>> /\ to_client' = Tail(to_client) /\ UNCHANGED to_server
             /\ Lose("server", {Head(to_client).n})
    <3>1. NumbersIn(to_client) = {Head(to_client).n} \cup NumbersIn(to_client')
      BY <1>1, <2>1, NumbersInRest
    <3>2. Head(to_client).n \in lost'["server"]
      BY <2>1, Lost DEF AccountInv
    <3>3. QED
      BY <1>2, <1>3, <1>4, <2>1, <3>1, <3>2 DEF AccountInv, SentInv
  <2>2. CASE to_server # <<>> /\ to_server' = Tail(to_server) /\ UNCHANGED to_client
             /\ Lose("client", {Head(to_server).n})
    <3>1. NumbersIn(to_server) = {Head(to_server).n} \cup NumbersIn(to_server')
      BY <1>1, <2>2, NumbersInRest
    <3>2. Head(to_server).n \in lost'["client"]
      BY <2>2, Lost DEF AccountInv
    <3>3. QED
      BY <1>2, <1>3, <1>4, <2>2, <3>1, <3>2 DEF AccountInv, SentInv
  <2>3. QED
    BY <1>2, <2>1, <2>2
<1>7. QED
  BY <1>3, <1>5, <1>6 DEF AccountInv

LEMMA TakenAccount ==
  ASSUME ServerSide, ClientSide, AccountInv, server_captures \/ client_reads
  PROVE  AccountInv'
<1>1. UNCHANGED <<network, lost>> /\ LostInv'
  BY DEF server_captures, client_reads, AccountInv, LostInv
<1>2. CASE server_captures
  <2>1. PICK f : Server!Hold("capture", <<f>>) /\ f.n = captured + 1
    <3>1. PICK kind : Server!Hold("capture", <<[n |-> captured + 1, kind |-> kind]>>)
      BY <1>2 DEF server_captures, Server!next_packet
    <3>2. [n |-> captured + 1, kind |-> kind].n = captured + 1
      OBVIOUS
    <3>3. QED
      BY <3>1, <3>2
  <2>2. /\ UNCHANGED <<client, cap_chan, sent, inj_chan, arrived, socket, injected,
                       reset_pending>>
        /\ captured' = captured + 1 /\ pc["capture"] = "idle" /\ pc["main"] = "select"
        /\ Server!Goto("capture", "send")
    BY <1>2 DEF server_captures, Server!next_packet, Server!to_nic, Server!icmp, Server!Up
  <2>3. /\ pc \in [Server!Threads -> Server!Labels] /\ DOMAIN held = Server!Threads
        /\ {"main", "capture", "tx", "rx", "inject"} = Server!Threads
        /\ captured \in Nat /\ captured + 1 \in Nat
    BY ServerHands DEF Server!Threads
  <2>4. /\ held'["capture"] = <<f>>
        /\ \A t \in {"tx", "rx", "inject"} : held'[t] = held[t]
    BY <2>1, <2>3 DEF Server!Hold
  <2>5. pc'["capture"] = "send" /\ \A t \in {"main", "tx", "rx", "inject"} : pc'[t] = pc[t]
    BY <2>2, <2>3 DEF Server!Goto
  <2>6. held["capture"] = <<>>
    BY <2>2 DEF ServerSide, ServerP!WireInv, ServerP!IdleInv
  <2>7. ServerOut' = ServerOut \cup {captured + 1} /\ ServerIn' = ServerIn
    BY <2>1, <2>2, <2>4, <2>6, NumbersInFew DEF ServerOut, ServerIn
  <2>8. UNCHANGED <<read, c_sent, c_arrived, ClientOut, ClientIn, written>>
    BY <2>2 DEF client, ClientOut, ClientIn
  <2>9. 1..captured' = 1..captured \cup {captured + 1}
    BY <2>2, <2>3, OneMore
  <2>10. TakenInv'
    BY <1>1, <2>2, <2>3, <2>7, <2>8, <2>9 DEF AccountInv, TakenInv
  <2>11. SentInv' /\ ArrivedInv'
    BY <1>1, <2>2, <2>7, <2>8 DEF AccountInv, SentInv, ArrivedInv, network
  <2>12. StopInv'
    BY <2>2, <2>5 DEF AccountInv, StopInv
  <2>13. QED
    BY <1>1, <2>10, <2>11, <2>12 DEF AccountInv
<1>3. CASE client_reads
  <2>1. /\ UNCHANGED <<server, tap_chan, c_sent, udp_chan, c_arrived, c_socket, written>>
        /\ Client!Hold("read", <<read + 1>>) /\ read' = read + 1 /\ c_pc["read"] = "idle"
    BY <1>3 DEF client_reads, Client!tap_read, Client!to_tap
  <2>2. /\ DOMAIN c_held = Client!Threads /\ read \in Nat /\ read + 1 \in Nat
        /\ {"read", "tx", "rx", "write"} \subseteq Client!Threads
    BY ClientHands DEF Client!Threads
  <2>3. /\ c_held'["read"] = <<read + 1>>
        /\ \A t \in {"tx", "rx", "write"} : c_held'[t] = c_held[t]
    BY <2>1, <2>2 DEF Client!Hold
  <2>4. c_held["read"] = <<>>
    BY <2>1 DEF ClientSide, ClientP!WireInv, ClientP!IdleInv
  <2>5. ClientOut' = ClientOut \cup {read + 1} /\ ClientIn' = ClientIn
    BY <2>1, <2>3, <2>4, MembersOfNone, MembersOfOne DEF ClientOut, ClientIn
  <2>6. UNCHANGED <<captured, sent, arrived, ServerOut, ServerIn, injected, pc,
                    reset_pending>>
    BY <2>1 DEF server, ServerOut, ServerIn
  <2>7. 1..read' = 1..read \cup {read + 1}
    BY <2>1, <2>2, OneMore
  <2>8. TakenInv'
    BY <1>1, <2>1, <2>2, <2>5, <2>6, <2>7 DEF AccountInv, TakenInv
  <2>9. SentInv' /\ ArrivedInv' /\ StopInv'
    BY <1>1, <2>1, <2>5, <2>6 DEF AccountInv, SentInv, ArrivedInv, StopInv, network
  <2>10. QED
    BY <1>1, <2>8, <2>9 DEF AccountInv
<1>4. QED
  BY <1>2, <1>3

LEMMA StoppedAccount ==
  ASSUME ServerSide, AccountInv, server_stops PROVE AccountInv'
<1>1. /\ held["capture"] \in Seq(FromServer) /\ cap_chan \in Seq(FromServer)
      /\ held["tx"] \in Seq(FromServer) /\ held["rx"] \in Seq(Nat)
      /\ inj_chan \in Seq(Nat) /\ held["inject"] \in Seq(Nat) /\ socket \in Seq(Nat)
      /\ pc \in [Server!Threads -> Server!Labels]
  BY ServerHands
<1>2. /\ UNCHANGED <<client, network, held, cap_chan, inj_chan, captured, sent, arrived,
                     socket, injected, reset_pending>>
      /\ Server!Goto("main", "returned")
      /\ lost' = [server |-> lost.server
                    \cup NumbersIn(held["capture"] \o cap_chan \o held["tx"]),
                  client |-> lost.client
                    \cup FromClient(held["rx"] \o inj_chan \o held["inject"] \o socket)]
  BY DEF server_stops, Server!ctrl_c, Server!to_peer, Server!to_nic, Server!icmp
<1>3. NumbersIn(held["capture"] \o cap_chan \o held["tx"]) = ServerOut
  <2>1. ToSet(held["capture"] \o cap_chan \o held["tx"])
          = ToSet(held["capture"]) \cup ToSet(cap_chan) \cup ToSet(held["tx"])
    BY <1>1, MembersOfThree
  <2>2. QED
    BY <2>1 DEF ServerOut, NumbersIn
<1>4. ToSet(held["rx"] \o inj_chan \o held["inject"] \o socket) = ServerIn
  <2>1. ToSet(held["rx"] \o inj_chan \o held["inject"] \o socket)
          = ToSet(held["rx"]) \cup ToSet(inj_chan) \cup ToSet(held["inject"]) \cup ToSet(socket)
    BY <1>1, MembersOfFour
  <2>2. QED
    BY <2>1 DEF ServerIn
<1>5. /\ LostInv' /\ lost'.server = lost.server \cup ServerOut
      /\ lost'.client = lost.client \cup {reached_server[a] : a \in ServerIn}
  BY <1>2, <1>3, <1>4 DEF LostInv, FromClient
<1>6. UNCHANGED <<read, c_sent, c_arrived, ClientOut, ClientIn, written, ServerOut,
                  ServerIn>>
  BY <1>2 DEF client, ClientOut, ClientIn, ServerOut, ServerIn
<1>7. TakenInv' /\ SentInv' /\ ArrivedInv'
  BY <1>2, <1>5, <1>6 DEF AccountInv, TakenInv, SentInv, ArrivedInv, network
<1>8. StopInv'
  <2>1. \A t \in {"capture", "tx", "rx", "inject"} : pc'[t] = pc[t]
    BY <1>1, <1>2 DEF Server!Goto, Server!Threads
  <2>2. QED
    BY <1>2, <1>5, <1>6, <2>1 DEF AccountInv, StopInv, network
<1>9. QED
  BY <1>5, <1>7, <1>8 DEF AccountInv

LEMMA RestartedAccount == ASSUME AccountInv, server_restarts PROVE AccountInv'
<1>1. /\ UNCHANGED <<client, network, captured, sent, arrived, injected, lost>>
      /\ pc["main"] = "returned"
      /\ pc' = [t \in Server!Threads |-> IF t = "main" THEN "dispatch" ELSE "idle"]
      /\ held' = [t \in Server!Threads |-> <<>>]
      /\ cap_chan' = <<>> /\ inj_chan' = <<>> /\ socket' = <<>> /\ reset_pending' = FALSE
  BY DEF server_restarts
<1>2. UNCHANGED <<read, c_sent, c_arrived, ClientOut, ClientIn, written>>
  BY <1>1 DEF client, ClientOut, ClientIn
<1>3. /\ ServerOut \subseteq lost.server
      /\ \A a \in ServerIn : reached_server[a] \in lost.client
  BY <1>1 DEF AccountInv, StopInv
<1>4. TakenInv' /\ SentInv' /\ ArrivedInv' /\ LostInv'
  BY <1>1, <1>2, <1>3 DEF AccountInv, TakenInv, SentInv, ArrivedInv, LostInv, network
<1>5. StopInv'
  BY <1>1 DEF StopInv, Server!Threads
<1>6. QED
  BY <1>4, <1>5 DEF AccountInv

LEMMA AccountStep ==
  ServerSide /\ ClientSide /\ NetworkInv /\ AccountInv /\ [Next]_vars => AccountInv'
<1>1. AccountInv /\ UNCHANGED vars => AccountInv'
  BY DEF vars, server, client, network, AccountInv, TakenInv, SentInv, ArrivedInv,
     StopInv, LostInv, ServerOut, ServerIn, ClientOut, ClientIn
<1>2. QED
  BY <1>1, ServerWorksAccount, ClientWorksAccount, DeliveredAccount, GoneAccount,
     TakenAccount, StoppedAccount, RestartedAccount DEF Next, Delivers

LEMMA AccountFollows ==
  ServerSide /\ ClientSide /\ NetworkInv /\ AccountInv => NoneVanishes
<1> SUFFICES ASSUME ServerSide, ClientSide, NetworkInv, AccountInv PROVE NoneVanishes
  OBVIOUS
<1>1. /\ to_client \in Seq(FromServer) /\ to_server \in Seq(OfClient)
      /\ reached_client \in Seq(Nat) /\ c_arrived = Len(reached_client)
      /\ reached_server \in Seq(Nat) /\ arrived = Len(reached_server)
  BY DEF NetworkInv
<1>2. ServerOut \cup NumbersIn(to_client) = NumbersIn(ToClient)
  <2>1. /\ held["capture"] \in Seq(FromServer) /\ cap_chan \in Seq(FromServer)
        /\ held["tx"] \in Seq(FromServer) /\ to_client \in Seq(FromServer)
    BY <1>1, ServerHands
  <2>2. ToSet(held["capture"] \o cap_chan \o held["tx"] \o to_client)
          = ToSet(held["capture"]) \cup ToSet(cap_chan) \cup ToSet(held["tx"])
              \cup ToSet(to_client)
    BY <2>1, MembersOfFour
  <2>3. QED
    BY <2>2 DEF ServerOut, NumbersIn, ToClient
<1>3. ClientIn = ToSet(AtClient)
  <2>1. /\ c_socket \in Seq(Nat) /\ c_held["rx"] \in Seq(Nat) /\ udp_chan \in Seq(Nat)
        /\ c_held["write"] \in Seq(Nat)
    BY ClientHands
  <2>2. ToSet(c_socket \o c_held["rx"] \o udp_chan \o c_held["write"])
          = ToSet(c_socket) \cup ToSet(c_held["rx"]) \cup ToSet(udp_chan)
              \cup ToSet(c_held["write"])
    BY <2>1, MembersOfFour
  <2>3. QED
    BY <2>2 DEF ClientIn, AtClient
<1>4. ClientOut \cup NumbersIn(to_server)
        = ToSet(c_held["read"] \o tap_chan) \cup NumbersIn(ToServer)
  <2>1. /\ c_held["read"] \in Seq(Nat) /\ tap_chan \in Seq(Nat)
        /\ c_held["tx"] \in Seq(OfClient)
    BY ClientHands
  <2>2. /\ ToSet(c_held["read"] \o tap_chan) = ToSet(c_held["read"]) \cup ToSet(tap_chan)
        /\ NumbersIn(ToServer) = NumbersIn(c_held["tx"]) \cup NumbersIn(to_server)
    BY <1>1, <2>1, MembersOfBoth, NumbersInBoth DEF ToServer
  <2>3. QED
    BY <2>2 DEF ClientOut
<1>5. ServerIn = ToSet(AtServer)
  <2>1. /\ socket \in Seq(Nat) /\ held["rx"] \in Seq(Nat) /\ inj_chan \in Seq(Nat)
        /\ held["inject"] \in Seq(Nat)
    BY ServerHands
  <2>2. ToSet(socket \o held["rx"] \o inj_chan \o held["inject"])
          = ToSet(socket) \cup ToSet(held["rx"]) \cup ToSet(inj_chan) \cup ToSet(held["inject"])
    BY <2>1, MembersOfFour
  <2>3. QED
    BY <2>2 DEF ServerIn, AtServer
<1>6. ASSUME NEW f \in ToSet(reached_client)
      PROVE  f \in Behind(AtClient) \cup ToSet(OnTap)
  <2>1. PICK a \in 1..c_arrived : f = reached_client[a]
    BY <1>1, <1>6 DEF ToSet
  <2>2. a \in ToSet(AtClient) \/ a \in ToSet(written)
    BY <1>3 DEF AccountInv, ArrivedInv
  <2>3. QED
    BY <2>1, <2>2 DEF Behind, OnTap, ToSet
<1>7. ASSUME NEW f \in ToSet(reached_server)
      PROVE  f \in FromClient(AtServer) \cup ToSet(OnNic) \cup lost.client
  <2>1. PICK a \in 1..arrived : f = reached_server[a]
    BY <1>1, <1>7 DEF ToSet
  <2>2. a \in ToSet(AtServer) \/ a \in ToSet(injected) \/ f \in lost.client
    BY <1>5, <2>1 DEF AccountInv, ArrivedInv
  <2>3. QED
    BY <2>1, <2>2 DEF FromClient, OnNic, ToSet
<1>8. QED
  BY <1>2, <1>4, <1>6, <1>7 DEF AccountInv, TakenInv, SentInv, NoneVanishes

\* Whatever the network does, and whenever the server stops and starts again, no
\* frame captured or read vanishes: it is on its way, with the other end, let go
\* by it, or lost to a cause that is known, never to a full channel
\* (src/client.rs, src/server.rs).
THEOREM TunnelLosesNone == Spec => []NoneVanishes
<1>1. ServerSide /\ [Next]_vars => ServerSide'
  BY ServerStep, ServerSideStep, RestartKeepsServer
<1>2. QED
  BY <1>1, ServerSideInit, ClientSideInit, ClientSideStep, NetworkInvInit,
     NetworkInvStep, AccountInit, AccountStep, AccountFollows, PTL DEF Spec
=============================================================================
